----------------------------- MODULE MCReplica -----------------------------
\* Replica for TLC.
EXTENDS Claims, TLC

ServerSymmetry == Permutations(Server)
Symmetry == Permutations(Server) \union Permutations(Value)

\* What matters to properties that do not mention elections: all but their history,
\* which no action reads.
NoElections == <<node, rep, disk, net, asked, acked, crashes>>
=============================================================================
