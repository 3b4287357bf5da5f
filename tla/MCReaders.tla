----------------------------- MODULE MCReaders -----------------------------
\* Readers for TLC.
EXTENDS Readers, TLC

Symmetry == Permutations(Key) \union Permutations(Iter)
=============================================================================
