------------------------------- MODULE Claims -------------------------------
(***************************************************************************)
(* Sentences of the Raft sources and of the Replica that the code does not *)
(* live up to, each with the smallest instance of MCReplica on which TLC   *)
(* refutes it.  No run checks them; each is here for the day the code is   *)
(* changed, to be made an INVARIANT or PROPERTY then.                      *)
(***************************************************************************)
EXTENDS Replica

\* What a candidate counts are "the votes (or pre-votes) granted so far this
\* election" (raft.go:351): each was granted to it in its present term.
\* Refuted by a delayed MsgVoteResp: two servers, two messages in flight, two terms.
VotesAreGranted ==
  \A i \in Server : node[i].state \in {"Candidate", "Leader"} =>
    \A p \in node[i].votes :
      [from |-> p, to |-> i, term |-> node[i].term] \in granted

\* A node votes for one candidate per term: "votedFor is the candidate this
\* node voted for in current term" (raft.go:31).
\* Refuted with three servers, a crash, two messages in flight, term 1.
OneVotePerTerm ==
  \A a, b \in granted : a.from = b.from /\ a.term = b.term => a.to = b.to

\* A snapshot's data is the state machine at its index, nothing later and nothing
\* less: the applied watermark is chosen on the loop, "which is what makes the
\* snapshot's label agree with its contents" (replica.go:372-373).
\* Refuted with one server, a command, a crash, snapshots on demand.
SnapshotLabelAgrees ==
  \A i \in Server : Snapshot(disk[i]) # NoSnapshot =>
    /\ \A e \in disk[i].snapData : e.Index <= disk[i].snapMeta.Index
    /\ \A a \in acked : a.entry.Index <= disk[i].snapMeta.Index
         => a.entry \in disk[i].snapData

\* The leader a node redirects to is one: "leadID is learned from a leader's
\* MsgApp / MsgHeartbeat" (raft.go:491-492).
\* Refuted with two servers, two messages in flight, two terms.
LeadIsLeader ==
  \A i \in Server : node[i].leadID # none =>
    [id |-> node[i].leadID, term |-> node[i].term] \in elected

\* "Conflicting entries are truncated" (log.go:175): the terms along a durable
\* log never decrease, as a leader's log has them.
\* Refuted with three servers, a command, two terms, two entries.
LogTermsOrdered ==
  \A i \in Server : \A k, l \in DOMAIN disk[i].log :
    k <= l => disk[i].log[k].Term <= disk[i].log[l].Term

\* A rejected append makes the leader "back up nextIndex" (raft.go:569), so that
\* the next probe lies below the one refused and repair comes to an end.
\* Refuted with three servers, three terms, two entries.
RejectionBacksUp ==
  [][\A m \in net \ net' :
       LET n == node[m.to]
       IN  /\ m.type = "AppResp" /\ m.reject
           /\ n.state = "Leader" /\ m.term = n.term
           /\ crashes' = crashes
           => \/ node'[m.to].nextIndex[m.from] < n.nextIndex[m.from]
              \/ n.nextIndex[m.from] = 1]_vars

\* "Re-running the truncation each cycle means the log shrinks as soon as that
\* follower is caught up" (replica.go:294-296): after a leader's cycle that sent
\* messages, its log holds nothing up to the compactable index.
\* Refuted with three servers, snapshots on demand, one term.
TruncatesEachCycle ==
  [][\A i \in Server :
       /\ \E m \in net' \ net : m.from = i
       /\ node'[i].state = "Leader" /\ crashes' = crashes
       => \A k \in DOMAIN disk'[i].log :
            k > CompactableIndex(node'[i], rep'[i].lastSnapIndex)]_vars

\* "A crash between any two steps leaves the replica recoverable" (replica.go:337):
\* an acknowledged index is covered by the log or the snapshot of the sender.
\* Refuted with three servers, snapshots on demand, a crash, one term.
AcksAreCovered ==
  \A m \in net : m.type = "AppResp" /\ ~m.reject =>
    \A k \in 1 .. m.index : Covered(disk[m.from], k)

\* matchIndex is what it is documented to be, the "highest log index known
\* replicated" (raft.go:41): up to it the peer's durable log covers every
\* index, and where both logs still hold an entry it is the leader's.
\* Refuted with three servers, snapshots on demand, a crash, one term.
MatchIsReplicated ==
  \A i \in Server : node[i].state = "Leader" =>
    \A p \in Peers(node[i]) : \A k \in 1 .. node[i].matchIndex[p] :
      /\ Covered(disk[p], k)
      /\ k \in DOMAIN disk[i].log \intersect DOMAIN disk[p].log
           => disk[i].log[k] = disk[p].log[k]

\* Propose "blocks until it is committed and applied" (replica.go:156): the
\* entry whose application released a client carries that client's command.
\* Refuted with two servers, two commands, two terms, three entries.
AckedOwnCommand == \A a \in acked : a.entry.Data = a.value

\* What is committed was "replicated on a quorum" (raft.go:764): the
\* command a client was told of is on the disks of a quorum, in the log or in the
\* snapshot's data, and stays there.
\* Refuted with three servers, a command, two terms, two entries.
AckedSurvives ==
  \A a \in acked :
    Cardinality({i \in Server :
      \/ a.entry \in disk[i].snapData
      \/ a.entry.Index \in DOMAIN disk[i].log
           /\ disk[i].log[a.entry.Index] = a.entry}) >= quorum
=============================================================================
