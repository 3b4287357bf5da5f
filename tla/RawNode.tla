------------------------------ MODULE RawNode ------------------------------
(***************************************************************************)
(* The Raft state machine of one node (internal/raft: RawNode, RaftLog),   *)
(* as the pure functions the source has: each operator takes the node      *)
(* before the call and the disk its log reads, and is the node after it.   *)
(* Outbound messages collect in msgs, unstable entries in unstable, until  *)
(* the Ready loop (module Replica) drains them.                            *)
(*                                                                         *)
(* Ticks are not counted.  electionElapsed stays below electionTimeout     *)
(* outside Tick, which resets it on reaching the timeout, so the lease     *)
(* test of Step reduces to "a leader is known", and a timeout may come at  *)
(* any time.                                                               *)
(***************************************************************************)
EXTENDS RaftStorage

CONSTANTS
  Server,
  preVote,              \* run a pre-election before campaigning
  checkQuorum,          \* leader lease and step-down on quorum loss
  snapshotCatchupGap    \* lag beyond which a snapshot is preferred

quorum == Cardinality(Server) \div 2 + 1

Peers(n) == Server \ {n.id}

AtMost(a, b) == IF a < b THEN a ELSE b
AtLeast(a, b) == IF a < b THEN b ELSE a

NoNode(id) ==
  [id |-> id, state |-> "Follower", term |-> 0, votedFor |-> none,
   votes |-> {}, leadID |-> none,
   nextIndex |-> <<>>, matchIndex |-> <<>>, recentActive |-> {},
   committed |-> 0, applied |-> 0,
   unstable |-> <<>>, pendingSnapshot |-> NoSnapshot, msgs |-> {}]

hardState(n) == [Term |-> n.term, VotedFor |-> n.votedFor, Commit |-> n.committed]

-----------------------------------------------------------------------------
(* RaftLog: stable entries on disk, unstable ones in memory. *)

lastIndex(n, d) ==
  IF n.unstable # <<>> THEN Last(n.unstable).Index
  ELSE AtLeast(LastIndex(d), n.pendingSnapshot.Metadata.Index)

term(n, d, index) ==
  LET held == {k \in DOMAIN n.unstable : n.unstable[k].Index = index}
  IN  IF index = 0 THEN 0
      ELSE IF held # {} THEN n.unstable[Max(held)].Term
      ELSE IF index = n.pendingSnapshot.Metadata.Index
           THEN n.pendingSnapshot.Metadata.Term
      ELSE Term(d, index)

\* The error of term is dropped: the term is then 0.
lastTerm(n, d) == AtLeast(0, term(n, d, lastIndex(n, d)))

append(n, entries) ==
  LET kept == SelectSeq(n.unstable, LAMBDA e : e.Index < Head(entries).Index)
  IN  [n EXCEPT !.unstable = kept \o entries]

\* Entries lo .. hi-1, from stable storage as far as that reaches, then from
\* unstable; none at all when stable storage misses one of them.
entries(n, d, lo, hi) ==
  LET stableMax == LastIndex(d)
      top == AtMost(hi, stableMax + 1)
      rest == SelectSeq(n.unstable,
                LAMBDA e : e.Index > stableMax /\ lo <= e.Index /\ e.Index < hi)
  IN  IF lo >= hi THEN <<>>
      ELSE IF lo > stableMax THEN rest
      ELSE IF HaveEntries(d, lo, top) THEN Entries(d, lo, top) \o rest
      ELSE <<>>

commitTo(n, index) == [n EXCEPT !.committed = AtLeast(@, index)]

\* appliedTo panics when index is above committed, which TypeOK rules out.
appliedTo(n, index) == [n EXCEPT !.applied = AtLeast(@, index)]

stableTo(n, index) ==
  [n EXCEPT !.unstable = SelectSeq(@, LAMBDA e : e.Index > index)]

nextEntries(n, d) == entries(n, d, n.applied + 1, n.committed + 1)

isUpToDate(n, d, index, logTerm) ==
  IF logTerm # lastTerm(n, d)
  THEN logTerm > lastTerm(n, d)
  ELSE index >= lastIndex(n, d)

\* restore, when the snapshot advances the log.
restore(n, snap) ==
  LET index == snap.Metadata.Index
  IN  [n EXCEPT
         !.pendingSnapshot = snap,
         !.committed = index,
         !.applied = AtLeast(@, index),
         !.unstable = SelectSeq(@, LAMBDA e : e.Index > index)]

-----------------------------------------------------------------------------
(* What a process knows after a start, first or not. *)

newRaftLog(id, d) ==
  LET floor == FirstIndex(d) - 1
      known == d.hs.Commit > floor /\ d.hs.Commit <= LastIndex(d)
  IN  [NoNode(id) EXCEPT !.committed = IF known THEN d.hs.Commit ELSE floor,
                         !.applied = floor]

\* A bug of NewRawNode: the process restarts from its snapshot, without the commit
\* and applied indices it had saved.
NewRawNodeForgets(id, d) ==
  [NoNode(id) EXCEPT !.term = d.hs.Term, !.votedFor = d.hs.VotedFor,
                     !.committed = d.snapMeta.Index, !.applied = d.snapMeta.Index]

NewRawNode(id, d) ==
  LET n == [newRaftLog(id, d) EXCEPT !.term = d.hs.Term, !.votedFor = d.hs.VotedFor]
  IN  IF d.hs = EmptyDisk.hs THEN n
      ELSE appliedTo(commitTo(n, d.hs.Commit), AtMost(d.applied, d.hs.Commit))

-----------------------------------------------------------------------------
(* Messages out. *)

send(n, m) == [n EXCEPT !.msgs = @ \union {m}]

reply(n, m, type, fields) ==
  send(n, [type |-> type, from |-> n.id, to |-> m.from, term |-> n.term] @@ fields)

\* bcastRequestVote and bcastPreVote.
bcastVote(n, d, type, atTerm) ==
  [n EXCEPT !.msgs = @ \union
     {[type |-> type, from |-> n.id, to |-> p, term |-> atTerm,
       index |-> lastIndex(n, d), logTerm |-> lastTerm(n, d)] : p \in Peers(n)}]

bcastHeartbeat(n) ==
  [n EXCEPT !.msgs = @ \union
     {[type |-> "Heartbeat", from |-> n.id, to |-> p, term |-> n.term,
       commit |-> AtMost(n.matchIndex[p], n.committed)] : p \in Peers(n)}]

compacted(n, d, to) == n.nextIndex[to] < FirstIndex(d)

farBehind(n, d, to) == lastIndex(n, d) > n.matchIndex[to] + snapshotCatchupGap

shipSnapshot(n, d, to) ==
  /\ compacted(n, d, to) \/ farBehind(n, d, to)
  /\ Snapshot(d) # NoSnapshot
  /\ compacted(n, d, to) \/ d.snapMeta.Index > n.matchIndex[to]

appendMsgs(n, d, to) ==
  LET next == n.nextIndex[to]
      head == [from |-> n.id, to |-> to, term |-> n.term]
  IN  IF shipSnapshot(n, d, to)
      THEN {[type |-> "Snap", snapshot |-> Snapshot(d)] @@ head}
      ELSE IF compacted(n, d, to) THEN {}
      ELSE {[type |-> "App",
             index |-> next - 1,
             logTerm |-> AtLeast(0, term(n, d, next - 1)),
             entries |-> entries(n, d, next, lastIndex(n, d) + 1),
             commit |-> n.committed] @@ head}

\* sendAppend to every peer in S.
sendAppend(n, d, S) ==
  [n EXCEPT
     !.msgs = @ \union UNION {appendMsgs(n, d, p) : p \in S},
     !.nextIndex = [p \in Server |->
        IF p \in S /\ shipSnapshot(n, d, p) THEN d.snapMeta.Index + 1 ELSE @[p]]]

-----------------------------------------------------------------------------
(* Role changes. *)

becomeFollower(n, t, lead) ==
  [n EXCEPT !.state = "Follower", !.term = t, !.leadID = lead,
            !.votedFor = none, !.votes = {},
            !.nextIndex = <<>>, !.matchIndex = <<>>, !.recentActive = {}]

becomePreCandidate(n) ==
  [n EXCEPT !.state = "PreCandidate", !.leadID = none, !.votes = {n.id}]

becomeCandidate(n) ==
  [n EXCEPT !.state = "Candidate", !.term = @ + 1, !.votedFor = n.id,
            !.leadID = none, !.votes = {n.id}]

\* The indices of the current term, down from the last, that a quorum holds.
\* The scan stops at the first entry of another term.
quorumIndices(n, d) ==
  {k \in (n.committed + 1) .. lastIndex(n, d) :
     /\ \A j \in k .. lastIndex(n, d) : term(n, d, j) = n.term
     /\ Cardinality({p \in Server : n.matchIndex[p] >= k}) >= quorum}

maybeAdvanceCommit(n, d) == commitTo(n, Max({0} \union quorumIndices(n, d)))

becomeLeader(n, d) ==
  LET last == lastIndex(n, d)
      led == [n EXCEPT
                !.state = "Leader", !.leadID = n.id, !.recentActive = {n.id},
                !.nextIndex = [p \in Server |-> last + 1],
                !.matchIndex = [p \in Server |-> IF p = n.id THEN last + 1 ELSE 0]]
      noop == <<[Term |-> n.term, Index |-> last + 1, Data |-> NoOp]>>
      own == maybeAdvanceCommit(append(led, noop), d)
  IN  sendAppend(own, d, Peers(n))

\* campaign(false)
campaign(n, d) ==
  LET c == becomeCandidate(n)
  IN  IF Cardinality(c.votes) >= quorum
      THEN becomeLeader(c, d)
      ELSE bcastVote(c, d, "Vote", c.term)

\* campaign(true)
preCampaign(n, d) ==
  LET c == becomePreCandidate(n)
  IN  IF Cardinality(c.votes) >= quorum
      THEN campaign(c, d)
      ELSE bcastVote(c, d, "PreVote", c.term + 1)

hup(n, d) ==
  IF n.state = "Leader" THEN n
  ELSE IF preVote THEN preCampaign(n, d)
  ELSE campaign(n, d)

\* One Tick of a leader: check says the election timeout has come round, beat
\* that the heartbeat timeout has.
leaderTick(n, check, beat) ==
  LET lost == check /\ checkQuorum /\ Cardinality(n.recentActive \union {n.id}) < quorum
      swept == IF check /\ checkQuorum THEN [n EXCEPT !.recentActive = {n.id}] ELSE n
  IN  IF lost THEN becomeFollower(n, n.term, none)
      ELSE IF beat THEN bcastHeartbeat(swept)
      ELSE swept

-----------------------------------------------------------------------------
(* Step, one operator per message type. *)

canVote(n, m) ==
  \/ n.votedFor = m.from
  \/ n.votedFor = none /\ n.leadID = none
  \/ m.type = "PreVote" /\ m.term > n.term

stepVote(n, d, m) ==
  LET resp == IF m.type = "PreVote" THEN "PreVoteResp" ELSE "VoteResp"
      voted == IF m.type = "Vote" THEN [n EXCEPT !.votedFor = m.from] ELSE n
  IN  IF m.term >= n.term /\ canVote(n, m) /\ isUpToDate(n, d, m.index, m.logTerm)
      THEN send(voted, [type |-> resp, from |-> n.id, to |-> m.from,
                        term |-> m.term, reject |-> FALSE])
      ELSE reply(n, m, resp, [reject |-> TRUE])

tally(n, m) ==
  [n EXCEPT !.votes = IF m.reject THEN @ \ {m.from} ELSE @ \union {m.from}]

stepVoteResp(n, d, m) ==
  LET t == tally(n, m)
  IN  IF n.state # "Candidate" THEN n
      ELSE IF Cardinality(t.votes) >= quorum THEN becomeLeader(t, d)
      ELSE t

stepPreVoteResp(n, d, m) ==
  LET t == tally(n, m)
  IN  IF n.state # "PreCandidate" THEN n
      ELSE IF Cardinality(t.votes) >= quorum THEN campaign(t, d)
      ELSE t

\* A bug of stepProp: the entry goes behind the committed ones.
stepPropOverwrites(n, d, data) ==
  LET next == n.committed + 1
      grown == append(n, <<[Term |-> n.term, Index |-> next, Data |-> data]>>)
      own == [grown EXCEPT !.matchIndex[n.id] = next]
  IN  IF n.state # "Leader" THEN n
      ELSE maybeAdvanceCommit(sendAppend(own, d, Peers(n)), d)

\* MsgProp with one entry, as Propose sends it.
stepProp(n, d, data) ==
  LET last == lastIndex(n, d)
      grown == append(n, <<[Term |-> n.term, Index |-> last + 1, Data |-> data]>>)
      own == [grown EXCEPT !.matchIndex[n.id] = last + 1]
  IN  IF n.state # "Leader" THEN n
      ELSE maybeAdvanceCommit(sendAppend(own, d, Peers(n)), d)

rejectAppend(n, d, m) ==
  reply(n, m, "AppResp", [reject |-> TRUE, hint |-> lastIndex(n, d)])

ackAppend(n, m, index) ==
  reply(n, m, "AppResp", [reject |-> FALSE, index |-> index])

stepApp(n, d, m) ==
  LET f == becomeFollower(n, m.term, m.from)
      g == IF m.entries = <<>> THEN f ELSE append(f, m.entries)
      h == commitTo(g, AtMost(m.commit, lastIndex(g, d)))
  IN  IF m.term < n.term THEN rejectAppend(n, d, m)
      ELSE IF m.index > 0 /\ term(f, d, m.index) # m.logTerm THEN rejectAppend(f, d, m)
      ELSE ackAppend(h, m, lastIndex(h, d))

stepAppResp(n, d, m) ==
  LET heard == [n EXCEPT !.recentActive = @ \union {m.from}]
      next == n.nextIndex[m.from]
      backed == IF m.hint < next THEN m.hint + 1 ELSE AtLeast(1, next - 1)
      matched == IF m.index > n.matchIndex[m.from]
                 THEN [heard EXCEPT !.matchIndex[m.from] = m.index,
                                    !.nextIndex[m.from] = m.index + 1]
                 ELSE heard
  IN  IF n.state # "Leader" THEN n
      ELSE IF m.reject
           THEN sendAppend([heard EXCEPT !.nextIndex[m.from] = backed], d, {m.from})
      ELSE maybeAdvanceCommit(matched, d)

stepHeartbeat(n, d, m) ==
  LET f == commitTo([n EXCEPT !.leadID = m.from], AtMost(m.commit, lastIndex(n, d)))
  IN  reply(IF m.term >= n.term THEN f ELSE n, m, "HeartbeatResp", <<>>)

stepHeartbeatResp(n, d, m) ==
  LET heard == [n EXCEPT !.recentActive = @ \union {m.from}]
  IN  IF n.state # "Leader" THEN n
      ELSE IF n.matchIndex[m.from] < lastIndex(n, d) THEN sendAppend(heard, d, {m.from})
      ELSE heard

stepSnap(n, d, m) ==
  LET f == becomeFollower(n, m.term, m.from)
      r == restore(f, m.snapshot)
  IN  IF m.term < n.term THEN rejectAppend(n, d, m)
      ELSE IF m.snapshot.Metadata.Index <= f.committed THEN ackAppend(f, m, f.committed)
      ELSE ackAppend(r, m, lastIndex(r, d))

\* The lease: a challenger is ignored while a leader is known.
leaseHolds(n, m) ==
  /\ m.type \in {"Vote", "PreVote"}
  /\ checkQuorum /\ n.leadID # none

\* A bug of adoptTerm: a PreVote and its grant move the term too.
adoptTermAlways(n, m) ==
  becomeFollower(n, m.term, IF m.type \in {"Vote", "PreVote"} THEN none ELSE m.from)

\* What a higher term does before the message itself is looked at.
adoptTerm(n, m) ==
  IF m.type = "PreVote" \/ (m.type = "PreVoteResp" /\ ~m.reject) THEN n
  ELSE becomeFollower(n, m.term, IF m.type = "Vote" THEN none ELSE m.from)

dispatch(n, d, m) ==
  CASE m.type \in {"Vote", "PreVote"} -> stepVote(n, d, m)
    [] m.type = "VoteResp"      -> stepVoteResp(n, d, m)
    [] m.type = "PreVoteResp"   -> stepPreVoteResp(n, d, m)
    [] m.type = "App"           -> stepApp(n, d, m)
    [] m.type = "AppResp"       -> stepAppResp(n, d, m)
    [] m.type = "Heartbeat"     -> stepHeartbeat(n, d, m)
    [] m.type = "HeartbeatResp" -> stepHeartbeatResp(n, d, m)
    [] m.type = "Snap"          -> stepSnap(n, d, m)

Step(n, d, m) ==
  IF m.term > n.term /\ leaseHolds(n, m) THEN n
  ELSE dispatch(IF m.term > n.term THEN adoptTerm(n, m) ELSE n, d, m)

-----------------------------------------------------------------------------
(* What the Ready loop asks of the node. *)

CompactableIndex(n, snapIndex) ==
  IF n.state # "Leader" THEN snapIndex
  ELSE Min({snapIndex} \union {n.matchIndex[p] : p \in Peers(n)})

\* before: the node as the last Advance left it.
HasReady(before, n, d) ==
  \/ hardState(n) # hardState(before)
  \/ n.pendingSnapshot # NoSnapshot
  \/ n.unstable # <<>>
  \/ nextEntries(n, d) # <<>>
  \/ n.msgs # {}
  \/ <<n.leadID, n.state>> # <<before.leadID, before.state>>

\* A bug of Advance: the entries persisted stay unstable.
AdvanceKeepsUnstable(n, d) ==
  LET applying == nextEntries(n, d)
      drained == [n EXCEPT !.pendingSnapshot = NoSnapshot, !.msgs = {}]
  IN  IF applying = <<>> THEN drained ELSE appliedTo(drained, Last(applying).Index)

\* d: the disk when Ready was called, which fixed the committed entries.
Advance(n, d) ==
  LET applying == nextEntries(n, d)
      drained == [n EXCEPT !.pendingSnapshot = NoSnapshot, !.msgs = {}]
      stable == IF n.unstable = <<>> THEN drained
                ELSE stableTo(drained, Last(n.unstable).Index)
  IN  IF applying = <<>> THEN stable ELSE appliedTo(stable, Last(applying).Index)
=============================================================================
