------------------------------ MODULE Replica ------------------------------
(***************************************************************************)
(* A Raft group of Replicas (internal/kv/kvserver) joined by the Raft      *)
(* transport of internal/server.  A Replica runs one loop: it takes an     *)
(* event (a tick, a proposal, a message, a snapshot request), steps the    *)
(* RawNode and handles the Ready that results: durable writes, then        *)
(* messages, then the application of committed entries, then snapshot and  *)
(* log compaction.  Nothing else touches its state, so one iteration is    *)
(* one step; a crash may fall after any of its durable writes.             *)
(*                                                                         *)
(* Every message travels in an RPC of its own with a timeout, so messages  *)
(* are lost and reordered; none is sent twice.  Nobody can tell when a     *)
(* message is lost, so the lost ones are those that never enter net.       *)
(***************************************************************************)
EXTENDS RawNode

CONSTANTS
  Value,              \* the commands clients propose, each once
  onDemand,           \* whether CreateSnapshot is called
  snapshotThreshold,  \* applied entries beyond the log start before a snapshot
  MaxTerm,            \* bound on terms
  MaxIndex,           \* bound on log indices
  MaxNet,             \* bound on the messages in flight
  MaxCrash            \* bound on the crashes

ASSUME ReplicaAssumption ==
  /\ IsFiniteSet(Server) /\ Server # {} /\ none \notin Server
  /\ preVote \in BOOLEAN /\ checkQuorum \in BOOLEAN /\ onDemand \in BOOLEAN
  /\ snapshotCatchupGap \in Nat /\ snapshotThreshold \in Nat \ {0}
  /\ MaxTerm \in Nat /\ MaxIndex \in Nat /\ MaxNet \in Nat /\ MaxCrash \in Nat

VARIABLES
  node,       \* per server, its RawNode between two loop iterations
  rep,        \* per server, the Replica's own volatile state
  disk,       \* per server, what survives a crash
  net,        \* messages in flight
  asked,      \* the commands proposed so far
  acked,      \* history: [value, entry], a Propose returned nil when entry applied
  granted,    \* history: [from, to, term] of every vote granted, self-votes too
  elected,    \* history: [id, term] of every leader there was
  crashes     \* how many crashes so far

vars == <<node, rep, disk, net, asked, acked, granted, elected, crashes>>

\* propc: proposals not yet read by the loop.  pendingProps: read, but with no
\* log index yet.  pending: log index -> the proposal whose channel is signalled
\* when that index is applied.
NewReplica ==
  [propc |-> <<>>, pendingProps |-> <<>>, pending |-> [i \in {} |-> 0], lastSnapIndex |-> 0]

Init ==
  /\ node = [i \in Server |-> NewRawNode(i, EmptyDisk)]
  /\ rep = [i \in Server |-> NewReplica]
  /\ disk = [i \in Server |-> EmptyDisk]
  /\ net = {}
  /\ asked = {} /\ acked = {} /\ granted = {} /\ elected = {}
  /\ crashes = 0

-----------------------------------------------------------------------------
(* handleReady: the writes of one iteration, in order. *)

installSnapshot(d, snap) ==
  clearStateMachine(d) \o applyEngineSnapshot(snap.Data)
    \o <<SaveApplied(snap.Metadata.Index)>>
    \o SaveSnapshot(snap) \o Compact(d, snap.Metadata.Index)

\* A bug of writesBeforeSend: a commit index that advances is not saved.
writesBeforeSendLazy(before, n, d) ==
  (IF <<n.term, n.votedFor>> # <<before.term, before.votedFor>>
   THEN <<SaveHardState(hardState(n))>> ELSE <<>>)
  \o (IF n.pendingSnapshot # NoSnapshot THEN installSnapshot(d, n.pendingSnapshot) ELSE <<>>)
  \o [k \in DOMAIN n.unstable |-> AppendEntry(n.unstable[k])]

\* Steps 1 to 3: what is durable before any message leaves.
writesBeforeSend(before, n, d) ==
  (IF hardState(n) # hardState(before) THEN <<SaveHardState(hardState(n))>> ELSE <<>>)
  \o (IF n.pendingSnapshot # NoSnapshot THEN installSnapshot(d, n.pendingSnapshot) ELSE <<>>)
  \o [k \in DOMAIN n.unstable |-> AppendEntry(n.unstable[k])]

\* How many writes precede the messages: messages leave once the early writes
\* are durable (a bug would be to send at once).
sendsAtOnce(early) == 0

sendsAfter(early) == Len(early)

\* Steps 5 and 5b: d is the disk at the call of Ready.
applyWrites(n, d) ==
  LET applying == nextEntries(n, d)
  IN  IF applying = <<>> THEN <<>>
      ELSE [k \in DOMAIN applying |-> ApplyEntry(applying[k])]
             \o <<SaveApplied(Last(applying).Index)>>

\* createSnapshotOnLoop fails when the term of the applied index is unknown.
canSnapshot(n, d) == term(n, d, n.applied) # Err

createSnapshotOnLoop(n, d) ==
  SaveSnapshot([Metadata |-> [Index |-> n.applied, Term |-> term(n, d, n.applied)],
                Data |-> serializeEngineState(d)])
    \o Compact(d, CompactableIndex(n, n.applied))

autoSnapshot(n, r, d) ==
  /\ n.applied > r.lastSnapIndex
  /\ n.applied + 1 >= FirstIndex(d) + snapshotThreshold
  /\ canSnapshot(n, d)

\* maybeSnapshotAndCompact, on the node after Advance.
snapshotWrites(n, r, d) ==
  LET snapIndex == IF autoSnapshot(n, r, d) THEN n.applied ELSE r.lastSnapIndex
      compactTo == CompactableIndex(n, snapIndex)
  IN  (IF autoSnapshot(n, r, d) THEN createSnapshotOnLoop(n, d) ELSE <<>>)
      \o (IF snapIndex > 0 /\ compactTo + 1 > FirstIndex(d)
          THEN Compact(d, compactTo) ELSE <<>>)

\* Proposals are matched in order to the persisted entries that carry data.
matchProposals(r, n) ==
  LET data == SelectSeq(n.unstable, LAMBDA e : e.Data # NoOp)
      m == AtMost(Len(data), Len(r.pendingProps))
      matched == {data[k].Index : k \in 1..m}
      propOf(i) == r.pendingProps[CHOOSE k \in 1..m : data[k].Index = i]
  IN  [r EXCEPT !.pending = [i \in matched |-> propOf(i)] @@ @,
                !.pendingProps = SubSeq(@, m + 1, Len(@))]

\* A bug of signalled: the first entry of a batch is not answered.
signalledLater(r, applying) ==
  {e \in ToSet(applying) : e.Index \in DOMAIN r.pending /\ e # Head(applying)}

\* The applied entries with a waiting proposal.
signalled(r, applying) ==
  {e \in ToSet(applying) : e.Index \in DOMAIN r.pending}

\* Everything handleReady does with the node n that event left, on disk d.
Cycle(before, n, r, d) ==
  LET early == writesBeforeSend(before, n, d)
      mid == early \o applyWrites(n, d)
      applying == nextEntries(n, d)
      r1 == matchProposals(r, n)
      told == signalled(r1, applying)
      d1 == DiskAfter(d, mid, Len(mid))
      n1 == Advance(n, d)
      r2 == [r1 EXCEPT
               !.pending = [i \in DOMAIN @ \ {e.Index : e \in told} |-> @[i]],
               !.lastSnapIndex = IF n.pendingSnapshot # NoSnapshot
                                 THEN n.pendingSnapshot.Metadata.Index ELSE @]
      late == snapshotWrites(n1, r2, d1)
  IN  [node   |-> n1,
       rep    |-> [r2 EXCEPT !.lastSnapIndex =
                     IF autoSnapshot(n1, r2, d1) THEN n1.applied ELSE @],
       writes |-> mid \o late,
       sendAt |-> sendsAfter(early),
       told   |-> {[value |-> r1.pending[e.Index], entry |-> e] : e \in told}]

\* Nothing to do: the loop goes back to its select.
Idle(n, r) ==
  [node |-> n, rep |-> r, writes |-> <<>>, sendAt |-> 0, told |-> {}]

handleReady(before, n, r, d) ==
  IF HasReady(before, n, d) THEN Cycle(before, n, r, d) ELSE Idle(n, r)

-----------------------------------------------------------------------------
\* The bounds, on the node n that an event produced.
WithinBounds(n) ==
  /\ n.term <= MaxTerm
  /\ \A m \in n.msgs : m.term <= MaxTerm
  /\ \A e \in ToSet(n.unstable) : e.Index <= MaxIndex

\* History of the votes on disk and of the leaders that became visible.
Note(i, n, visible) ==
  /\ granted' = granted \union
       {[from |-> i, to |-> c, term |-> disk'[i].hs.Term] :
          c \in {disk'[i].hs.VotedFor} \ {none}}
  /\ elected' = elected \union
       (IF visible /\ n.state = "Leader" THEN {[id |-> i, term |-> n.term]} ELSE {})

\* The transport takes messages: some are lost (an RPC fails, times out or
\* finds stepc full), the others are in flight.  rest: those already there.
Transmit(rest, msgs) ==
  \E arriving \in SUBSET msgs :
    /\ net' = rest \union arriving
    /\ Cardinality(net') <= MaxNet

\* The iteration c runs to its end on the disk that first left.
Complete(i, n, c, first, rest) ==
  /\ node' = [node EXCEPT ![i] = c.node]
  /\ rep' = [rep EXCEPT ![i] = c.rep]
  /\ disk' = [disk EXCEPT ![i] =
                DiskAfter(@, first \o c.writes, Len(first \o c.writes))]
  /\ Transmit(rest, n.msgs)
  /\ acked' = acked \union c.told
  /\ Note(i, n, TRUE)
  /\ UNCHANGED crashes

\* The process dies after k writes of the iteration and comes back.
Crash(i, n, c, first, rest) ==
  LET ws == first \o c.writes
  IN  /\ crashes < MaxCrash
      /\ crashes' = crashes + 1
      /\ \E k \in 0 .. Len(ws) :
           LET sent == k >= Len(first) + c.sendAt
           IN  /\ disk' = [disk EXCEPT ![i] = DiskAfter(@, ws, k)]
               /\ Transmit(rest, IF sent THEN n.msgs ELSE {})
               /\ acked' = acked \union
                    {t \in c.told : ApplyEntry(t.entry) \in ToSet(SubSeq(ws, 1, k))}
               /\ Note(i, n, sent)
      /\ node' = [node EXCEPT ![i] = NewRawNode(i, disk'[i])]
      /\ rep' = [rep EXCEPT ![i] = NewReplica]

\* One loop iteration of i: the event left node after and replica state r, having
\* made the writes first; handleReady follows.  rest: the messages still in
\* flight.  (The bound variables are the values of their singletons.)
Iteration(i, after, r, first, rest) ==
  \E n \in {after}, d \in {DiskAfter(disk[i], first, Len(first))} :
    /\ WithinBounds(n)
    /\ \E c \in {handleReady(node[i], n, r, d)} :
         \/ Complete(i, n, c, first, rest)
         \/ Crash(i, n, c, first, rest)

-----------------------------------------------------------------------------
(* The events of the loop. *)

\* Tick of a node that does not lead, the election timeout reached or not.
Tick(i) ==
  /\ node[i].state # "Leader"
  /\ \/ Iteration(i, node[i], rep[i], <<>>, net)
     \/ Iteration(i, hup(node[i], disk[i]), rep[i], <<>>, net)
  /\ UNCHANGED asked

LeaderTick(i) ==
  /\ node[i].state = "Leader"
  /\ \E check, beat \in BOOLEAN :
       /\ check \/ beat
       /\ Iteration(i, leaderTick(node[i], check, beat), rep[i], <<>>, net)
  /\ UNCHANGED asked

Deliver(m) ==
  /\ Iteration(m.to, Step(node[m.to], disk[m.to], m), rep[m.to], <<>>, net \ {m})
  /\ UNCHANGED asked

\* The loop reads a proposal from propc.
TakeProposal(i) ==
  /\ rep[i].propc # <<>>
  /\ LET v == Head(rep[i].propc)
         r == [rep[i] EXCEPT !.propc = Tail(@), !.pendingProps = Append(@, v)]
     IN  Iteration(i, stepProp(node[i], disk[i], v), r, <<>>, net)
  /\ UNCHANGED asked

\* CreateSnapshot, on the loop.
CreateSnapshot(i) ==
  LET n == node[i]
      r == [rep[i] EXCEPT !.lastSnapIndex = n.applied]
  IN  /\ onDemand
      /\ n.applied > 0 /\ canSnapshot(n, disk[i])
      /\ Iteration(i, n, r, createSnapshotOnLoop(n, disk[i]), net)
      /\ UNCHANGED asked

\* A client's Propose gets past the leadership test and into propc.
Propose(i, v) ==
  /\ v \notin asked
  /\ node[i].leadID = i
  /\ asked' = asked \union {v}
  /\ rep' = [rep EXCEPT ![i].propc = Append(@, v)]
  /\ UNCHANGED <<node, disk, net, acked, granted, elected, crashes>>

Next ==
  \/ \E i \in Server :
       \/ Tick(i)
       \/ LeaderTick(i)
       \/ TakeProposal(i)
       \/ CreateSnapshot(i)
       \/ \E v \in Value : Propose(i, v)
  \/ \E m \in net : Deliver(m)

Spec == Init /\ [][Next]_vars

\* The loop's select takes every channel that stays ready, and the ticker keeps
\* firing: a node that does not lead reaches its election timeout.
FairSpec ==
  /\ Spec
  /\ \A i \in Server :
       /\ WF_vars(Tick(i))
       /\ WF_vars(TakeProposal(i))

-----------------------------------------------------------------------------
Entry == [Term : 1..MaxTerm, Index : 1..MaxIndex, Data : Value \union {NoOp}]

\* Between two iterations the node is drained: what Step left was persisted,
\* sent and applied by handleReady.
TypeOK ==
  /\ \A i \in Server :
       LET n == node[i]
           d == disk[i]
       IN  /\ n.state \in {"Follower", "PreCandidate", "Candidate", "Leader"}
           /\ n.term \in 0..MaxTerm
           /\ n.votedFor \in Server \union {none} /\ n.leadID \in Server \union {none}
           /\ n.votes \subseteq Server /\ n.recentActive \subseteq Server
           /\ n.unstable = <<>> /\ n.msgs = {} /\ n.pendingSnapshot = NoSnapshot
           /\ n.applied \in 0..n.committed
           /\ DOMAIN d.log \subseteq 1..MaxIndex
           /\ d.sm \subseteq Entry /\ d.snapData \subseteq Entry
           /\ \A k \in DOMAIN d.log : d.log[k] \in Entry /\ d.log[k].Index = k
  /\ \A m \in net : m.from \in Server /\ m.to \in Server \ {m.from}
  /\ acked \subseteq [value : Value, entry : Entry]
  /\ crashes \in 0..MaxCrash

\* No two nodes lead in one term, over the whole history: the vote each node
\* persists before it answers (raft.go:31, 483-495) must be its only one.
ElectionSafety ==
  \A a, b \in elected : a.term = b.term => a.id = b.id

\* A term is only ever adopted after some node campaigned for it: a PreVote
\* probe and its grant move nobody's term (raft.go:447-449).
TermsAreCampaigned ==
  \A i \in Server : node[i].term > 0 =>
    \E g \in granted : g.from = g.to /\ g.term = node[i].term

\* A node that goes on leading neither overwrites nor loses an entry of its own
\* log, except those that its snapshot covers (replica.go:311-322).
LeaderAppendOnly ==
  [][\A i \in Server :
       /\ node[i].state = "Leader" /\ node'[i].state = "Leader"
       /\ node'[i].term = node[i].term
       => \A k \in DOMAIN disk[i].log :
            IF k \in DOMAIN disk'[i].log THEN disk'[i].log[k] = disk[i].log[k]
            ELSE k <= disk'[i].snapMeta.Index]_vars

\* "Every replica applies the same committed entry and reaches the same outcome"
\* (replica.go:62): a command in one state machine is in every other that has
\* applied as far.
StateMachineSafety ==
  \A i, j \in Server : \A e \in disk[i].sm :
    e.Index <= disk[j].applied => e \in disk[j].sm

Covered(d, k) == k <= d.snapMeta.Index \/ k \in DOMAIN d.log

\* An acknowledgement in flight is backed by the sender's disk (Ready's contract,
\* message.go: entries are persisted before messages are sent), also when the
\* sender crashed in between: by its log, by its snapshot, or by the commit index
\* it made durable.
AcksAreDurable ==
  \A m \in net : m.type = "AppResp" /\ ~m.reject =>
    \A k \in 1 .. m.index : Covered(disk[m.from], k) \/ k <= disk[m.from].hs.Commit

\* The commands that i knows to have their index: from its own log as far as it
\* is committed, and from clients that were told so.
Commands(i) ==
  {e \in {disk[i].log[k] : k \in DOMAIN disk[i].log} : e.Index <= node[i].committed}
    \union {a.entry : a \in acked}

\* Every command up to the index a replica counts as applied is in its state
\* machine, in particular after a crash inside installSnapshot: "A crash between
\* any two steps leaves the replica recoverable" (replica.go:337).  The code does
\* not do so: it wipes the state machine first, and a crash then leaves the old
\* applied index over an empty state machine.
AppliedIsReflected ==
  \A i \in Server : \A e \in Commands(i) :
    e.Data # NoOp /\ e.Index <= node[i].applied => e \in disk[i].sm

\* "applied can never exceed committed" (raft.go:89): whatever write a crash falls
\* after, the durable commit index has reached the durable applied index.
AppliedIsCommitted ==
  \A i \in Server : disk[i].applied <= disk[i].hs.Commit

\* What is durable never regresses: neither the term, nor the commit index, nor
\* the applied index, nor the snapshot, across crashes too.
DurableProgress ==
  [][\A i \in Server :
       /\ disk'[i].hs.Term >= disk[i].hs.Term
       /\ disk'[i].hs.Commit >= disk[i].hs.Commit
       /\ disk'[i].applied >= disk[i].applied
       /\ disk'[i].snapMeta.Index >= disk[i].snapMeta.Index]_vars

\* Propose returns in the end: on a single node that does not crash every
\* command taken into propc is applied and its client answered.
EveryProposalAnswered ==
  \A v \in Value : v \in asked ~> \E a \in acked : a.value = v
=============================================================================
