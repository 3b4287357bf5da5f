---------------------------- MODULE RaftStorage ----------------------------
(***************************************************************************)
(* The durable side of one replica: LSMLogStorage (internal/raft), the     *)
(* keys under \x00raft/, together with the state machine it shares the LSM *)
(* engine with.  A disk is a record; the readers below are the methods     *)
(* RawNode calls, and Perform is the effect of one durable write, so that  *)
(* a crash may fall between any two of them.                               *)
(*                                                                         *)
(* The engine's user data is abstracted to the set of the commands (log    *)
(* entries with data) whose application produced it.                       *)
(***************************************************************************)
EXTENDS Integers, Sequences, SequencesExt, FiniteSetsExt

CONSTANTS none      \* "no vote / no leader"

NoOp == "noop"      \* Data of the entry a new leader appends
Err == -1           \* the error result of Term

NoMeta == [Index |-> 0, Term |-> 0]
NoSnapshot == [Metadata |-> NoMeta, Data |-> {}]

EmptyDisk ==
  [hs       |-> [Term |-> 0, VotedFor |-> none, Commit |-> 0],
   log      |-> [i \in {} |-> 0],
   snapMeta |-> NoMeta,
   snapData |-> {},
   applied  |-> 0,
   sm       |-> {}]

-----------------------------------------------------------------------------
FirstIndex(d) == d.snapMeta.Index + 1

LastIndex(d) == Max({d.snapMeta.Index} \union DOMAIN d.log)

Term(d, index) ==
  IF d.snapMeta.Index > 0 /\ index = d.snapMeta.Index THEN d.snapMeta.Term
  ELSE IF index < d.snapMeta.Index \/ index \notin DOMAIN d.log THEN Err
  ELSE d.log[index].Term

\* Entries lo .. hi-1 are all present; Entries fails otherwise.
HaveEntries(d, lo, hi) == lo .. (hi - 1) \subseteq DOMAIN d.log

Entries(d, lo, hi) == [k \in 1 .. (hi - lo) |-> d.log[lo + k - 1]]

Snapshot(d) ==
  IF d.snapMeta.Index = 0 THEN NoSnapshot
  ELSE [Metadata |-> d.snapMeta, Data |-> d.snapData]

-----------------------------------------------------------------------------
\* The durable writes of a Ready cycle, each one Put or Delete of the engine.
SaveHardState(hs)   == [op |-> "hardstate", hs |-> hs]
AppendEntry(e)      == [op |-> "append", entry |-> e]
SaveApplied(index)  == [op |-> "applied", index |-> index]
SaveSnapData(data)  == [op |-> "snapdata", data |-> data]
SaveSnapMeta(meta)  == [op |-> "snapmeta", meta |-> meta]
DeleteEntry(index)  == [op |-> "delete", index |-> index]
ClearKey(e)         == [op |-> "clear", entry |-> e]
ApplyEntry(e)       == [op |-> "apply", entry |-> e]

SaveSnapshot(snap) == <<SaveSnapData(snap.Data), SaveSnapMeta(snap.Metadata)>>

\* Compact walks the log keys of disk d in ascending order.
Compact(d, index) ==
  LET old == SetToSortSeq({i \in DOMAIN d.log : i <= index}, <)
  IN  [k \in DOMAIN old |-> DeleteEntry(old[k])]

\* The engine's user data, key by key.
inKeyOrder(sm) == SetToSortSeq(sm, LAMBDA a, b : a.Index < b.Index)

serializeEngineState(d) == d.sm

clearStateMachine(d) ==
  LET old == inKeyOrder(d.sm)
  IN  [k \in DOMAIN old |-> ClearKey(old[k])]

applyEngineSnapshot(data) ==
  LET new == inKeyOrder(data)
  IN  [k \in DOMAIN new |-> ApplyEntry(new[k])]

\* applyEntry leaves the state machine alone when the entry has no data; applying
\* an entry again, as recovery does, changes nothing.
Perform(d, w) ==
  CASE w.op = "hardstate" -> [d EXCEPT !.hs = w.hs]
    [] w.op = "append"    -> [d EXCEPT !.log = (w.entry.Index :> w.entry) @@ @]
    [] w.op = "applied"   -> [d EXCEPT !.applied = w.index]
    [] w.op = "snapdata"  -> [d EXCEPT !.snapData = w.data]
    [] w.op = "snapmeta"  -> [d EXCEPT !.snapMeta = w.meta]
    [] w.op = "delete"    -> [d EXCEPT !.log = [i \in DOMAIN @ \ {w.index} |-> @[i]]]
    [] w.op = "clear"     -> [d EXCEPT !.sm = @ \ {w.entry}]
    [] w.op = "apply"     -> [d EXCEPT !.sm = @ \union
                                {e \in {w.entry} : e.Data # NoOp}]

\* The disk after the first k writes of ws.
DiskAfter(d, ws, k) == FoldLeft(Perform, d, SubSeq(ws, 1, k))
=============================================================================
