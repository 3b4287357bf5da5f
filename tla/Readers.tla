------------------------------ MODULE Readers ------------------------------
(***************************************************************************)
(* Iterators of LSMEngine over SSTables that flushes and compactions       *)
(* replace under them (internal/storage/lsm: NewIterator, reloadLevels,    *)
(* SSTableReader, MemTableSnapshot).  Every call holds the engine lock, so *)
(* a call is one step; an iterator lives on between calls, after the lock  *)
(* is released, and reads through file handles that its references keep    *)
(* open.  A compaction deletes the files it merged: their contents stay    *)
(* readable through the handles still open, and only through those.        *)
(*                                                                         *)
(* What is durable, and crashes, are the subject of module LSM; levels are *)
(* flattened here to their search order, newest SSTable first.             *)
(***************************************************************************)
EXTENDS Tables, FiniteSets, Functions

CONSTANTS
  Iter,         \* the iterators callers may hold at a time
  MaxOps,       \* bound on the writes
  MaxFail       \* bound on the SSTables that cannot be opened

ASSUME ReadersAssumption ==
  /\ Absent \notin Value /\ Tombstone \notin Value /\ Absent # Tombstone
  /\ IsFiniteSet(Iter) /\ MaxOps \in Nat /\ MaxFail \in Nat

VARIABLES
  mem,        \* the active memtable
  tables,     \* the SSTables the metadata names, newest first
  readers,    \* every SSTableReader there was: its table, refs, and open handle
  levels,     \* e.levels: the readers of the engine, newest first
  iters,      \* the iterators not yet closed
  running,    \* the engine is not closed
  stored,     \* history: the map the writes make up
  unsure,     \* history: the keys whose last write returned an error
  ops, fails

vars == <<mem, tables, readers, levels, iters, running, stored, unsure, ops, fails>>

Init ==
  /\ mem = Empty /\ tables = <<>>
  /\ readers = <<>> /\ levels = <<>>
  /\ iters = [i \in {} |-> 0]
  /\ running = TRUE /\ stored = Empty /\ unsure = {}
  /\ ops = 0 /\ fails = 0

-----------------------------------------------------------------------------
(* Readers and the engine's level set. *)

OpenSSTable(table) == [table |-> table, refs |-> 1, open |-> TRUE]

\* Ref, on each of the readers lv lists.
Ref(rs, lv) ==
  [r \in DOMAIN rs |-> IF r \in Range(lv) THEN [rs[r] EXCEPT !.refs = @ + 1] ELSE rs[r]]

\* Unref, on each: the last reference closes the handle.
Unref(rs, lv) ==
  [r \in DOMAIN rs |->
     IF r \in Range(lv)
     THEN [rs[r] EXCEPT !.refs = @ - 1, !.open = @ /\ rs[r].refs # 1]
     ELSE rs[r]]

\* A bug of reloadLevels: the old handles are closed whoever uses them.
reloadClosesAll(e, ts) ==
  LET closed == [r \in DOMAIN e.readers |->
                   [Unref(e.readers, e.levels)[r] EXCEPT !.open = @ /\ r \notin Range(e.levels)]]
  IN  [readers |-> closed \o [j \in DOMAIN ts |-> OpenSSTable(ts[j])],
       levels |-> [j \in DOMAIN ts |-> Len(closed) + j]]

\* reloadLevels gets as far as the SSTables ts.
reload(e, ts) ==
  LET closed == Unref(e.readers, e.levels)
  IN  [readers |-> closed \o [j \in DOMAIN ts |-> OpenSSTable(ts[j])],
       levels |-> [j \in DOMAIN ts |-> Len(closed) + j]]

closeAllReaders(e) == [readers |-> Unref(e.readers, e.levels), levels |-> <<>>]

\* A bug of reloadLevels: the readers opened before a failure are released twice.
reloadFailsTwice(e, ts, j) ==
  LET opened == reload(e, SubSeq(ts, 1, j))
  IN  [readers |-> Unref(Unref(opened.readers, opened.levels), opened.levels),
       levels |-> <<>>]

\* reloadLevels cannot open the SSTable after the first j: it releases those.
reloadFails(e, ts, j) == closeAllReaders(reload(e, SubSeq(ts, 1, j)))

\* What one merge sees of the readers lv, and of the memtable m before them.
lookup(rs, lv, k) ==
  LET hits == {j \in DOMAIN lv : rs[lv[j]].table[k] # Absent}
  IN  IF hits = {} THEN Absent ELSE rs[lv[Min(hits)]].table[k]

seen(m, rs, lv) == Visible(overlay(m, [k \in Key |-> lookup(rs, lv, k)]))

\* Get, for every key.
View == seen(mem, readers, levels)

-----------------------------------------------------------------------------
\* The whole of the tables ts as one SSTable of the bottom level.
compacted(ts) ==
  Visible([k \in Key |->
    LET hits == {j \in DOMAIN ts : ts[j][k] # Absent}
    IN  IF hits = {} THEN Absent ELSE ts[Min(hits)][k]])

\* compactLevelLocked reads the SSTables ts through readers of its own, which it
\* has closed when it returns, whether or not it could open the next one.
compactorReads(e, ts) ==
  LET opened == e.readers \o [j \in DOMAIN ts |-> OpenSSTable(ts[j])]
  IN  [e EXCEPT !.readers = Unref(opened, [j \in DOMAIN ts |-> Len(e.readers) + j])]

\* What flushActiveMemTableLocked makes of the memtable m: the SSTables ts, the
\* readers reloaded, then perhaps a compaction of all of them, the readers
\* reloaded again.  In each of the three an SSTable may fail to open, which ends
\* the call with an error; if it was the compaction, ts and their readers stay.
Flushed(m) ==
  LET e == [readers |-> readers, levels |-> levels]
      ts == <<m>> \o tables
      once == reload(e, ts)
      outcome(f, final, err) ==
        [tables |-> final, readers |-> f.readers, levels |-> f.levels, err |-> err]
      reloadedAgain(f, final) ==
        {outcome(reload(f, final), final, 0)}
          \union {outcome(reloadFails(f, final, j), final, 1) : j \in 0 .. Len(final) - 1}
  IN  UNION {{outcome(reloadFails(e, ts, j), ts, 1) : j \in 0 .. Len(ts) - 1},
             {outcome(compactorReads(once, SubSeq(ts, 1, j)), ts, 1) : j \in 0 .. Len(ts) - 1},
             reloadedAgain(once, ts),
             reloadedAgain(compactorReads(once, ts), <<compacted(ts)>>)}

Outcome(o) ==
  /\ fails + o.err <= MaxFail
  /\ fails' = fails + o.err
  /\ mem' = Empty
  /\ tables' = o.tables

\* Put or Delete (rec is a Tombstone), which may fill the memtable.
Write(key, rec) ==
  LET b == <<[key |-> key, value |-> rec]>>
  IN  /\ running /\ ops < MaxOps
      /\ ops' = ops + 1
      /\ stored' = Visible(Written(stored, b))
      /\ \/ /\ mem' = Written(mem, b)
            /\ unsure' = unsure \ {key}
            /\ UNCHANGED <<tables, readers, levels, fails>>
         \/ \E o \in Flushed(Written(mem, b)) :
              /\ Outcome(o)
              /\ readers' = o.readers /\ levels' = o.levels
              /\ unsure' = IF o.err = 0 THEN unsure \ {key} ELSE unsure \union {key}
      /\ UNCHANGED <<iters, running>>

\* MemTableSnapshot: a copy, which later writes to the memtable do not touch.
Snapshot(table) == table

NewIterator(i) ==
  /\ running /\ i \notin DOMAIN iters
  /\ readers' = Ref(readers, levels)
  /\ iters' = [j \in DOMAIN iters \union {i} |->
                 IF j = i THEN [mem |-> Snapshot(mem), pinned |-> levels, view |-> View]
                 ELSE iters[j]]
  /\ UNCHANGED <<mem, tables, levels, running, stored, unsure, ops, fails>>

\* A bug of CloseIterator: the references are not given back.
CloseIteratorLeaks(i) ==
  /\ iters' = Restrict(iters, DOMAIN iters \ {i})
  /\ UNCHANGED <<mem, tables, readers, levels, running, stored, unsure, ops, fails>>

CloseIterator(i) ==
  /\ readers' = Unref(readers, iters[i].pinned)
  /\ iters' = Restrict(iters, DOMAIN iters \ {i})
  /\ UNCHANGED <<mem, tables, levels, running, stored, unsure, ops, fails>>

\* Close of an engine whose memtable is empty: the readers are released.
Close ==
  /\ running /\ mem = Empty
  /\ running' = FALSE
  /\ LET e == closeAllReaders([readers |-> readers, levels |-> levels])
     IN  readers' = e.readers /\ levels' = e.levels
  /\ UNCHANGED <<mem, tables, iters, stored, unsure, ops, fails>>

\* Close that has to flush first, and stops there if the flush fails.
CloseFlushing ==
  /\ running /\ mem # Empty
  /\ \E o \in Flushed(mem) :
       LET e == IF o.err = 0 THEN closeAllReaders(o) ELSE o
       IN  /\ Outcome(o)
           /\ readers' = e.readers /\ levels' = e.levels
           /\ running' = (o.err # 0)
  /\ UNCHANGED <<iters, stored, unsure, ops>>

Next ==
  \/ \E k \in Key, rec \in Value \union {Tombstone} : Write(k, rec)
  \/ \E i \in Iter : NewIterator(i)
  \/ \E i \in DOMAIN iters : CloseIterator(i)
  \/ Close \/ CloseFlushing

Spec == Init /\ [][Next]_vars

-----------------------------------------------------------------------------
Table == [Key -> Value \union {Absent, Tombstone}]

\* The type invariant.  A reference count is never negative: Unref would panic.
TypeOK ==
  /\ mem \in Table /\ tables \in Seq(Table)
  /\ readers \in Seq([table : Table, refs : Nat, open : BOOLEAN])
  /\ levels \in Seq(DOMAIN readers)
  /\ DOMAIN iters \subseteq Iter
  /\ \A i \in DOMAIN iters : iters[i].pinned \in Seq(DOMAIN readers)
  /\ running \in BOOLEAN /\ fails \in 0..MaxFail
  /\ stored \in Table /\ unsure \subseteq Key

\* "An iterator observes a stable, point-in-time view of the engine as of the
\* moment it was created" (engine.go:36-40): whatever was written, flushed,
\* compacted or closed since, its handles are open and show what Get saw then.
IteratorIsStable ==
  \A i \in DOMAIN iters :
    /\ \A r \in Range(iters[i].pinned) : readers[r].open
    /\ seen(iters[i].mem, readers, iters[i].pinned) = iters[i].view

Holders(r) ==
  Cardinality({i \in DOMAIN iters : r \in Range(iters[i].pinned)})
    + (IF r \in Range(levels) THEN 1 ELSE 0)

\* References are counted right across failed reloads and a closed engine: a
\* handle is open exactly while the engine or an iterator still uses it, so none
\* is closed early and none leaks (sstable_reader.go:21-28).
HandlesAreHeld ==
  \A r \in DOMAIN readers :
    readers[r].refs = Holders(r) /\ (readers[r].open <=> Holders(r) > 0)

\* Get "returns ErrKeyNotFound when the key does not exist" (engine.go:15): on
\* an open engine it answers with the last write, if that returned no error.  The
\* code does not do so after a failed reload: refuted on the instance of MCReaders.
GetAnswersStored == running => \A k \in Key \ unsure : View[k] = stored[k]
=============================================================================
