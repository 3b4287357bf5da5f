-------------------------------- MODULE LSM --------------------------------
(***************************************************************************)
(* LSMEngine (internal/storage/lsm): write-ahead log, memtable, flush to   *)
(* level 0, compaction, and the two-slot MetaStore, as the sequence of     *)
(* durable steps a write makes under the engine lock, with a crash after   *)
(* any of them.                                                            *)
(*                                                                         *)
(* Sizes in bytes are not counted: any write may be the one that fills the *)
(* memtable.  An SSTable is the table of its records; the bloom filter and *)
(* the offset index only find them.                                        *)
(***************************************************************************)
EXTENDS Tables, FiniteSets, SequencesExt

CONSTANTS
  None,
  L0Threshold,    \* SSTables of level 0 that trigger a compaction
  GrowthFactor,   \* the thresholds of adjacent levels are as GrowthFactor
  GrowthUnit,     \*   to GrowthUnit (the code's ratio is a float64)
  tornWrites,     \* whether a crash may leave a partial record in the WAL
  MaxLevel,       \* bound on the levels CompactLevel names
  MaxBatch,       \* bound on the records of a batch
  MaxOps,         \* bound on the calls
  MaxStray,       \* bound on the files a compaction fails to remove
  MaxCrash        \* bound on the crashes

ASSUME LSMAssumption ==
  /\ Absent \notin Value /\ Tombstone \notin Value /\ Absent # Tombstone
  /\ L0Threshold \in Nat \ {0} /\ GrowthFactor \in Nat \ {0} /\ GrowthUnit \in Nat \ {0}
  /\ tornWrites \in BOOLEAN
  /\ MaxLevel \in Nat /\ MaxBatch \in Nat \ {0} /\ MaxOps \in Nat
  /\ MaxStray \in Nat /\ MaxCrash \in Nat

Record == [key : Key, value : Value \union {Tombstone}]
Batch == UNION {[1..n -> Record] : n \in 1..MaxBatch}

VARIABLES
  pc,        \* the step the call in flight is at
  call,      \* its batch: None when there is none, <<>> for Close and CompactLevel
  mem,       \* the active memtable, a table
  wal,       \* the records in the WAL file, Torn for a partial one
  synced,    \* how many of them an fsync covered
  cut,       \* the records before a truncation that no fsync covered yet
  files,     \* SSTable id -> table, for the files in the directory
  slots,     \* the two metadata slots
  nextID,    \* the Compactor's next SSTable id
  levels,    \* the ids behind the open readers, per level, newest first
  job,       \* the levels a flush or a compaction saves, the files it replaces,
             \*   and the step that follows it
  ops, crashes

vars == <<pc, call, mem, wal, synced, cut, files, slots, nextID, levels, job, ops, crashes>>

Torn == [key |-> None, value |-> None]

\* A slot that was never written, or whose checksum does not match.
BadSlot == [Version |-> 0, Levels |-> <<>>]

NoJob == [Levels |-> <<>>, old |-> {}, then |-> "idle"]

Init ==
  /\ pc = "idle" /\ call = None
  /\ mem = Empty /\ wal = <<>> /\ synced = 0 /\ cut = <<>>
  /\ files = [i \in {} |-> Empty]
  /\ slots = [s \in {0, 1} |-> BadSlot]
  /\ nextID = 0 /\ levels = <<>> /\ job = NoJob
  /\ ops = 0 /\ crashes = 0

-----------------------------------------------------------------------------
(* MetaStore. *)

Load(s) == IF s[1].Version > s[0].Version THEN s[1] ELSE s[0]

\* The slot Save writes: the older one.
target(s) == IF s[1].Version < s[0].Version THEN 1 ELSE 0

nextVersion(s) == 1 + Load(s).Version

-----------------------------------------------------------------------------
(* Reading several SSTables, newest first: level 0 in order, then level 1. *)

merge(ls, fs) ==
  [k \in Key |->
     LET hits == SelectSeq(FlattenSeq(ls), LAMBDA id : fs[id][k] # Absent)
     IN  IF hits = <<>> THEN Absent ELSE fs[Head(hits)][k]]

\* Get, for every key: the memtable, then the open SSTables.
View == Visible(overlay(mem, merge(levels, files)))

\* ReadAll stops at the first record that does not decode.
ReadAll(w) ==
  LET torn == {i \in DOMAIN w : w[i] = Torn}
  IN  IF torn = {} THEN w ELSE SubSeq(w, 1, Min(torn) - 1)

replay(w) == Written(Empty, ReadAll(w))

-----------------------------------------------------------------------------
(* A write: WAL append, fsync, memtable; then perhaps a flush. *)

WriteAll(b) ==
  /\ pc = "idle" /\ ops < MaxOps
  /\ ops' = ops + 1
  /\ call' = b
  /\ wal' = wal \o b
  /\ pc' = "appended"
  /\ UNCHANGED <<mem, synced, cut, files, slots, nextID, levels, job, crashes>>

Put(key, value) == WriteAll(<<[key |-> key, value |-> value]>>)

Delete(key) == WriteAll(<<[key |-> key, value |-> Tombstone]>>)

Commit(b) == WriteAll(b)

\* The call returns; after Close only OpenLSM may follow.
Return == pc' = (IF call = <<>> THEN "closed" ELSE "idle") /\ call' = None

\* A bug of Sync: the fsync is missing.
SyncSkipped ==
  /\ pc = "appended"
  /\ pc' = "synced"
  /\ UNCHANGED <<call, mem, wal, synced, cut, files, slots, nextID, levels, job, ops, crashes>>

\* The fsync that ends Append and WriteAll.
Sync ==
  /\ pc = "appended"
  /\ synced' = Len(wal) /\ cut' = <<>>
  /\ pc' = "synced"
  /\ UNCHANGED <<call, mem, wal, files, slots, nextID, levels, job, ops, crashes>>

\* A bug of applyEntriesToMemTable: the records go in last to first.
applyEntriesBackwards ==
  /\ pc = "synced"
  /\ mem' = Written(mem, Reverse(call))
  /\ \/ Return
     \/ pc' = "flush" /\ UNCHANGED call
  /\ UNCHANGED <<wal, synced, cut, files, slots, nextID, levels, job, ops, crashes>>

\* The memtable takes the batch, and may have reached its threshold.
applyEntriesToMemTable ==
  /\ pc = "synced"
  /\ mem' = Written(mem, call)
  /\ \/ Return
     \/ pc' = "flush" /\ UNCHANGED call
  /\ UNCHANGED <<wal, synced, cut, files, slots, nextID, levels, job, ops, crashes>>

\* Close flushes what the memtable holds.
Close ==
  /\ pc = "idle"
  /\ IF mem = Empty THEN pc' = "closed" /\ UNCHANGED call
                    ELSE pc' = "flush" /\ call' = <<>>
  /\ UNCHANGED <<mem, wal, synced, cut, files, slots, nextID, levels, job, ops, crashes>>

-----------------------------------------------------------------------------
(* FlushMemTable: write the SSTable, then make it the newest of level 0. *)

prepend(ls, id) ==
  IF ls = <<>> THEN <<<<id>>>> ELSE [ls EXCEPT ![1] = <<id>> \o @]

\* allocID, and an SSTable written and fsynced under that id.
writeSSTable(table) ==
  /\ files' = [i \in DOMAIN files \union {nextID} |-> IF i = nextID THEN table ELSE files[i]]
  /\ nextID' = nextID + 1

WriteFlushed ==
  /\ pc = "flush"
  /\ writeSSTable(mem)
  /\ job' = [Levels |-> prepend(Load(slots).Levels, nextID), old |-> {}, then |-> "truncate"]
  /\ pc' = "save"
  /\ UNCHANGED <<call, mem, wal, synced, cut, slots, levels, ops, crashes>>

\* A bug of OpenSlot: the replaced files go before the new levels are saved.
OpenSlotRemoves ==
  /\ pc = "save"
  /\ slots' = [slots EXCEPT ![target(slots)] = BadSlot]
  /\ files' = Restrict(files, DOMAIN files \ job.old)
  /\ pc' = "saving"
  /\ UNCHANGED <<call, mem, wal, synced, cut, nextID, levels, job, ops, crashes>>

\* writeSlot truncates the slot file before it writes it.
OpenSlot ==
  /\ pc = "save"
  /\ slots' = [slots EXCEPT ![target(slots)] = BadSlot]
  /\ pc' = "saving"
  /\ UNCHANGED <<call, mem, wal, synced, cut, files, nextID, levels, job, ops, crashes>>

\* The slot is written and fsynced.  The other one is the newer, so target and
\* nextVersion still are what Save computed before it opened the slot.
WriteSlot ==
  /\ pc = "saving"
  /\ slots' = [slots EXCEPT ![target(slots)] =
                 [Version |-> nextVersion(slots), Levels |-> job.Levels]]
  /\ pc' = IF job.old = {} THEN job.then ELSE "remove"
  /\ UNCHANGED <<call, mem, wal, synced, cut, files, nextID, levels, job, ops, crashes>>

\* A new memtable; Truncate, which nothing fsyncs; reloadLevels.
TruncateWAL ==
  /\ pc = "truncate"
  /\ mem' = Empty
  /\ wal' = <<>> /\ synced' = 0 /\ cut' = wal
  /\ levels' = Load(slots).Levels
  /\ job' = NoJob
  /\ pc' = "compact"
  /\ UNCHANGED <<call, files, slots, nextID, ops, crashes>>

-----------------------------------------------------------------------------
(* MaybeTriggerCompaction.  Level l of the code is position l + 1 here. *)

\* The product is cut to an integer at every level.
levelThreshold(l) ==
  LET threshold[i \in 1..l] ==
        IF i = 1 THEN L0Threshold ELSE (threshold[i - 1] * GrowthFactor) \div GrowthUnit
  IN  threshold[l]

overThreshold(ls) == {l \in DOMAIN ls : Len(ls[l]) >= levelThreshold(l)}

isBottomLevel(ls, l) == \A i \in DOMAIN ls : i > l => ls[i] = <<>>

trimTrailingEmptyLevels(ls) ==
  SubSeq(ls, 1, Max({1} \union {l \in DOMAIN ls : ls[l] # <<>>}))

\* The SSTable a compaction into level to writes.
compacted(ls, from, to) ==
  LET merged == merge(<<ls[from], ls[to]>>, files)
  IN  IF isBottomLevel(ls, to) THEN Visible(merged) ELSE merged

\* The levels slice, grown to reach level to.
grown(ls, to) == [l \in 1..Max({to, Len(ls)}) |-> IF l \in DOMAIN ls THEN ls[l] ELSE <<>>]

\* compactLevelLocked on a level that has files, up to the new SSTable.
compactLevelLocked(from, to, then) ==
  LET ls == grown(Load(slots).Levels, to)
  IN  /\ ls[from] # <<>>
      /\ writeSSTable(compacted(ls, from, to))
      /\ job' = [Levels |-> trimTrailingEmptyLevels(
                              [ls EXCEPT ![from] = <<>>, ![to] = <<nextID>>]),
                 old |-> Range(ls[from]) \union Range(ls[to]),
                 then |-> then]
      /\ pc' = "save"
      /\ UNCHANGED <<mem, wal, synced, cut, slots, levels, crashes>>

\* One turn of MaybeTriggerCompaction's loop.
WriteCompacted ==
  /\ pc = "compact"
  /\ LET over == overThreshold(Load(slots).Levels)
     IN  over # {} /\ compactLevelLocked(Min(over), Min(over) + 1, "compact")
  /\ UNCHANGED <<call, ops>>

\* The Compactor alone on the directory of a closed engine, as its callers use
\* it: towards a deeper level, the levels passed over being empty.
CompactLevel(from, to) ==
  /\ pc = "closed" /\ ops < MaxOps
  /\ ops' = ops + 1
  /\ LET saved == Load(slots).Levels
     IN  /\ from \in DOMAIN saved
         /\ \A l \in DOMAIN saved : from < l /\ l < to => saved[l] = <<>>
  /\ compactLevelLocked(from, to, "closed")
  /\ call' = <<>>

\* The replaced files are removed; an error of os.Remove is ignored.
RemoveOld ==
  /\ pc = "remove"
  /\ \E gone \in SUBSET job.old :
       /\ Cardinality(job.old \ gone) <= MaxStray
       /\ files' = Restrict(files, DOMAIN files \ gone)
  /\ job' = NoJob
  /\ pc' = job.then
  /\ call' = IF job.then = "closed" THEN None ELSE call
  /\ UNCHANGED <<mem, wal, synced, cut, slots, nextID, levels, ops, crashes>>

\* No level is over its threshold: the readers are reopened, the call returns.
Compacted ==
  /\ pc = "compact"
  /\ overThreshold(Load(slots).Levels) = {}
  /\ levels' = Load(slots).Levels
  /\ Return
  /\ UNCHANGED <<mem, wal, synced, cut, files, slots, nextID, job, ops, crashes>>

-----------------------------------------------------------------------------
(* A crash and the OpenLSM that follows. *)

\* What a crash leaves of the WAL: at least what was fsynced, some of what was
\* appended since, perhaps the front part of the next record; or, before the
\* fsync that follows a truncation, what the truncation removed.
walAfterCrash ==
  {SubSeq(wal, 1, n) : n \in synced..Len(wal)}
  \union {Append(SubSeq(wal, 1, n), Torn) : n \in IF tornWrites THEN synced..Len(wal) - 1 ELSE {}}
  \union (IF synced = 0 /\ cut # <<>> THEN {cut} ELSE {})

\* An SSTable is being written, by a flush, by MaybeTriggerCompaction or by
\* CompactLevel.
writing ==
  \/ pc = "flush"
  \/ pc = "compact" /\ overThreshold(Load(slots).Levels) # {}
  \/ pc = "closed" /\ \E l \in DOMAIN Load(slots).Levels : Load(slots).Levels[l] # <<>>

\* What it leaves of the directory: perhaps the SSTable being written, in part.
filesAfterCrash ==
  {files} \union
  (IF writing
   THEN {[i \in DOMAIN files \union {nextID} |-> IF i = nextID THEN Empty ELSE files[i]]}
   ELSE {})

\* A bug of scanDirForNextID: the highest id, not the one after it.
scanDirForLastID(fs) == IF DOMAIN fs = {} THEN 0 ELSE Max(DOMAIN fs)

scanDirForNextID(fs) == IF DOMAIN fs = {} THEN 0 ELSE Max(DOMAIN fs) + 1

OpenLSM(w, fs) ==
  /\ nextID' = scanDirForNextID(fs)
  /\ levels' = Load(slots).Levels
  /\ mem' = replay(w)
  /\ wal' = w
  /\ files' = fs
  /\ job' = NoJob
  /\ pc' = "idle" /\ call' = None

\* OpenWAL fsyncs the directory, not the file: a truncation that no fsync
\* covered is still not covered.
Reopen ==
  /\ pc = "closed"
  /\ OpenLSM(wal, files)
  /\ UNCHANGED <<synced, cut, slots, ops, crashes>>

\* The disk may lose what was not fsynced; what it still holds is durable.
Crash ==
  /\ crashes < MaxCrash
  /\ crashes' = crashes + 1
  /\ \E w \in walAfterCrash, fs \in filesAfterCrash :
       OpenLSM(w, fs) /\ synced' = Len(w) /\ cut' = <<>>
  /\ UNCHANGED <<slots, ops>>

Next ==
  \/ \E k \in Key, v \in Value : Put(k, v)
  \/ \E k \in Key : Delete(k)
  \/ \E b \in Batch : Commit(b)
  \/ Sync \/ applyEntriesToMemTable
  \/ Close \/ Reopen
  \/ \E from \in 1..MaxLevel, to \in 2..MaxLevel : from < to /\ CompactLevel(from, to)
  \/ WriteFlushed \/ OpenSlot \/ WriteSlot \/ TruncateWAL
  \/ WriteCompacted \/ RemoveOld \/ Compacted
  \/ Crash

Spec == Init /\ [][Next]_vars

-----------------------------------------------------------------------------
(* Properties. *)

Table == [Key -> Value \union {Absent, Tombstone}]

Meta == [Version : Nat, Levels : Seq(Seq(Nat))]

\* The type invariant of the engine: a call is in flight exactly when pc is away
\* from idle and closed, fsync never covers more than the WAL holds, and allocID
\* never hands out the id of a file in the directory.
TypeOK ==
  /\ pc \in {"idle", "closed", "appended", "synced", "flush", "save", "saving",
             "truncate", "compact", "remove"}
  /\ call \in Batch \union {None, <<>>}
  /\ call = None <=> pc \in {"idle", "closed"}
  /\ mem \in Table
  /\ wal \in Seq(Record \union {Torn}) /\ cut \in Seq(Record \union {Torn})
  /\ synced \in 0..Len(wal)
  /\ nextID \in Nat
  /\ DOMAIN files \subseteq 0..nextID - 1
  /\ files \in [DOMAIN files -> Table]
  /\ slots \in [{0, 1} -> Meta]
  /\ levels \in Seq(Seq(Nat))
  /\ job \in [Levels : Seq(Seq(Nat)), old : SUBSET Nat,
              then : {"idle", "truncate", "compact", "closed"}]

\* The ids a list of levels names.
named(ls) == UNION {Range(ls[l]) : l \in DOMAIN ls}

\* After a crash at any moment every SSTable the metadata names is in the
\* directory, so that reloadLevels in OpenLSM cannot fail: a file is written
\* before the slot that names it, and removed after the slot that drops it.
MetaRefsExist == named(Load(slots).Levels) \subseteq DOMAIN files

\* What OpenLSM would recover if the process stopped now and the file system
\* kept no more than what was fsynced.
Recoverable ==
  Visible(Written(merge(Load(slots).Levels, files), ReadAll(SubSeq(wal, 1, synced))))

\* "Commit atomically applies all operations in the batch" (engine.go:85): a crash
\* in the middle leaves all of the batch or none of it.  The code does not do so:
\* refuted with batches of two records and one call.
CommitIsAtomic ==
  pc = "appended" =>
    \A w \in walAfterCrash :
      Visible(overlay(replay(w), merge(Load(slots).Levels, files)))
        \in {Recoverable, Visible(Written(Recoverable, call))}

\* Between calls a reader sees exactly what a crash would leave: Get, through
\* the memtable and the open readers, never shows a write that could be lost,
\* never a deleted key that would come back, and never misses a durable write.
ReadsAreDurable == pc = "idle" => View = Recoverable

Durable == INSTANCE KVStore WITH
  store <- Recoverable,
  call <- IF call = <<>> THEN None ELSE call,
  done <- call \notin {None, <<>>} /\ pc # "appended"

\* The engine, with its log, flushes, compactions and crashes, implements the
\* map of storage.Engine that survives crashes: a call changes it once, by its
\* whole batch, and has done so before it returns; a flush, a compaction, a
\* close or a restart never changes it; a crash loses nothing that returned and
\* keeps a prefix of the batch in flight.
ImplementsKVStore == Durable!Spec
=============================================================================
