------------------------------ MODULE TsCache ------------------------------
(***************************************************************************)
(* The timestamp cache (internal/kv/tscache): a bounded map from a key to  *)
(* the highest timestamp at which it was read, with a low-water mark that  *)
(* answers for every key without an entry.  Every method runs under the    *)
(* cache's mutex, so each is one action.  Timestamps are totally ordered;  *)
(* only their order matters here, so they are naturals and the zero        *)
(* timestamp is 0.                                                         *)
(***************************************************************************)
EXTENDS Naturals, FiniteSets

CONSTANTS
  Key,        \* the keys that may be read
  MaxTS,      \* timestamps are 0..MaxTS
  maxSize     \* capacity; 0 disables eviction

ASSUME TsCacheAssumption ==
  /\ IsFiniteSet(Key)
  /\ MaxTS \in Nat
  /\ maxSize \in Nat

VARIABLES
  reads,      \* the map: a function whose domain is the keys with an entry
  lowWater,   \* the floor for every other key
  lastRead    \* history: per key, the highest timestamp ever passed to Add

vars == <<reads, lowWater, lastRead>>

TS == 0..MaxTS

TypeOK ==
  /\ DOMAIN reads \subseteq Key
  /\ reads \in [DOMAIN reads -> TS]
  /\ lowWater \in TS
  /\ lastRead \in [Key -> TS]

Init ==
  /\ reads = [k \in {} |-> 0]
  /\ lowWater = 0
  /\ lastRead = [k \in Key |-> 0]

GetMax(key) == IF key \in DOMAIN reads THEN reads[key] ELSE lowWater

Insert(f, key, ts) ==
  [k \in DOMAIN f \union {key} |-> IF k = key THEN ts ELSE f[k]]

Without(f, key) == [k \in DOMAIN f \ {key} |-> f[k]]

\* An entry evictOldestLocked may pick: map iteration order is unspecified, so
\* any key that carries the lowest timestamp.
Oldest(key) ==
  key \in DOMAIN reads /\ \A k \in DOMAIN reads : reads[key] <= reads[k]

\* A bug of evictOldestLocked: the floor is put past the evicted entry, as if it
\* had to be above it.
EvictedFloorPast(ts) == IF lowWater < ts + 1 THEN ts + 1 ELSE lowWater

EvictedFloor(ts) == IF lowWater < ts THEN ts ELSE lowWater

\* A bug of Add: the capacity test is off by one.
FullOffByOne == maxSize > 0 /\ Cardinality(DOMAIN reads) > maxSize

Full == maxSize > 0 /\ Cardinality(DOMAIN reads) >= maxSize

Record(key, ts) ==
  lastRead' = [lastRead EXCEPT ![key] = IF @ < ts THEN ts ELSE @]

AddCovered(key, ts) ==
  /\ ts <= lowWater
  /\ UNCHANGED <<reads, lowWater>>

AddExisting(key, ts) ==
  /\ ts > lowWater
  /\ key \in DOMAIN reads
  /\ reads' = IF reads[key] < ts THEN Insert(reads, key, ts) ELSE reads
  /\ UNCHANGED lowWater

AddNew(key, ts) ==
  /\ ts > lowWater
  /\ key \notin DOMAIN reads
  /\ ~ Full
  /\ reads' = Insert(reads, key, ts)
  /\ UNCHANGED lowWater

AddEvicting(key, ts) ==
  /\ ts > lowWater
  /\ key \notin DOMAIN reads
  /\ Full
  /\ \E old \in DOMAIN reads :
       /\ Oldest(old)
       /\ reads' = Insert(Without(reads, old), key, ts)
       /\ lowWater' = EvictedFloor(reads[old])

Add(key, ts) ==
  /\ \/ AddCovered(key, ts)
     \/ AddExisting(key, ts)
     \/ AddNew(key, ts)
     \/ AddEvicting(key, ts)
  /\ Record(key, ts)

\* A bug of SetLowWater: the new mark is taken even when it is lower.
SetLowWaterRegresses(ts) ==
  /\ lowWater' = ts
  /\ reads' = [k \in {j \in DOMAIN reads : reads[j] > ts} |-> reads[k]]
  /\ UNCHANGED lastRead

SetLowWater(ts) ==
  /\ ts > lowWater
  /\ lowWater' = ts
  /\ reads' = [k \in {j \in DOMAIN reads : reads[j] > ts} |-> reads[k]]
  /\ UNCHANGED lastRead

Next ==
  \/ \E key \in Key, ts \in TS : Add(key, ts)
  \/ \E ts \in TS : SetLowWater(ts)

Spec == Init /\ [][Next]_vars

-----------------------------------------------------------------------------
(* What GetMax promises the writer that calls it. *)

\* Whatever was inserted, overwritten, pruned or evicted since, GetMax never
\* answers below a read that Add recorded: a key absent from the cache has "a
\* conservative floor that may over-push but never under-pushes"
\* (tscache.go:20-23).
NeverUnderPushes == \A k \in Key : GetMax(k) >= lastRead[k]

\* The cache still holds enough to cover every recorded read: the larger of a
\* key's entry and the floor is never below a read Add was given for it, and
\* with a positive capacity the map never outgrows it.
EntryOrFloorCovers ==
  /\ \A k \in Key : lastRead[k] <= lowWater \/ lastRead[k] <= GetMax(k)
  /\ maxSize > 0 => Cardinality(DOMAIN reads) <= maxSize

\* The floor a writer was pushed above never sinks again, for any key, not
\* even when the key's own entry is evicted or pruned by SetLowWater.
FloorNeverSinks == [][\A k \in Key : GetMax(k)' >= GetMax(k)]_vars

=============================================================================
