--------------------------- MODULE TsCacheProofs ---------------------------
(***************************************************************************)
(* Theorems about the timestamp cache, for every finite set of keys, every *)
(* capacity and every range of timestamps.                                 *)
(***************************************************************************)
EXTENDS TsCache, FiniteSetTheorems, TLAPS

\* The map and the floor keep their types, whatever is added or pruned.
THEOREM TypeCorrect == Spec => []TypeOK
<1>1. Init => TypeOK
  BY TsCacheAssumption DEF Init, TypeOK, TS
<1>2. TypeOK /\ [Next]_vars => TypeOK'
  <2> SUFFICES ASSUME TypeOK, [Next]_vars PROVE TypeOK'
    OBVIOUS
  <2>1. ASSUME NEW key \in Key, NEW ts \in TS, Add(key, ts) PROVE TypeOK'
    <3>1. lastRead' \in [Key -> TS]
      BY <2>1 DEF Add, Record, TypeOK
    <3>2. /\ DOMAIN reads' \subseteq Key
          /\ reads' \in [DOMAIN reads' -> TS]
          /\ lowWater' \in TS
      <4>1. CASE AddCovered(key, ts)
        BY <4>1 DEF AddCovered, TypeOK
      <4>2. CASE AddExisting(key, ts)
        BY <4>2 DEF AddExisting, TypeOK, Insert
      <4>3. CASE AddNew(key, ts)
        BY <4>3 DEF AddNew, TypeOK, Insert
      <4>4. CASE AddEvicting(key, ts)
        <5>1. PICK old \in DOMAIN reads :
                /\ reads' = Insert(Without(reads, old), key, ts)
                /\ lowWater' = EvictedFloor(reads[old])
          BY <4>4 DEF AddEvicting
        <5>2. lowWater' \in TS
          BY <5>1 DEF EvictedFloor, TypeOK
        <5>3. reads' = [k \in (DOMAIN reads \ {old}) \union {key} |->
                          IF k = key THEN ts ELSE reads[k]]
          BY <5>1 DEF Insert, Without
        <5> QED BY <5>2, <5>3 DEF TypeOK
      <4> QED BY <2>1, <4>1, <4>2, <4>3, <4>4 DEF Add
    <3> QED BY <3>1, <3>2 DEF TypeOK
  <2>2. ASSUME NEW ts \in TS, SetLowWater(ts) PROVE TypeOK'
    BY <2>2 DEF SetLowWater, TypeOK
  <2>3. CASE UNCHANGED vars
    BY <2>3 DEF vars, TypeOK
  <2> QED BY <2>1, <2>2, <2>3 DEF Next
<1> QED BY <1>1, <1>2, PTL DEF Spec

\* The map's domain is finite and, with a positive capacity, within it.
SizeOK ==
  /\ IsFiniteSet(DOMAIN reads)
  /\ maxSize > 0 => Cardinality(DOMAIN reads) <= maxSize

LEMMA SizeInit == Init => SizeOK
BY FS_EmptySet, TsCacheAssumption DEF Init, SizeOK

LEMMA SizeStep == TypeOK /\ SizeOK /\ [Next]_vars => SizeOK'
<1> SUFFICES ASSUME TypeOK, SizeOK, [Next]_vars PROVE SizeOK'
  OBVIOUS
<1> DEFINE D == DOMAIN reads
<1>0. IsFiniteSet(D) /\ Cardinality(D) \in Nat /\ maxSize \in Nat
  BY FS_CardinalityType, TsCacheAssumption DEF SizeOK
<1>1. ASSUME NEW key \in Key, NEW ts \in TS, Add(key, ts) PROVE SizeOK'
  <2>1. CASE AddCovered(key, ts)
    BY <2>1 DEF AddCovered, SizeOK
  <2>2. CASE AddExisting(key, ts)
    <3>1. DOMAIN reads' = DOMAIN reads
      BY <2>2 DEF AddExisting, Insert
    <3> QED BY <3>1 DEF SizeOK
  <2>3. CASE AddNew(key, ts)
    <3>1. DOMAIN reads' = D \union {key} /\ key \notin D
      BY <2>3 DEF AddNew, Insert
    <3>2. IsFiniteSet(D \union {key}) /\ Cardinality(D \union {key}) = Cardinality(D) + 1
      BY <1>0, <3>1, FS_AddElement
    <3>3. maxSize > 0 => Cardinality(D) < maxSize
      BY <1>0, <2>3 DEF AddNew, Full
    <3> HIDE DEF D
    <3> QED BY <1>0, <3>1, <3>2, <3>3 DEF SizeOK
  <2>4. CASE AddEvicting(key, ts)
    <3>1. PICK old \in D : reads' = Insert(Without(reads, old), key, ts)
      BY <2>4 DEF AddEvicting
    <3>2. DOMAIN reads' = (D \ {old}) \union {key} /\ key \notin D
      BY <2>4, <3>1 DEF AddEvicting, Insert, Without
    <3>3. IsFiniteSet(D \ {old}) /\ Cardinality(D \ {old}) = Cardinality(D) - 1
      BY <1>0, FS_RemoveElement
    <3>4. /\ IsFiniteSet((D \ {old}) \union {key})
          /\ Cardinality((D \ {old}) \union {key}) = Cardinality(D \ {old}) + 1
      BY <3>2, <3>3, FS_AddElement
    <3>5. maxSize > 0 => Cardinality(D) <= maxSize
      BY DEF SizeOK
    <3> HIDE DEF D
    <3> QED BY <1>0, <3>2, <3>3, <3>4, <3>5 DEF SizeOK
  <2> QED BY <1>1, <2>1, <2>2, <2>3, <2>4 DEF Add
<1>2. ASSUME NEW ts \in TS, SetLowWater(ts) PROVE SizeOK'
  <2>1. DOMAIN reads' \subseteq D
    BY <1>2 DEF SetLowWater
  <2>2. IsFiniteSet(DOMAIN reads') /\ Cardinality(DOMAIN reads') <= Cardinality(D)
    BY <1>0, <2>1, FS_Subset
  <2>3. Cardinality(DOMAIN reads') \in Nat
    BY <2>2, FS_CardinalityType
  <2> HIDE DEF D
  <2>4. maxSize > 0 => Cardinality(D) <= maxSize
    BY DEF SizeOK, D
  <2> QED BY <1>0, <2>2, <2>3, <2>4 DEF SizeOK
<1>3. CASE UNCHANGED vars
  BY <1>3 DEF vars, SizeOK
<1> QED BY <1>1, <1>2, <1>3 DEF Next

\* The floor that answers for a key never sinks in a step.
LEMMA FloorStep ==
  ASSUME TypeOK, [Next]_vars
  PROVE  /\ lowWater' >= lowWater
         /\ \A k \in Key : GetMax(k)' >= GetMax(k)
<1>1. ASSUME NEW key \in Key, NEW ts \in TS, Add(key, ts)
      PROVE  /\ lowWater' >= lowWater
             /\ \A k \in Key : GetMax(k)' >= GetMax(k)
  <2>1. CASE AddCovered(key, ts)
    BY <2>1 DEF AddCovered, GetMax, TypeOK, TS
  <2>2. CASE AddExisting(key, ts)
    BY <2>2 DEF AddExisting, Insert, GetMax, TypeOK, TS
  <2>3. CASE AddNew(key, ts)
    BY <2>3 DEF AddNew, Insert, GetMax, TypeOK, TS
  <2>4. CASE AddEvicting(key, ts)
    <3>1. PICK old \in DOMAIN reads :
            /\ Oldest(old)
            /\ reads' = Insert(Without(reads, old), key, ts)
            /\ lowWater' = EvictedFloor(reads[old])
      BY <2>4 DEF AddEvicting
    <3>2. /\ reads' = [k \in (DOMAIN reads \ {old}) \union {key} |->
                        IF k = key THEN ts ELSE reads[k]]
          /\ key \notin DOMAIN reads
          /\ ts > lowWater
      BY <2>4, <3>1 DEF AddEvicting, Insert, Without
    <3>3. lowWater' >= lowWater /\ lowWater' >= reads[old] /\ lowWater' \in TS
      BY <3>1 DEF EvictedFloor, TypeOK, TS
    <3> QED BY <3>2, <3>3 DEF GetMax, TypeOK, TS
  <2> QED BY <1>1, <2>1, <2>2, <2>3, <2>4 DEF Add
<1>2. ASSUME NEW ts \in TS, SetLowWater(ts)
      PROVE  /\ lowWater' >= lowWater
             /\ \A k \in Key : GetMax(k)' >= GetMax(k)
  BY <1>2 DEF SetLowWater, GetMax, TypeOK, TS
<1>3. CASE UNCHANGED vars
  BY <1>3 DEF vars, GetMax, TypeOK, TS
<1> QED BY <1>1, <1>2, <1>3 DEF Next

\* The floor a writer was pushed above never sinks, for any capacity.
THEOREM FloorMonotone == Spec => FloorNeverSinks
<1>1. TypeOK /\ [Next]_vars => [\A k \in Key : GetMax(k)' >= GetMax(k)]_vars
  BY FloorStep
<1> QED BY <1>1, TypeCorrect, PTL DEF Spec, FloorNeverSinks

\* Every recorded read is covered by its key's entry or by the floor, and the
\* map stays within its capacity.
THEOREM Covered == Spec => []EntryOrFloorCovers
<1>1. Init => EntryOrFloorCovers /\ SizeOK
  BY SizeInit DEF Init, EntryOrFloorCovers, SizeOK, TS
<1>2. TypeOK /\ TypeOK' /\ SizeOK /\ EntryOrFloorCovers /\ [Next]_vars
        => (EntryOrFloorCovers /\ SizeOK)'
  <2> SUFFICES ASSUME TypeOK, TypeOK', SizeOK, EntryOrFloorCovers, [Next]_vars
               PROVE  (EntryOrFloorCovers /\ SizeOK)'
    OBVIOUS
  <2>1. SizeOK'
    BY SizeStep
  <2>2. /\ lowWater' >= lowWater
        /\ \A k \in Key : GetMax(k)' >= GetMax(k)
    BY FloorStep
  <2>3. \A k \in Key : GetMax(k) \in Nat /\ GetMax(k)' \in Nat
    BY DEF GetMax, TypeOK, TS
  <2>4. ASSUME NEW key \in Key, NEW ts \in TS, Add(key, ts)
        PROVE  ts <= lowWater' \/ ts <= GetMax(key)'
    <3>1. CASE AddCovered(key, ts)
      BY <3>1, <2>2 DEF AddCovered, TypeOK, TS
    <3>2. CASE AddExisting(key, ts)
      BY <3>2 DEF AddExisting, Insert, GetMax, TypeOK, TS
    <3>3. CASE AddNew(key, ts)
      BY <3>3 DEF AddNew, Insert, GetMax, TypeOK, TS
    <3>4. CASE AddEvicting(key, ts)
      <4>1. key \in DOMAIN reads' /\ reads'[key] = ts
        BY <3>4 DEF AddEvicting, Insert, Without
      <4> QED BY <4>1 DEF GetMax, TS
    <3> QED BY <2>4, <3>1, <3>2, <3>3, <3>4 DEF Add
  <2>5. ASSUME NEW k \in Key
        PROVE  lastRead'[k] <= lowWater' \/ lastRead'[k] <= GetMax(k)'
    <3>1. lastRead[k] <= lowWater' \/ lastRead[k] <= GetMax(k)'
      <4>1. /\ lastRead[k] \in Nat /\ lowWater \in Nat /\ lowWater' \in Nat
            /\ lastRead[k] <= lowWater \/ lastRead[k] <= GetMax(k)
        BY DEF EntryOrFloorCovers, TypeOK, TS
      <4> QED BY <4>1, <2>2, <2>3
    <3>2. ASSUME NEW key \in Key, NEW ts \in TS, Add(key, ts)
          PROVE  lastRead'[k] <= lowWater' \/ lastRead'[k] <= GetMax(k)'
      <4>1. lastRead'[k] = lastRead[k] \/ (k = key /\ lastRead'[k] = ts)
        BY <3>2 DEF Add, Record, TypeOK
      <4> QED BY <4>1, <3>1, <3>2, <2>4
    <3>3. CASE lastRead' = lastRead
      BY <3>3, <3>1
    <3> QED BY <3>2, <3>3 DEF Next, SetLowWater, vars
  <2> QED BY <2>1, <2>5 DEF EntryOrFloorCovers, SizeOK, GetMax
<1> QED BY <1>1, <1>2, TypeCorrect, PTL DEF Spec

\* Without a capacity bound the cache keeps its promise: GetMax covers every
\* read that was recorded.
THEOREM UnboundedNeverUnderPushes ==
  ASSUME maxSize = 0
  PROVE  Spec => []NeverUnderPushes
<1> DEFINE Above == \A k \in DOMAIN reads : reads[k] >= lowWater
<1>1. Init => Above
  BY DEF Init
<1>2. TypeOK /\ Above /\ [Next]_vars => Above'
  <2> SUFFICES ASSUME TypeOK, Above, [Next]_vars PROVE Above'
    OBVIOUS
  <2>1. ASSUME NEW key \in Key, NEW ts \in TS, Add(key, ts) PROVE Above'
    <3>1. CASE AddCovered(key, ts)
      BY <3>1 DEF AddCovered
    <3>2. CASE AddExisting(key, ts)
      BY <3>2 DEF AddExisting, Insert, TypeOK, TS
    <3>3. CASE AddNew(key, ts)
      BY <3>3 DEF AddNew, Insert, TypeOK, TS
    <3>4. ~ AddEvicting(key, ts)
      BY DEF AddEvicting, Full
    <3> QED BY <2>1, <3>1, <3>2, <3>3, <3>4 DEF Add
  <2>2. ASSUME NEW ts \in TS, SetLowWater(ts) PROVE Above'
    BY <2>2 DEF SetLowWater, TypeOK, TS
  <2>3. CASE UNCHANGED vars
    BY <2>3 DEF vars
  <2> QED BY <2>1, <2>2, <2>3 DEF Next
<1>3. TypeOK /\ Above /\ EntryOrFloorCovers => NeverUnderPushes
  BY DEF EntryOrFloorCovers, NeverUnderPushes, GetMax, TypeOK, TS
<1> QED BY <1>1, <1>2, <1>3, TypeCorrect, Covered, PTL DEF Spec

=============================================================================
