----------------------------- MODULE HLCProofs -----------------------------
(***************************************************************************)
(* Proofs about hybrid logical clocks, for every number of nodes and every *)
(* width of the logical counter.                                           *)
(***************************************************************************)
EXTENDS HLC, TLAPS

\* Now and Update return timestamps: the logical part stays an int32 and the
\* wall time never turns negative.
LEMMA OpsTyped ==
  ASSUME NEW s \in Timestamp, NEW remote \in Timestamp, NEW physical \in Nat
  PROVE  NowOf(s, physical) \in Timestamp /\ UpdateOf(s, remote, physical) \in Timestamp
<1> USE HLCAssumption DEF Timestamp, Logical
<1>1. NowOf(s, physical) \in Timestamp
  BY DEF NowOf, Increment
<1>2. Candidate(s, remote, physical) \in Timestamp
  BY DEF Candidate, Increment, Larger
<1>3. Next(s) \in Timestamp
  BY DEF Next
<1> QED
  BY <1>1, <1>2, <1>3 DEF UpdateOf

\* Now moves the clock forward unless its counter is at the int32 limit.
LEMMA NowAdvances ==
  ASSUME NEW s \in Timestamp, NEW physical \in Nat, s.Logical # MaxLogical
  PROVE  Less(s, NowOf(s, physical))
BY HLCAssumption DEF Timestamp, Logical, Less, NowOf, Increment

\* Update moves the clock forward always: where the switch wraps around, the
\* safety net carries into the wall time.
LEMMA UpdateAdvances ==
  ASSUME NEW s \in Timestamp, NEW remote \in Timestamp, NEW physical \in Nat
  PROVE  Less(s, UpdateOf(s, remote, physical))
<1>1. Less(s, Next(s))
  BY HLCAssumption DEF Timestamp, Logical, Less, Next
<1> QED
  BY <1>1 DEF UpdateOf

\* Update moves the clock past the remote timestamp, unless the remote's
\* counter is at the int32 limit.
LEMMA UpdatePassesRemote ==
  ASSUME NEW s \in Timestamp, NEW remote \in Timestamp, NEW physical \in Nat,
         remote.Logical # MaxLogical
  PROVE  Less(remote, UpdateOf(s, remote, physical))
<1> USE HLCAssumption DEF Timestamp, Logical, Less
<1> DEFINE c == Candidate(s, remote, physical)
<1>1. CASE Less(s, c)
  <2> SUFFICES Less(remote, c)
    BY <1>1 DEF UpdateOf
  <2>1. CASE physical > s.WallTime /\ physical > remote.WallTime
    BY <2>1 DEF Candidate
  <2>2. CASE s.WallTime > remote.WallTime /\ s.WallTime > physical
    BY <2>2 DEF Candidate, Increment
  <2>3. CASE remote.WallTime > s.WallTime /\ remote.WallTime > physical
    BY <2>3 DEF Candidate, Increment
  <2>4. CASE /\ ~(physical > s.WallTime /\ physical > remote.WallTime)
             /\ ~(s.WallTime > remote.WallTime /\ s.WallTime > physical)
             /\ ~(remote.WallTime > s.WallTime /\ remote.WallTime > physical)
    <3> DEFINE m == Larger(physical, Larger(s.WallTime, remote.WallTime))
               of(t) == IF t.WallTime = m THEN t.Logical ELSE 0
               l == Larger(0, Larger(of(s), of(remote)))
    <3>1. c = [WallTime |-> m, Logical |-> Increment(l)]
      BY <2>4 DEF Candidate
    <3>2. m \in Nat /\ remote.WallTime <= m /\ s.WallTime <= m
      BY DEF Larger
    <3>3. l \in Nat /\ l <= MaxLogical /\ of(s) <= l /\ of(remote) <= l
      BY <3>2 DEF Larger
    <3>4. l = MaxLogical => s.WallTime = m /\ s.Logical = MaxLogical
      BY <3>2, <3>3 DEF Larger
    <3>5. l # MaxLogical
      BY <1>1, <3>1, <3>3, <3>4 DEF Increment
    <3>6. c.WallTime = m /\ c.Logical = l + 1
      BY <3>1, <3>5 DEF Increment
    <3>7. remote.WallTime = m => remote.Logical <= l
      BY <3>3
    <3> QED
      BY <3>2, <3>3, <3>6, <3>7
  <2> QED
    BY <2>1, <2>2, <2>3, <2>4
<1>2. CASE ~Less(s, c)
  <2>1. Less(remote, Next(s))
    BY <1>2 DEF Candidate, Increment, Larger, Next
  <2> QED
    BY <1>2, <2>1 DEF UpdateOf
<1> QED
  BY <1>1, <1>2

\* Clock states, wall readings and timestamps in flight have their types in
\* every reachable state.
THEOREM TypeCorrect == Spec => []TypeOK
<1>0. Zero \in Timestamp
  BY HLCAssumption DEF Zero, Timestamp, Logical
<1>1. Init => TypeOK
  BY <1>0, HLCAssumption DEF Init, TypeOK
<1>2. TypeOK /\ [Step]_vars => TypeOK'
  <2> SUFFICES ASSUME TypeOK, [Step]_vars PROVE TypeOK'
    OBVIOUS
  <2>1. CASE UNCHANGED vars
    BY <2>1 DEF TypeOK, vars
  <2>2. ASSUME NEW n \in Node, NEW w \in 0..MaxWall, SetWall(n, w) PROVE TypeOK'
    BY <2>2 DEF TypeOK, SetWall
  <2>3. ASSUME NEW n \in Node, Now(n) PROVE TypeOK'
    <3>1. wall[n] \in Nat /\ state[n] \in Timestamp
      BY HLCAssumption DEF TypeOK
    <3>2. NowOf(state[n], wall[n]) \in Timestamp
      BY <3>1, OpsTyped
    <3> QED
      BY <1>0, <2>3, <3>2 DEF TypeOK, Now, Forget
  <2>4. ASSUME NEW n \in Node, Ping(n) PROVE TypeOK'
    <3>1. wall[n] \in Nat /\ state[n] \in Timestamp
      BY HLCAssumption DEF TypeOK
    <3>2. NowOf(state[n], wall[n]) \in Timestamp
      BY <3>1, OpsTyped
    <3>3. state' \in [Node -> Timestamp]
      BY <2>4, <3>2 DEF TypeOK, Ping
    <3> QED
      BY <1>0, <2>4, <3>3 DEF TypeOK, Ping, Forget
  <2>5. ASSUME NEW n \in Node, NEW remote \in pings, Update(n, remote) PROVE TypeOK'
    <3>1. wall[n] \in Nat /\ state[n] \in Timestamp /\ remote \in Timestamp
      BY HLCAssumption DEF TypeOK
    <3>2. UpdateOf(state[n], remote, wall[n]) \in Timestamp
      BY <3>1, OpsTyped
    <3> QED
      BY <2>5, <3>1, <3>2 DEF TypeOK, Update, Hear
  <2>6. ASSUME NEW h \in replying, Reply(h) PROVE TypeOK'
    <3>1. h.node \in Node /\ wall[h.node] \in Nat /\ state[h.node] \in Timestamp
      BY HLCAssumption DEF TypeOK
    <3>2. NowOf(state[h.node], wall[h.node]) \in Timestamp
      BY <3>1, OpsTyped
    <3> QED
      BY <1>0, <2>6, <3>1, <3>2 DEF TypeOK, Reply, Forget
  <2> QED
    BY <2>1, <2>2, <2>3, <2>4, <2>5, <2>6 DEF Step
<1> QED
  BY <1>1, <1>2, PTL DEF Spec

\* A clock never steps back, except in a Now at the int32 limit: Update's
\* safety net holds even there.
THEOREM Backwards == Spec => BackwardsOnlyAtLimit
<1> DEFINE A == \A n \in Node :
                  \/ state'[n] = state[n]
                  \/ Less(state[n], state'[n])
                  \/ state[n].Logical = MaxLogical /\ pings \subseteq pings'
<1>1. TypeOK /\ [Step]_vars => [A]_vars
  <2> SUFFICES ASSUME TypeOK, Step, NEW n \in Node
               PROVE \/ state'[n] = state[n]
                     \/ Less(state[n], state'[n])
                     \/ state[n].Logical = MaxLogical /\ pings \subseteq pings'
    OBVIOUS
  <2>0. wall[n] \in Nat /\ state[n] \in Timestamp
    BY HLCAssumption DEF TypeOK
  <2>1. CASE state'[n] = state[n]
    BY <2>1
  <2>2. CASE state'[n] = NowOf(state[n], wall[n]) /\ pings \subseteq pings'
    BY <2>0, <2>2, NowAdvances
  <2>3. CASE \E remote \in pings : state'[n] = UpdateOf(state[n], remote, wall[n])
    <3>1. PICK remote \in pings : state'[n] = UpdateOf(state[n], remote, wall[n])
      BY <2>3
    <3>2. remote \in Timestamp
      BY DEF TypeOK
    <3> QED
      BY <2>0, <3>1, <3>2, UpdateAdvances
  <2> QED
    BY <2>1, <2>2, <2>3 DEF Step, SetWall, Now, Ping, Update, Reply, TypeOK
<1> QED
  BY <1>1, TypeCorrect, PTL DEF Spec, BackwardsOnlyAtLimit

\* Timestamps are ordered transitively.
LEMMA LessTransitive ==
  ASSUME NEW a \in Timestamp, NEW b \in Timestamp, NEW c \in Timestamp,
         Less(a, b), Less(b, c)
  PROVE  Less(a, c)
BY HLCAssumption DEF Timestamp, Logical, Less

\* A Now keeps the causal order: below the limit the clock moves on, at the limit
\* what was heard no longer counts.
LEMMA NowKeepsOrder ==
  ASSUME TypeOK, CausalOrder, NEW n \in Node,
         state' = [state EXCEPT ![n] = NowOf(@, wall[n])], Forget(n)
  PROVE  CausalOrder'
<1> SUFFICES ASSUME NEW m \in Node
             PROVE  heard'[m] = Zero \/ Less(heard'[m], state'[m])
  BY DEF CausalOrder
<1>0. /\ wall[n] \in Nat /\ state[n] \in Timestamp /\ heard[n] \in Timestamp
      /\ NowOf(state[n], wall[n]) \in Timestamp
  BY HLCAssumption, OpsTyped DEF TypeOK
<1>1. CASE m # n
  BY <1>1 DEF TypeOK, CausalOrder, Forget
<1>2. CASE m = n /\ state[n].Logical = MaxLogical
  BY <1>2 DEF TypeOK, Forget
<1>3. CASE m = n /\ state[n].Logical # MaxLogical
  <2>1. heard'[n] = heard[n] /\ state'[n] = NowOf(state[n], wall[n])
    BY <1>3 DEF TypeOK, Forget
  <2>2. Less(state[n], state'[n])
    BY <1>0, <1>3, <2>1, NowAdvances
  <2> QED
    BY <1>0, <1>3, <2>1, <2>2, LessTransitive DEF CausalOrder
<1> QED
  BY <1>1, <1>2, <1>3

\* In every reachable state a clock stands after all that it has heard.
THEOREM Causality == Spec => []CausalOrder
<1>1. Init => CausalOrder
  BY DEF Init, CausalOrder
<1>2. TypeOK /\ CausalOrder /\ [Step]_vars => CausalOrder'
  <2> SUFFICES ASSUME TypeOK, CausalOrder, [Step]_vars PROVE CausalOrder'
    OBVIOUS
  <2>1. CASE UNCHANGED vars
    BY <2>1 DEF CausalOrder, vars
  <2>2. ASSUME NEW n \in Node, NEW w \in 0..MaxWall, SetWall(n, w) PROVE CausalOrder'
    BY <2>2 DEF CausalOrder, SetWall
  <2>3. ASSUME NEW n \in Node, Now(n) PROVE CausalOrder'
    BY <2>3, NowKeepsOrder DEF Now
  <2>4. ASSUME NEW n \in Node, Ping(n) PROVE CausalOrder'
    BY <2>4, NowKeepsOrder DEF Ping
  <2>5. ASSUME NEW n \in Node, NEW remote \in pings, Update(n, remote)
        PROVE CausalOrder'
    <3> SUFFICES ASSUME NEW m \in Node
                 PROVE  heard'[m] = Zero \/ Less(heard'[m], state'[m])
      BY DEF CausalOrder
    <3>0. /\ wall[n] \in Nat /\ state[n] \in Timestamp /\ heard[n] \in Timestamp
          /\ remote \in Timestamp /\ UpdateOf(state[n], remote, wall[n]) \in Timestamp
      BY HLCAssumption, OpsTyped DEF TypeOK
    <3>1. CASE m # n
      BY <2>5, <3>1 DEF TypeOK, CausalOrder, Update, Hear
    <3>2. state'[n] = UpdateOf(state[n], remote, wall[n])
      BY <2>5 DEF TypeOK, Update
    <3>3. CASE m = n /\ remote.Logical # MaxLogical /\ Less(heard[n], remote)
      <4>1. heard'[n] = remote
        BY <2>5, <3>3 DEF TypeOK, Update, Hear
      <4> QED
        BY <3>0, <3>2, <3>3, <4>1, UpdatePassesRemote
    <3>4. CASE m = n /\ ~(remote.Logical # MaxLogical /\ Less(heard[n], remote))
      <4>1. heard'[n] = heard[n]
        BY <2>5, <3>4 DEF TypeOK, Update, Hear
      <4>2. Less(state[n], state'[n])
        BY <3>0, <3>2, UpdateAdvances
      <4> QED
        BY <3>0, <3>2, <3>4, <4>1, <4>2, LessTransitive DEF CausalOrder
    <3> QED
      BY <3>1, <3>3, <3>4
  <2>6. ASSUME NEW h \in replying, Reply(h) PROVE CausalOrder'
    <3>1. h.node \in Node
      BY DEF TypeOK
    <3> QED
      BY <2>6, <3>1, NowKeepsOrder DEF Reply
  <2> QED
    BY <2>1, <2>2, <2>3, <2>4, <2>5, <2>6 DEF Step
<1> QED
  BY <1>1, <1>2, TypeCorrect, PTL DEF Spec
=============================================================================
