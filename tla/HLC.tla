-------------------------------- MODULE HLC --------------------------------
(***************************************************************************)
(* Hybrid logical clocks (internal/util/hlc) on several nodes, and the     *)
(* heartbeat RPC (internal/rpc) that carries a timestamp from one node's   *)
(* clock to another's.  Now and Update run under the clock's mutex, so     *)
(* each call is one step; the physical clock under a node may jump to any  *)
(* value, backwards included, between two calls.                           *)
(***************************************************************************)
EXTENDS Integers, FiniteSets

CONSTANTS
  Node,
  MaxWall,      \* bound on the wall times explored
  MaxPings,     \* bound on the pings sent and not yet answered
  MaxLogical    \* the largest int32, 2^31 - 1 in the code

ASSUME HLCAssumption ==
  MaxWall \in Nat /\ MaxLogical \in Nat \ {0} /\ MaxPings \in Nat

VARIABLES
  wall,         \* per node, what the physical clock reads
  state,        \* per node, Clock.state: the last timestamp handed out
  pings,        \* timestamps in flight in a PingRequest
  replying,     \* the Heartbeat handlers between their Update and their Now
  heard         \* history: per node, the latest timestamp given to Update, see Hear

vars == <<wall, state, pings, replying, heard>>

Logical == (-MaxLogical - 1) .. MaxLogical      \* int32
Timestamp == [WallTime : Nat, Logical : Logical]
Zero == [WallTime |-> 0, Logical |-> 0]

Less(t, other) ==
  IF t.WallTime # other.WallTime
  THEN t.WallTime < other.WallTime
  ELSE t.Logical < other.Logical

\* A bug of Next: no carry into the wall time.
NextNoCarry(t) == [t EXCEPT !.Logical = @ + 1]

Next(t) ==
  IF t.Logical = MaxLogical
  THEN [WallTime |-> t.WallTime + 1, Logical |-> 0]
  ELSE [WallTime |-> t.WallTime, Logical |-> t.Logical + 1]

\* int32 addition of one.
Increment(l) == IF l = MaxLogical THEN -MaxLogical - 1 ELSE l + 1

NowOf(s, physical) ==
  IF physical > s.WallTime
  THEN [WallTime |-> physical, Logical |-> 0]
  ELSE [s EXCEPT !.Logical = Increment(@)]

Larger(a, b) == IF a < b THEN b ELSE a

\* The switch of Update: the timestamp that follows local state, remote and
\* physical clock, before the safety net.
Candidate(s, remote, physical) ==
  CASE physical > s.WallTime /\ physical > remote.WallTime ->
         [WallTime |-> physical, Logical |-> 0]
    [] s.WallTime > remote.WallTime /\ s.WallTime > physical ->
         [WallTime |-> s.WallTime, Logical |-> Increment(s.Logical)]
    [] remote.WallTime > s.WallTime /\ remote.WallTime > physical ->
         [WallTime |-> remote.WallTime, Logical |-> Increment(remote.Logical)]
    [] OTHER ->
         LET maxWall == Larger(physical, Larger(s.WallTime, remote.WallTime))
             of(t) == IF t.WallTime = maxWall THEN t.Logical ELSE 0
         IN  [WallTime |-> maxWall,
              Logical  |-> Increment(Larger(0, Larger(of(s), of(remote))))]

\* A bug of Update: the safety net is missing.
UpdateOfUnguarded(s, remote, physical) == Candidate(s, remote, physical)

\* A bug of Update: the remote timestamp is ignored.
UpdateOfDeaf(s, remote, physical) == NowOf(s, physical)

UpdateOf(s, remote, physical) ==
  LET next == Candidate(s, remote, physical)
  IN  IF Less(s, next) THEN next ELSE Next(s)

-----------------------------------------------------------------------------
TypeOK ==
  /\ wall \in [Node -> 0..MaxWall]
  /\ state \in [Node -> Timestamp]
  /\ pings \subseteq Timestamp
  /\ replying \subseteq [node : Node, remote : Timestamp]
  /\ heard \in [Node -> Timestamp]

Init ==
  /\ wall \in [Node -> 0..MaxWall]
  /\ state = [n \in Node |-> Zero]
  /\ pings = {} /\ replying = {}
  /\ heard = [n \in Node |-> Zero]

\* The physical clock is outside the program: it may be set to any value.
SetWall(n, w) ==
  /\ wall' = [wall EXCEPT ![n] = w]
  /\ UNCHANGED <<state, pings, replying, heard>>

\* History: what a clock has heard counts until a Now at the int32 limit, and
\* a timestamp at the limit does not count.
Forget(n) ==
  heard' = [heard EXCEPT ![n] = IF state[n].Logical = MaxLogical THEN Zero ELSE @]

Hear(n, remote) ==
  heard' = [heard EXCEPT ![n] =
              IF remote.Logical # MaxLogical /\ Less(@, remote) THEN remote ELSE @]

Now(n) ==
  /\ state' = [state EXCEPT ![n] = NowOf(@, wall[n])]
  /\ Forget(n)
  /\ UNCHANGED <<wall, pings, replying>>

\* MeasureOffsetFromClient: a Now whose timestamp travels in a PingRequest.
\* The response is used for the offset estimate only, never for Update.
Ping(n) ==
  /\ Cardinality(pings) + Cardinality(replying) < MaxPings
  /\ state' = [state EXCEPT ![n] = NowOf(@, wall[n])]
  /\ pings' = pings \union {state'[n]}
  /\ Forget(n)
  /\ UNCHANGED <<wall, replying>>

\* The Heartbeat handler takes the mutex twice, so other calls may come in
\* between: first Update, then the Now whose timestamp the response carries.
Update(n, remote) ==
  /\ state[n].WallTime <= MaxWall          \* bound on the carry of Next
  /\ state' = [state EXCEPT ![n] = UpdateOf(@, remote, wall[n])]
  /\ pings' = pings \ {remote}
  /\ replying' = replying \union {[node |-> n, remote |-> remote]}
  /\ Hear(n, remote)
  /\ UNCHANGED wall

Reply(h) ==
  /\ state' = [state EXCEPT ![h.node] = NowOf(@, wall[h.node])]
  /\ replying' = replying \ {h}
  /\ Forget(h.node)
  /\ UNCHANGED <<wall, pings>>

Step ==
  \/ \E n \in Node :
       \/ \E w \in 0..MaxWall : SetWall(n, w)
       \/ Now(n)
       \/ Ping(n)
       \/ \E remote \in pings : Update(n, remote)
  \/ \E h \in replying : Reply(h)

Spec == Init /\ [][Step]_vars

-----------------------------------------------------------------------------
\* "Now() is strictly monotonic across calls on the same Clock" (hlc.go:25),
\* whatever the wall clock does, with one exception: a clock steps back from a
\* state whose logical counter has reached the int32 limit, and then never in
\* Update, whose safety net (hlc.go:110-113) takes the carry of Timestamp.Next.
BackwardsOnlyAtLimit ==
  [][\A n \in Node :
       \/ state'[n] = state[n]
       \/ Less(state[n], state'[n])
       \/ state[n].Logical = MaxLogical /\ pings \subseteq pings']_vars

\* A clock stands after every remote timestamp it ever took in with Update,
\* also when its wall clock is behind the remote's or goes back: "Timestamps
\* generated on a Clock C1 causally precede timestamps generated on a Clock
\* C2 after C2.Update(t)" (hlc.go:26-27).  The int32 limit is the exception here
\* too.
CausalOrder ==
  \A n \in Node : heard[n] = Zero \/ Less(heard[n], state[n])

=============================================================================
