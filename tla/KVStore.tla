------------------------------ MODULE KVStore ------------------------------
(***************************************************************************)
(* What storage.Engine gives its callers: a map that survives crashes.  A  *)
(* call submits a batch (Put and Delete submit one of a single record),    *)
(* takes effect once and as a whole, and only then returns; a crash ends   *)
(* the call in flight, and may leave a prefix of its batch.                *)
(***************************************************************************)
EXTENDS Tables

CONSTANTS
  None,         \* no call in flight
  Batch         \* the batches callers may submit

VARIABLES
  store,        \* key -> value or Absent
  call,         \* None, or the batch of the call in flight
  done,         \* the call in flight has taken effect
  crashes       \* how many crashes there were: none of them is a return

Init ==
  /\ store = Empty
  /\ call = None
  /\ done = FALSE
  /\ crashes = 0

Submit(b) ==
  /\ call = None
  /\ call' = b
  /\ done' = FALSE
  /\ UNCHANGED <<store, crashes>>

TakeEffect ==
  /\ call # None /\ ~done
  /\ store' = Visible(Written(store, call))
  /\ done' = TRUE
  /\ UNCHANGED <<call, crashes>>

Return ==
  /\ call # None /\ done
  /\ call' = None
  /\ done' = FALSE
  /\ UNCHANGED <<store, crashes>>

\* A batch reaches the log record by record, so a crash before the fsync may
\* keep the first of them.
Crash ==
  /\ call' = None
  /\ done' = FALSE
  /\ crashes' = crashes + 1
  /\ \/ UNCHANGED store
     \/ /\ call # None /\ ~done
        /\ \E n \in 1..Len(call) : store' = Visible(Written(store, SubSeq(call, 1, n)))

Next ==
  \/ \E b \in Batch : Submit(b)
  \/ TakeEffect
  \/ Return
  \/ Crash

Spec == Init /\ [][Next]_<<store, call, done, crashes>>
=============================================================================
