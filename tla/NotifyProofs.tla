---------------------------- MODULE NotifyProofs ----------------------------
(***************************************************************************)
(* Proofs about Notify, for every number of wakeups and every bound.       *)
(***************************************************************************)
EXTENDS Notify, TLAPS

\* A wakeup that the worker has been given and has not counted yet.
InFlight == IF worker = "woken" THEN 1 ELSE 0

\* Both counts agree up to the wakeup in flight, and the worker stops counting
\* only when it has reached its limit or never saw the gate open.
IInv ==
  /\ TypeOK
  /\ size[0] \in {0, Max}
  /\ calls = counter + InFlight
  /\ worker = "load" => counter = 0
  /\ (worker \in {"asleep", "woken"} \/ counter > 0) => size[1] = 1
  /\ worker \in {"store", "ended"} => counter \in {0, limit}
  /\ worker = "ended" => size[2] = counter
  /\ main = "done" => worker = "ended"

LEMMA InitInv == Init => IInv
BY MaxAssumption DEF Init, IInv, TypeOK, InFlight

LEMMA StepInv == IInv /\ [Next]_vars => IInv'
<1> SUFFICES ASSUME IInv, [Next]_vars PROVE IInv'
  OBVIOUS
<1> USE MaxAssumption, BoundAssumption DEF IInv, TypeOK, InFlight
<1>1. CASE SetLimit
  BY <1>1 DEF SetLimit
<1>2. CASE SetGate
  BY <1>2 DEF SetGate
<1>3. CASE NotifyWorker
  BY <1>3 DEF NotifyWorker
<1>4. CASE Poll
  BY <1>4 DEF Poll
<1>5. CASE LoadLimit
  BY <1>5 DEF LoadLimit
<1>6. CASE Wait
  BY <1>6 DEF Wait
<1>7. CASE CountWakeup
  BY <1>7 DEF CountWakeup
<1>8. CASE StoreResult
  BY <1>8 DEF StoreResult
<1>9. CASE UNCHANGED vars
  BY <1>9 DEF vars
<1>10. QED
  BY <1>1, <1>2, <1>3, <1>4, <1>5, <1>6, <1>7, <1>8, <1>9 DEF Next, MainStep, WorkerStep

LEMMA InvSafety == Spec => []IInv
BY InitInv, StepInv, PTL DEF Spec

\* The variables have their types, for every number of wakeups.
THEOREM TypeCorrect == Spec => []TypeOK
<1>1. IInv => TypeOK
  BY DEF IInv
<1>2. QED BY <1>1, InvSafety, PTL

\* The assertion of notify.js:41, calls === result, never fails, whatever the
\* number of wakeups and however the two threads interleave.
THEOREM CallsMatchSafety == Spec => []CallsMatch
<1>1. IInv => CallsMatch
  BY DEF IInv, CallsMatch, InFlight, TypeOK
<1>2. QED BY <1>1, InvSafety, PTL

\* notify.js ends with the result 0 or with the result that was asked for.
THEOREM AllOrNothingSafety == Spec => []AllOrNothing
<1>1. IInv => AllOrNothing
  BY DEF IInv, AllOrNothing, TypeOK
<1>2. QED BY <1>1, InvSafety, PTL
=============================================================================
