------------------------------- MODULE Notify -------------------------------
(***************************************************************************)
(* threads/notify.js: a main thread that wakes a worker Max times with     *)
(* Atomics.notify, over three words of shared memory.  One step is one     *)
(* access to shared memory together with the local work that follows it.   *)
(*                                                                         *)
(* The plain stores of lines 24 and 25 race with the worker's loads: the   *)
(* worker may see neither, the first, or both, whatever order they become  *)
(* visible in, and the interleavings below give all of these outcomes.     *)
(***************************************************************************)
EXTENDS Integers

CONSTANTS
  Max,    \* the number of wakeups asked for (23)
  Bound   \* a bound on `calls`: a worker that missed Max counts for ever

ASSUME MaxAssumption == Max \in Nat \ {0}
ASSUME BoundAssumption == Bound \in Nat

VARIABLES
  size,     \* the shared words: 0 the limit, 1 the gate, 2 the result
  main,     \* where the main thread is
  worker,   \* where the worker is
  limit,    \* the worker's `max`
  counter,  \* the worker's count of its wakeups
  calls     \* the main thread's count of successful notifications

vars == <<size, main, worker, limit, counter, calls>>

Init ==
  /\ size = [i \in 0..2 |-> 0]
  /\ main = "limit"
  /\ worker = "load"
  /\ limit = 0
  /\ counter = 0
  /\ calls = 0

-----------------------------------------------------------------------------
(* The main thread, from the start of the worker on.                       *)

SetLimit ==
  /\ main = "limit"
  /\ size' = [size EXCEPT ![0] = Max]
  /\ main' = "gate"
  /\ UNCHANGED <<worker, limit, counter, calls>>

SetGate ==
  /\ main = "gate"
  /\ size' = [size EXCEPT ![1] = 1]
  /\ main' = "notify"
  /\ UNCHANGED <<worker, limit, counter, calls>>

\* Faulty variant: a notification that woke nobody is counted too.
CountEveryNotify ==
  /\ main = "notify"
  /\ calls < Bound
  /\ worker' = IF worker = "asleep" THEN "woken" ELSE worker
  /\ calls' = calls + 1
  /\ main' = "poll"
  /\ UNCHANGED <<size, limit, counter>>

\* Atomics.notify returns 1 if the worker was waiting; only that is counted.
NotifyWorker ==
  /\ main = "notify"
  /\ calls < Bound
  /\ IF worker = "asleep"
     THEN worker' = "woken" /\ calls' = calls + 1
     ELSE UNCHANGED <<worker, calls>>
  /\ main' = "poll"
  /\ UNCHANGED <<size, limit, counter>>

\* worker.poll() is false once the worker's thread has ended.
Poll ==
  /\ main = "poll"
  /\ main' = IF worker = "ended" THEN "done" ELSE "notify"
  /\ UNCHANGED <<size, worker, limit, counter, calls>>

-----------------------------------------------------------------------------
(* The worker.                                                             *)

\* Faulty variant: the limit is taken from the word of the gate.
LoadGate ==
  /\ worker = "load"
  /\ limit' = size[1]
  /\ worker' = "wait"
  /\ UNCHANGED <<size, main, counter, calls>>

LoadLimit ==
  /\ worker = "load"
  /\ limit' = size[0]
  /\ worker' = "wait"
  /\ UNCHANGED <<size, main, counter, calls>>

\* Faulty variant: the worker waits for the gate's initial value.
WaitOnZero ==
  /\ worker = "wait"
  /\ worker' = IF size[1] = 0 THEN "asleep" ELSE "store"
  /\ UNCHANGED <<size, main, limit, counter, calls>>

\* Atomics.wait returns "not-equal" at once while the gate is shut: the loop
\* ends without having waited.
Wait ==
  /\ worker = "wait"
  /\ worker' = IF size[1] = 1 THEN "asleep" ELSE "store"
  /\ UNCHANGED <<size, main, limit, counter, calls>>

\* Faulty variant: counter++ in the place of ++counter.
CountAfterTest ==
  /\ worker = "woken"
  /\ counter' = counter + 1
  /\ worker' = IF counter = limit THEN "store" ELSE "wait"
  /\ UNCHANGED <<size, main, limit, calls>>

CountWakeup ==
  /\ worker = "woken"
  /\ counter' = counter + 1
  /\ worker' = IF counter' = limit THEN "store" ELSE "wait"
  /\ UNCHANGED <<size, main, limit, calls>>

StoreResult ==
  /\ worker = "store"
  /\ size' = [size EXCEPT ![2] = counter]
  /\ worker' = "ended"
  /\ UNCHANGED <<main, limit, counter, calls>>

-----------------------------------------------------------------------------
MainStep == SetLimit \/ SetGate \/ NotifyWorker \/ Poll
WorkerStep == LoadLimit \/ Wait \/ CountWakeup \/ StoreResult

Next == MainStep \/ WorkerStep

Spec == Init /\ [][Next]_vars

\* Each thread is run by the operating system as long as it can run.
FairSpec == Spec /\ WF_vars(MainStep) /\ WF_vars(WorkerStep)

-----------------------------------------------------------------------------
TypeOK ==
  /\ size \in [0..2 -> Nat]
  /\ main \in {"limit", "gate", "notify", "poll", "done"}
  /\ worker \in {"load", "wait", "asleep", "woken", "store", "ended"}
  /\ limit \in {0, Max}   \* a store of one word is seen whole or not at all
  /\ counter \in Nat
  /\ calls \in Nat

\* When the loop of the main thread ends, the wakeups it counted are the
\* wakeups the worker counted and published: none is lost, none counted twice,
\* and the result is read after it was stored (assert, line 41).
CallsMatch == main = "done" => calls = size[2]

\* A program that ends has woken its worker Max times or, when the worker ran
\* ahead of the stores of lines 24 and 25, never: the gate does not shut again,
\* so that no wait in the middle of the count returns "not-equal".
AllOrNothing == main = "done" => size[2] \in {0, Max}

\* The same loop ends with the result that was asked for (assert, line 37).
ResultIsMax == main = "done" => size[2] = Max

\* A worker that starts its loop after both stores are visible is woken Max
\* times and the program ends with the right result: no wakeup is lost between
\* the worker's wait and the next notification (lines 10-11 and 29-34).
Finishes ==
  (worker = "wait" /\ counter = 0 /\ limit = Max /\ size[1] = 1)
    ~> (main = "done" /\ size[2] = Max)
=============================================================================
