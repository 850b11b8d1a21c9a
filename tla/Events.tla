------------------------------- MODULE Events -------------------------------
(***************************************************************************)
(* threads/events.js and threads/events4.js: a main thread wakes a worker  *)
(* through a word of shared memory until the worker has counted `Max`      *)
(* times and ended.  In events.js the word the worker waits on is the word *)
(* of the limit; in events4.js it is a flag that the main thread sets and  *)
(* the worker clears.  One step is one access to shared memory.            *)
(***************************************************************************)
EXTENDS Integers

CONSTANTS
  Program,  \* "events" or "events4"
  Max,      \* the limit
  Bound     \* what counts are followed up to

MaxAssumption == Max \in Nat \ {0} /\ Bound \in Nat /\ Bound >= Max

LimitWord == IF Program = "events" THEN 0 ELSE 1

VARIABLES
  size,     \* the shared words
  main,     \* where the main thread is: limit, poll, store, notify, done
  worker,   \* where the worker is: load, wait, asleep, count, clear, done
  max,      \* the limit the worker loaded
  counter,  \* what the worker has counted
  calls     \* times the flag was set (`calls` of events4.js)

vars == <<size, main, worker, max, counter, calls>>

Init ==
  /\ size = [i \in 0..1 |-> 0]
  /\ main = "limit" /\ worker = "load"
  /\ max = 0 /\ counter = 0 /\ calls = 0

-----------------------------------------------------------------------------
(* The main thread, from the start of the worker on.                       *)

StoreLimit ==
  /\ main = "limit"
  /\ size' = [size EXCEPT ![LimitWord] = Max]
  /\ main' = "poll"
  /\ UNCHANGED <<worker, max, counter, calls>>

\* Faulty variant: the end of the worker goes unnoticed.
PollForever ==
  /\ main = "poll"
  /\ main' = IF Program = "events" THEN "notify" ELSE "store"
  /\ UNCHANGED <<size, worker, max, counter, calls>>

Poll ==
  /\ main = "poll"
  /\ main' = IF worker = "done" THEN "done"
             ELSE IF Program = "events" THEN "notify" ELSE "store"
  /\ UNCHANGED <<size, worker, max, counter, calls>>

StoreFlag ==
  /\ main = "store"
  /\ size' = [size EXCEPT ![0] = 1]
  /\ calls' = IF calls < Bound THEN calls + 1 ELSE calls
  /\ main' = "notify"
  /\ UNCHANGED <<worker, max, counter>>

\* A worker that wakes counts in events.js and waits again in events4.js.
Notify ==
  /\ main = "notify"
  /\ main' = "poll"
  /\ worker' = IF worker # "asleep" THEN worker
               ELSE IF Program = "events" THEN "count" ELSE "wait"
  /\ UNCHANGED <<size, max, counter, calls>>

-----------------------------------------------------------------------------
(* The worker.                                                             *)

LoadLimit ==
  /\ worker = "load"
  /\ max' = size[LimitWord]
  /\ worker' = "wait"
  /\ UNCHANGED <<size, main, counter, calls>>

\* Faulty variant: waiting for the flag to be cleared.
WaitOnSet ==
  /\ worker = "wait"
  /\ worker' = IF size[0] # 0 THEN "asleep" ELSE "count"
  /\ UNCHANGED <<size, main, max, counter, calls>>

\* Atomics.wait(size, 0, 0) sleeps on 0 and is "not-equal" otherwise.
Wait ==
  /\ worker = "wait"
  /\ worker' = IF size[0] = 0 THEN "asleep" ELSE "count"
  /\ UNCHANGED <<size, main, max, counter, calls>>

\* Faulty variant: the limit is passed by one.
CountPast ==
  /\ worker = "count" /\ counter < Bound
  /\ counter' = counter + 1
  /\ IF counter = max
     THEN worker' = "done" /\ size' = [size EXCEPT ![LimitWord] = counter']
     ELSE /\ worker' = IF Program = "events" THEN "wait" ELSE "clear"
          /\ UNCHANGED size
  /\ UNCHANGED <<main, max, calls>>

\* The last count is stored where the limit was.
Count ==
  /\ worker = "count" /\ counter < Bound
  /\ counter' = counter + 1
  /\ IF counter' = max
     THEN worker' = "done" /\ size' = [size EXCEPT ![LimitWord] = counter']
     ELSE /\ worker' = IF Program = "events" THEN "wait" ELSE "clear"
          /\ UNCHANGED size
  /\ UNCHANGED <<main, max, calls>>

\* Faulty variant: the flag stays set.
ClearNothing ==
  /\ worker = "clear"
  /\ worker' = "wait"
  /\ UNCHANGED <<size, main, max, counter, calls>>

\* The flag may have been set again meanwhile: that call is lost.
Clear ==
  /\ worker = "clear"
  /\ size' = [size EXCEPT ![0] = 0]
  /\ worker' = "wait"
  /\ UNCHANGED <<main, max, counter, calls>>

-----------------------------------------------------------------------------
MainStep == StoreLimit \/ Poll \/ StoreFlag \/ Notify
WorkerStep == LoadLimit \/ Wait \/ Count \/ Clear
Next == MainStep \/ WorkerStep

\* Two threads of one process.
Spec == Init /\ [][Next]_vars /\ WF_vars(MainStep) /\ WF_vars(WorkerStep)

-----------------------------------------------------------------------------
TypeOK ==
  /\ size \in [0..1 -> 0..Max]
  /\ main \in {"limit", "poll", "store", "notify", "done"}
  /\ worker \in {"load", "wait", "asleep", "count", "clear", "done"}
  /\ max \in {0, Max} /\ counter \in 0..Bound /\ calls \in 0..Bound

\* No count without a call: the worker of events4.js counts a flag that is set
\* only once, although it clears it with a store that may be late.
CountsCalls == Program = "events4" /\ calls < Bound => counter <= calls

\* The worker of events.js never sleeps once it has seen the limit, which is
\* never 0: what the program counts is not wakeups.
NeverSleeps == Program = "events" /\ max = Max => worker # "asleep"

\* What wakeups do to the counts, in either program.
Signals == CountsCalls /\ NeverSleeps

\* Why: in events.js nothing but the limit is ever stored in its word; in
\* events4.js a flag that is set and not yet counted is a call beyond the counts.
LimitKept ==
  Program = "events" =>
    /\ main # "store" /\ worker # "clear"
    /\ size[0] = IF main = "limit" THEN 0 ELSE Max
    /\ max = Max => size[0] = Max
FlagIsCall ==
  Program = "events4" =>
    /\ size[0] \in {0, 1} /\ size[1] \in {0, Max}
    /\ worker = "count" => size[0] = 1
    /\ calls < Bound /\ size[0] = 1 /\ worker \in {"load", "wait", "asleep", "count"}
         => counter < calls
IInv == TypeOK /\ LimitKept /\ FlagIsCall /\ Signals

\* A worker that has loaded the limit ends, and so does the main thread: the
\* stores of 0 and 1 that overwrite one another lose no last wakeup.
LimitTaken == max = Max
Finished == main = "done"
Finishes == LimitTaken ~> Finished
=============================================================================
