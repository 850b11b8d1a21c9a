------------------------------ MODULE Atomics -------------------------------
(***************************************************************************)
(* threads/atomics.js: the main thread and its workers each add 1 to word 0*)
(* of a shared buffer max times.  The limit is in word 1, which the main   *)
(* thread sets before it starts the workers; each worker reads it once and *)
(* writes its own count there when it is done.                             *)
(***************************************************************************)
EXTENDS Integers, FiniteSets

CONSTANTS
  Worker,     \* the workers
  Max,        \* lo.args[2]
  Values      \* of a word of the buffer: 2^32

AtomicsAssumption ==
  /\ IsFiniteSet(Worker) /\ Max \in Nat \ {0} /\ Values \in Nat /\ Max < Values

VARIABLES
  shared0, shared1,   \* the words of the buffer
  main,               \* store, start, count, wait, done
  counter,            \* of the main thread
  pc, count, max      \* of each worker: its place, its counter, its limit

vars == <<shared0, shared1, main, counter, pc, count, max>>

Init ==
  /\ shared0 = 0 /\ shared1 = 0 /\ main = "store" /\ counter = 0
  /\ pc = [w \in Worker |-> "none"]
  /\ count = [w \in Worker |-> 0] /\ max = [w \in Worker |-> 0]

\* Faulty variants: the limit is stored once the workers run; an addition that
\* reads the word and writes it back loses what came between.
StoreMaxLate ==
  \/ /\ main = "store" /\ main' = "start" /\ UNCHANGED shared1
     /\ UNCHANGED <<shared0, counter, pc, count, max>>
  \/ /\ main = "count" /\ shared1 # Max /\ shared1' = Max
     /\ UNCHANGED <<shared0, main, counter, pc, count, max>>

StoreMax ==
  /\ main = "store" /\ main' = "start" /\ shared1' = Max
  /\ UNCHANGED <<shared0, counter, pc, count, max>>

Start ==
  /\ main = "start"
  /\ \/ \E w \in Worker : /\ pc[w] = "none" /\ pc' = [pc EXCEPT ![w] = "load"]
                          /\ UNCHANGED main
     \/ /\ \A w \in Worker : pc[w] # "none"
        /\ main' = "count" /\ UNCHANGED pc
  /\ UNCHANGED <<shared0, shared1, counter, count, max>>

AddLost == shared0' \in { (shared0 + 1) % Values, shared0 }
Add == shared0' = (shared0 + 1) % Values

Count ==
  /\ main = "count" /\ Add
  /\ counter' = counter + 1
  /\ main' = IF counter' = Max THEN "wait" ELSE main
  /\ UNCHANGED <<shared1, pc, count, max>>

\* Faulty variant: the workers are not waited for.
WaitNone ==
  /\ main = "wait" /\ main' = "done"
  /\ UNCHANGED <<shared0, shared1, counter, pc, count, max>>

\* waitfor returns when the worker has ended.
Wait ==
  /\ main = "wait" /\ \A w \in Worker : pc[w] = "done"
  /\ main' = "done"
  /\ UNCHANGED <<shared0, shared1, counter, pc, count, max>>

Load(w) ==
  /\ pc[w] = "load" /\ pc' = [pc EXCEPT ![w] = "count"]
  /\ max' = [max EXCEPT ![w] = shared1]
  /\ UNCHANGED <<shared0, shared1, main, counter, count>>

\* A counter that starts at a limit of 0 never meets it.
WorkerCount(w) ==
  /\ pc[w] = "count" /\ Add
  /\ max[w] > 0
  /\ count' = [count EXCEPT ![w] = @ + 1]
  /\ pc' = [pc EXCEPT ![w] = IF count'[w] = max[w] THEN "store" ELSE @]
  /\ UNCHANGED <<shared1, main, counter, max>>

Store(w) ==
  /\ pc[w] = "store" /\ pc' = [pc EXCEPT ![w] = "done"]
  /\ shared1' = count[w]
  /\ UNCHANGED <<shared0, main, counter, count, max>>

WorkerStep(w) == Load(w) \/ WorkerCount(w) \/ Store(w)
MainStep == StoreMax \/ Start \/ Count \/ Wait
Next == MainStep \/ \E w \in Worker : WorkerStep(w)

\* Threads that can run are run.
Spec == Init /\ [][Next]_vars /\ WF_vars(MainStep) /\ \A w \in Worker : WF_vars(WorkerStep(w))

-----------------------------------------------------------------------------
\* The additions of the workers.
Added == UNION { {w} \X (1..count[w]) : w \in Worker }

\* The word holds what the threads together have added, in every state.
Sum == shared0 = (counter + Cardinality(Added)) % Values

\* A worker that is started late and reads the word after another has written
\* its count there still counts to the limit.
Limit == \A w \in Worker : pc[w] \in {"count", "store", "done"} => max[w] = Max

\* atomics.js:55 and 56: what is asserted when all workers have been waited for.
Asserted == main = "done" => shared0 = Max * (Cardinality(Worker) + 1) /\ shared1 = Max

\* No addition is lost, and what is asserted at the end holds.
Sums == Sum /\ Limit /\ Asserted

\* All threads reach their limits.
Ended == main = "done"
Ends == <>Ended

-----------------------------------------------------------------------------
(* The invariant behind Sums.                                              *)

Typed ==
  /\ shared0 \in Nat /\ main \in {"store", "start", "count", "wait", "done"}
  /\ counter \in 0..Max
  /\ pc \in [Worker -> {"none", "load", "count", "store", "done"}]
  /\ count \in [Worker -> 0..Max] /\ max \in [Worker -> 0..Max]

\* The word that workers write to holds the limit from the time it is stored.
Stored ==
  /\ shared1 = IF main = "store" THEN 0 ELSE Max
  /\ main = "store" => \A w \in Worker : pc[w] = "none"
  /\ main \notin {"store", "start"} => \A w \in Worker : pc[w] # "none"

\* Every thread counts up to the limit, and the main thread waits for the others.
Counted ==
  /\ main \in {"store", "start", "count"} => counter < Max
  /\ main \in {"wait", "done"} => counter = Max
  /\ \A w \in Worker : /\ pc[w] \in {"none", "load", "count"} => count[w] < Max
                       /\ pc[w] \in {"store", "done"} => count[w] = Max
  /\ main = "done" => \A w \in Worker : pc[w] = "done"

IInv == Typed /\ Stored /\ Counted /\ Sum /\ Limit
=============================================================================
