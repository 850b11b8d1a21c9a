----------------------------- MODULE EventCount -----------------------------
(***************************************************************************)
(* threads/events3.js: a main thread signals a worker through a            *)
(* non-blocking eventfd until the worker, which took the number of signals *)
(* to wait for from plain shared memory, has counted them and closed the   *)
(* descriptor.                                                             *)
(***************************************************************************)
EXTENDS Integers

CONSTANTS
  Max,    \* the signals asked for
  Bound   \* how far below 0 a worker that took 0 is followed

MaxAssumption == Max \in Nat \ {0} /\ Bound \in Nat

VARIABLES
  size,     \* size[0]
  event,    \* whether the eventfd is at its limit (1) or at zero (0)
  open,     \* whether the descriptor is open
  main,     \* limit, poll, write, close, done
  worker,   \* load, zero, read, close, done
  counter,  \* the signals the worker still waits for
  signals   \* writes of the main thread that succeeded

vars == <<size, event, open, main, worker, counter, signals>>

Init ==
  /\ size = 0 /\ event = 0 /\ open = TRUE
  /\ main = "limit" /\ worker = "load"
  /\ counter = 0 /\ signals = 0

-----------------------------------------------------------------------------
StoreLimit ==
  /\ main = "limit"
  /\ size' = Max /\ main' = "poll"
  /\ UNCHANGED <<event, open, worker, counter, signals>>

Poll ==
  /\ main = "poll"
  /\ main' = IF worker = "done" THEN "close" ELSE "write"
  /\ UNCHANGED <<size, event, open, worker, counter, signals>>

\* Written, EAGAIN when the worker has not read the last signal, or an error
\* when it has closed the descriptor.
Write ==
  /\ main = "write"
  /\ main' = IF open THEN "poll" ELSE "close"
  /\ IF open /\ event = 0 THEN event' = 1 /\ signals' = signals + 1
                          ELSE UNCHANGED <<event, signals>>
  /\ UNCHANGED <<size, open, worker, counter>>

\* The assertion on the shared word follows.
MainClose ==
  /\ main = "close"
  /\ open' = FALSE /\ main' = "done"
  /\ UNCHANGED <<size, event, worker, counter, signals>>

-----------------------------------------------------------------------------
LoadCounter ==
  /\ worker = "load"
  /\ counter' = size /\ worker' = "zero"
  /\ UNCHANGED <<size, event, open, main, signals>>

\* Faulty variant: the word keeps the limit.
ZeroNothing ==
  /\ worker = "zero"
  /\ worker' = "read"
  /\ UNCHANGED <<size, event, open, main, counter, signals>>

ZeroSize ==
  /\ worker = "zero"
  /\ size' = 0 /\ worker' = "read"
  /\ UNCHANGED <<event, open, main, counter, signals>>

\* Faulty variant: EAGAIN counts like a signal.
ReadAny ==
  /\ worker = "read" /\ counter > -Bound
  /\ event' = 0
  /\ counter' = counter - 1
  /\ worker' = IF counter' = 0 THEN "close" ELSE "read"
  /\ UNCHANGED <<size, open, main, signals>>

\* EAGAIN is tried again; a signal is counted down.
Read ==
  /\ worker = "read" /\ counter > -Bound
  /\ event = 1 /\ event' = 0
  /\ counter' = counter - 1
  /\ worker' = IF counter' = 0 THEN "close" ELSE "read"
  /\ UNCHANGED <<size, open, main, signals>>

WorkerClose ==
  /\ worker = "close"
  /\ open' = FALSE /\ worker' = "done"
  /\ UNCHANGED <<size, event, main, counter, signals>>

-----------------------------------------------------------------------------
MainStep == StoreLimit \/ Poll \/ Write \/ MainClose
WorkerStep == LoadCounter \/ ZeroSize \/ Read \/ WorkerClose
Next == MainStep \/ WorkerStep

\* Two threads of one process.
Spec == Init /\ [][Next]_vars /\ WF_vars(MainStep) /\ WF_vars(WorkerStep)

-----------------------------------------------------------------------------
TypeOK ==
  /\ size \in {0, Max} /\ event \in {0, 1} /\ open \in BOOLEAN
  /\ main \in {"limit", "poll", "write", "close", "done"}
  /\ worker \in {"load", "zero", "read", "close", "done"}
  /\ counter \in -Bound..Max

\* `assert(size[0] === 0)`: whenever the main thread gets there, however the
\* two plain stores of the word fell.
EndsAtZero == main = "done" => size = 0

\* No signal is merged with another: the worker that ended has had Max of
\* them, and at most one more was under way.
EachSignalCounts == main = "done" => signals \in {Max, Max + 1}

\* The worker has as many signals as it counted down, and the word is left as the
\* assertion wants it.
Signals == EndsAtZero /\ EachSignalCounts

\* Why: what was written and not yet read is in the eventfd, and a worker that
\* still counts down, or has, took the limit and has cleared the word since.
InFlight ==
  /\ worker \in {"load", "zero"} => signals = event
  /\ worker = "load" => counter = 0
  /\ worker = "zero" => counter \in {0, Max}
  /\ worker = "read" /\ counter > 0 => signals = Max - counter + event
  /\ worker \in {"close", "done"} => counter = 0 /\ signals = Max + event
WordCleared ==
  /\ main = "limit" => size = 0 /\ counter <= 0 /\ worker \notin {"close", "done"}
  /\ worker = "read" /\ counter > 0 => size = 0
  /\ worker \in {"close", "done"} => size = 0
ClosedByWorker ==
  /\ main \in {"close", "done"} => worker = "done"
  /\ ~open => worker = "done"
IInv == TypeOK /\ signals \in Nat /\ InFlight /\ WordCleared /\ ClosedByWorker

\* A worker that took the limit ends, and the main thread after it.
LimitTaken == counter = Max
Finished == main = "done"
Finishes == LimitTaken ~> Finished
=============================================================================
