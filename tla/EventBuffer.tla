----------------------------- MODULE EventBuffer ----------------------------
(***************************************************************************)
(* threads/events2.js: a main thread encodes 0, 1, 2, ... into one buffer  *)
(* and signals each number through a blocking eventfd; a worker decodes    *)
(* and evaluates the buffer once for each signal.  Nothing else orders the *)
(* accesses to the buffer.  Numbers are written in base 2, one digit per   *)
(* step, behind the word that holds the number of digits.                  *)
(***************************************************************************)
EXTENDS Integers, Sequences, SequencesExt

CONSTANTS
  Stop,   \* the number that ends the worker (100000 in the source)
  Top     \* the last number that is followed

TopAssumption == Top \in 0..7 /\ Stop \in Nat

VARIABLES
  i,        \* the number the main thread is at
  digits,   \* the buffer: digits, and their number
  length,
  event,    \* whether the eventfd is at its limit
  main,     \* encode, length, write, poll, done
  at,       \* the digit to be written
  worker,   \* read, length, eval, done
  taken,    \* the length the worker loaded
  seen,     \* what it evaluated last
  handled   \* signals it has handled

vars == <<i, digits, length, event, main, at, worker, taken, seen, handled>>

Width(v) == IF v < 2 THEN 1 ELSE IF v < 4 THEN 2 ELSE 3
Digit(v, k) == (v \div 2 ^ (Width(v) - k)) % 2
Number(ds) == FoldLeft(LAMBDA n, d : 2 * n + d, 0, ds)

Init ==
  /\ i = 0 /\ digits = <<0, 0, 0>> /\ length = 0 /\ event = 0
  /\ main = "encode" /\ at = 1
  /\ worker = "read" /\ taken = 0 /\ seen = -1 /\ handled = 0

-----------------------------------------------------------------------------
Encode ==
  /\ main = "encode"
  /\ digits' = [digits EXCEPT ![at] = Digit(i, at)]
  /\ IF at = Width(i) THEN main' = "length" /\ at' = 1
                      ELSE at' = at + 1 /\ UNCHANGED main
  /\ UNCHANGED <<i, length, event, worker, taken, seen, handled>>

SetLength ==
  /\ main = "length"
  /\ length' = Width(i) /\ main' = "write"
  /\ UNCHANGED <<i, digits, event, at, worker, taken, seen, handled>>

\* Faulty variant: a signal of 1, which only adds to the eventfd.
WriteOne ==
  /\ main = "write"
  /\ event' = 1 /\ main' = "poll"
  /\ UNCHANGED <<i, digits, length, at, worker, taken, seen, handled>>

\* The write blocks until the worker has read the signal before.
Write ==
  /\ main = "write"
  /\ event = 0
  /\ event' = 1 /\ main' = "poll"
  /\ UNCHANGED <<i, digits, length, at, worker, taken, seen, handled>>

Poll ==
  /\ main = "poll"
  /\ \/ worker = "done" /\ main' = "done" /\ UNCHANGED i
     \/ worker # "done" /\ i < Top /\ main' = "encode" /\ i' = i + 1
  /\ UNCHANGED <<digits, length, event, at, worker, taken, seen, handled>>

-----------------------------------------------------------------------------
Read ==
  /\ worker = "read" /\ event = 1
  /\ event' = 0 /\ worker' = "length"
  /\ UNCHANGED <<i, digits, length, main, at, taken, seen, handled>>

LoadLength ==
  /\ worker = "length"
  /\ taken' = length /\ worker' = "eval"
  /\ UNCHANGED <<i, digits, length, event, main, at, seen, handled>>

Eval ==
  /\ worker = "eval"
  /\ seen' = Number(SubSeq(digits, 1, taken)) /\ handled' = handled + 1
  /\ worker' = IF seen' = Stop THEN "done" ELSE "read"
  /\ UNCHANGED <<i, digits, length, event, main, at, taken>>

Next == Encode \/ SetLength \/ Write \/ Poll \/ Read \/ LoadLength \/ Eval

Spec == Init /\ [][Next]_vars

-----------------------------------------------------------------------------
\* The blocking write keeps the main thread close: it is never more than two
\* numbers beyond what the worker has handled.
Signals == i <= handled + 2

\* Why: the signals written are those read and the one in the eventfd.
Written == i + IF main \in {"poll", "done"} THEN 1 ELSE 0
Taken == handled + IF worker \in {"length", "eval"} THEN 1 ELSE 0
IInv ==
  /\ i \in Nat /\ handled \in Nat /\ event \in {0, 1}
  /\ main \in {"encode", "length", "write", "poll", "done"}
  /\ worker \in {"read", "length", "eval", "done"}
  /\ Written = Taken + event
=============================================================================
