------------------------------- MODULE Launch -------------------------------
(***************************************************************************)
(* workers/launch.js: processes are started with their output in pipes and *)
(* looked at in rounds, one second apart.  A process that runs is counted  *)
(* and its output printed; one that has ended has its output printed and   *)
(* is told to exit, in every round until none runs.                        *)
(***************************************************************************)
EXTENDS Naturals

CONSTANTS
  N,         \* processes
  Lines      \* what each writes

LaunchAssumption == N \in Nat \ {0} /\ Lines \in Nat

VARIABLES
  state,     \* running, ended, gone (reaped by poll)
  written,   \* by each process
  printed,   \* of the output of each
  cursor,    \* the next process of the round
  step,      \* poll, dumpRunning, dumpEnded: what is done with it
  running,   \* the count of the round
  finished   \* whether the loop was left

vars == <<state, written, printed, cursor, step, running, finished>>

\* All are started before the first round.
Init ==
  /\ state = [p \in 1..N |-> "running"] /\ written = [p \in 1..N |-> 0]
  /\ printed = [p \in 1..N |-> 0]
  /\ cursor = 1 /\ step = "poll" /\ running = 0 /\ finished = FALSE

Write(p) ==
  /\ state[p] = "running" /\ written[p] < Lines
  /\ written' = [written EXCEPT ![p] = @ + 1]
  /\ UNCHANGED <<state, printed, cursor, step, running, finished>>

End(p) ==
  /\ state[p] = "running" /\ state' = [state EXCEPT ![p] = "ended"]
  /\ UNCHANGED <<written, printed, cursor, step, running, finished>>

Poll ==
  /\ ~finished /\ cursor <= N /\ step = "poll"
  /\ IF state[cursor] = "running"
     THEN step' = "dumpRunning" /\ running' = running + 1 /\ UNCHANGED state
     ELSE step' = "dumpEnded" /\ state' = [state EXCEPT ![cursor] = "gone"] /\ UNCHANGED running
  /\ UNCHANGED <<written, printed, cursor, finished>>

\* Faulty variant: what an ended process has left in its pipes is not printed.
DumpNotEnded ==
  /\ step # "poll" /\ step' = "poll" /\ cursor' = cursor + 1
  /\ printed' = IF step = "dumpRunning" THEN [printed EXCEPT ![cursor] = written[cursor]] ELSE printed
  /\ UNCHANGED <<state, written, running, finished>>

\* dump: what is in the pipes by now.
Dump ==
  /\ step # "poll" /\ step' = "poll" /\ cursor' = cursor + 1
  /\ printed' = [printed EXCEPT ![cursor] = written[cursor]]
  /\ UNCHANGED <<state, written, running, finished>>

Round ==
  /\ ~finished /\ cursor > N
  /\ finished' = (running = 0)
  /\ cursor' = 1 /\ running' = 0
  /\ UNCHANGED <<state, written, printed, step>>

Next == Poll \/ Dump \/ Round \/ \E p \in 1..N : Write(p) \/ End(p)
Spec == Init /\ [][Next]_vars /\ WF_vars(Poll \/ Dump \/ Round)

-----------------------------------------------------------------------------
\* The loop is left with every process ended, reaped and all it wrote printed,
\* also what it wrote between the poll that found it running and its end.
Reaped == finished => \A p \in 1..N : state[p] = "gone" /\ printed[p] = written[p]

\* Why: while a round has met no process that runs, those it has passed are gone
\* and all of theirs is printed.
TypeOK ==
  /\ state \in [1..N -> {"running", "ended", "gone"}]
  /\ written \in [1..N -> Nat] /\ printed \in [1..N -> Nat]
  /\ cursor \in 1..N+1 /\ step \in {"poll", "dumpRunning", "dumpEnded"}
  /\ running \in Nat /\ finished \in BOOLEAN
DoneSoFar ==
  /\ running = 0 => \A p \in 1..cursor - 1 : state[p] = "gone" /\ printed[p] = written[p]
  /\ step # "poll" => cursor <= N /\ ~finished
  /\ step = "dumpRunning" => running > 0
  /\ step = "dumpEnded" => state[cursor] = "gone"
IInv == TypeOK /\ DoneSoFar /\ Reaped

\* When the processes have ended, so does the loop.
NoneLeft == \A p \in 1..N : state[p] # "running"
Ended == finished
Ends == NoneLeft ~> Ended
=============================================================================
