------------------------------ MODULE Workers -------------------------------
(***************************************************************************)
(* Programs that start threads and join them.  joinmany.js and joinmany2.js*)
(* start N workers and sweep over them, again and again, with a join that  *)
(* does not wait; the one keeps the tids and a count of them, the other a  *)
(* Set.  threads.js starts N threads in one context and joins them in      *)
(* order; isolates.js joins each before it starts the next.  test.js does  *)
(* not get as far: its constructor names a script_path that is not there.  *)
(***************************************************************************)
EXTENDS Integers, FiniteSets

CONSTANTS
  N,         \* threads
  Programs   \* those to run

WorkersAssumption ==
  /\ N \in Nat \ {0}
  /\ Programs \subseteq {"joinmany", "joinmany2", "threads", "isolates", "test"}

VARIABLES
  program,   \* the one that runs
  phase,     \* start, poll, join, free, done, thrown
  thread,    \* none, running, ended, joined
  live,      \* workers whose tid is not 0, or that are in the Set
  running,   \* the count that joinmany.js keeps
  cursor,    \* the next thread to start, to poll or to join
  freed      \* whether the contexts of the threads were destroyed

vars == <<program, phase, thread, live, running, cursor, freed>>

Sweeps == program \in {"joinmany", "joinmany2"}

\* The contexts are created before the first thread is.
Init ==
  /\ program \in Programs
  /\ phase = IF program = "test" THEN "thrown" ELSE "start"
  /\ thread = [i \in 1..N |-> "none"]
  /\ live = 1..N /\ running = N /\ cursor = 1 /\ freed = FALSE

\* Joined: what pthread_join and pthread_tryjoin do to a thread that has ended.
Joined(i) == thread[i] = "ended" /\ thread' = [thread EXCEPT ![i] = "joined"]

\* threads.js: spawn fails, the assertion throws.
StartFails ==
  /\ phase = "start" /\ program = "threads"
  /\ phase' = "thrown"
  /\ UNCHANGED <<program, thread, live, running, cursor, freed>>

Start ==
  /\ phase = "start"
  /\ thread' = [thread EXCEPT ![cursor] = "running"]
  /\ IF program = "isolates" THEN phase' = "join" /\ UNCHANGED cursor
     ELSE IF cursor < N      THEN cursor' = cursor + 1 /\ UNCHANGED phase
     ELSE cursor' = 1 /\ phase' = IF Sweeps THEN "poll" ELSE "join"
  /\ UNCHANGED <<program, live, running, freed>>

\* Faulty variant: a thread that is busy is counted as one that has ended.
PollTakesBusy ==
  /\ phase = "poll" /\ cursor <= N /\ cursor' = cursor + 1
  /\ IF cursor \in live
     THEN /\ thread' = [thread EXCEPT ![cursor] = IF @ = "ended" THEN "joined" ELSE @]
          /\ live' = live \ {cursor} /\ running' = running - 1
     ELSE UNCHANGED <<thread, live, running>>
  /\ UNCHANGED <<program, phase, freed>>

\* One worker of the sweep: skipped, busy, or joined and forgotten.
Poll ==
  /\ phase = "poll" /\ cursor <= N /\ cursor' = cursor + 1
  /\ IF cursor \in live /\ thread[cursor] = "ended"
     THEN Joined(cursor) /\ live' = live \ {cursor} /\ running' = running - 1
     ELSE UNCHANGED <<thread, live, running>>
  /\ UNCHANGED <<program, phase, freed>>

Swept ==
  /\ phase = "poll" /\ cursor > N
  /\ IF (IF program = "joinmany" THEN running = 0 ELSE live = {})
     THEN phase' = "free" /\ UNCHANGED cursor ELSE cursor' = 1 /\ UNCHANGED phase
  /\ UNCHANGED <<program, thread, live, running, freed>>

\* Faulty variant: a thread that still runs is not waited for.
JoinNoWait ==
  /\ phase = "join"
  /\ thread' = [thread EXCEPT ![cursor] = IF @ = "ended" THEN "joined" ELSE @]
  /\ IF cursor < N THEN cursor' = cursor + 1 /\ phase' = IF program = "isolates" THEN "start" ELSE phase
                   ELSE phase' = "free" /\ UNCHANGED cursor
  /\ UNCHANGED <<program, live, running, freed>>

\* join waits for the thread to end.
Join ==
  /\ phase = "join" /\ Joined(cursor)
  /\ IF cursor < N THEN cursor' = cursor + 1 /\ phase' = IF program = "isolates" THEN "start" ELSE phase
                   ELSE phase' = "free" /\ UNCHANGED cursor
  /\ UNCHANGED <<program, live, running, freed>>

\* joinmany2.js leaves its workers to the collector.
Free ==
  /\ phase = "free" /\ phase' = "done"
  /\ freed' = (program # "joinmany2")
  /\ UNCHANGED <<program, thread, live, running, cursor>>

End(i) ==
  /\ thread[i] = "running" /\ thread' = [thread EXCEPT ![i] = "ended"]
  /\ UNCHANGED <<program, phase, live, running, cursor, freed>>

MainStep == Start \/ Poll \/ Swept \/ Join \/ Free
Next == StartFails \/ MainStep \/ \E i \in 1..N : End(i)

\* The scripts end: they sleep, print or serve a bounded number of requests.
Spec == Init /\ [][Next]_vars /\ WF_vars(MainStep) /\ \A i \in 1..N : WF_vars(End(i))

-----------------------------------------------------------------------------
\* A context is not destroyed before the threads that were started in it have
\* been joined.
FreedAfterJoin == freed => \A i \in 1..N : thread[i] = "joined"

\* A thread is joined exactly when its worker is forgotten, and the count is the
\* number of those that are left: no thread is joined a second time.
Counted ==
  Sweeps => /\ running = Cardinality(live)
            /\ \A i \in 1..N : i \in live <=> thread[i] # "joined"

\* Workers are forgotten with the join of their threads, contexts after it.
JoinedOnce == FreedAfterJoin /\ Counted

\* Why: the threads that were passed by a join that waits are joined, and a
\* sweep is left when none is left over.
TypeOK ==
  /\ program \in Programs /\ phase \in {"start", "poll", "join", "free", "done", "thrown"}
  /\ thread \in [1..N -> {"none", "running", "ended", "joined"}]
  /\ live \subseteq 1..N /\ running \in Int /\ cursor \in 1..N+1 /\ freed \in BOOLEAN
JoinedSoFar ==
  IF Sweeps
  THEN phase # "join" /\ (phase = "start" => live = 1..N)
  ELSE /\ phase # "poll"
       /\ phase = "join" \/ (phase = "start" /\ program = "isolates")
            => \A i \in 1..cursor - 1 : thread[i] = "joined"
AllJoined ==
  /\ phase \in {"start", "join"} => cursor <= N
  /\ phase \in {"free", "done"} => \A i \in 1..N : thread[i] = "joined"
  /\ freed => phase = "done"
IInv == TypeOK /\ JoinedSoFar /\ AllJoined /\ Counted

\* The program comes to its end with all threads joined, unless it threw.
Ended == phase = "thrown" \/ (phase = "done" /\ \A i \in 1..N : thread[i] = "joined")
Ends == <>Ended
=============================================================================
