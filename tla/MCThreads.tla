----------------------------- MODULE MCThreads ------------------------------
(***************************************************************************)
(* The programs that start threads and processes, those of threads/ and    *)
(* workers/ and http/threads.js, isolates.js, spawn.js and spawn2.js,      *)
(* checked in one run. A behaviour is one of theirs.                       *)
(***************************************************************************)
EXTENDS Integers, OneOf

CONSTANTS
  EventsLimit, EventsBound,      \* wakeups of events.js, counts followed to
  Events4Limit, Events4Bound,    \* the same of events4.js
  SignalsLimit, SignalsBound,    \* signals of events3.js, counts followed to
  LastNumber, TopNumber,         \* events2.js: where its worker and its main stop
  Worker, Additions, WordValues, \* atomics.js: workers, limit, values of a word
  Threads,                       \* of joinmany.js and the programs like it
  PairRounds,                    \* of lo-worker.js and lo-worker-async.js
  Processes, OutputLines,        \* of launch.js: what each process writes
  SpawnCount, Spawn2Count        \* children of spawn.js and of spawn2.js

\* A worker that missed the limit is followed as far as the bound.
Ev(p) == INSTANCE Events WITH Program <- p,
   Max <- IF p = "events" THEN EventsLimit ELSE Events4Limit,
   Bound <- IF p = "events" THEN EventsBound ELSE Events4Bound,
   size <- s1, main <- s2, worker <- s3, max <- s4, counter <- s5, calls <- s6
Ec == INSTANCE EventCount WITH Max <- SignalsLimit, Bound <- SignalsBound,
   size <- s1, event <- s2, open <- s3, main <- s4, worker <- s5, counter <- s6, signals <- s7
Eb == INSTANCE EventBuffer WITH Stop <- LastNumber, Top <- TopNumber,
   i <- s1, digits <- s2,
   length <- s3, event <- s4, main <- s5, at <- s6, worker <- s7,
   taken <- s8, seen <- s9, handled <- s10
At == INSTANCE Atomics WITH Max <- Additions, Values <- WordValues,
   shared0 <- s1, shared1 <- s2, main <- s3, counter <- s4, pc <- s5, count <- s6, max <- s7
Wk == INSTANCE Workers WITH N <- Threads,
   Programs <- {"joinmany", "joinmany2", "threads", "isolates", "test"},
   program <- s1, phase <- s2, thread <- s3, live <- s4, running <- s5,
   cursor <- s6, freed <- s7
Pw == INSTANCE PairWorker WITH Rounds <- PairRounds, stream <- s1, round <- s2,
   host <- s3, worker <- s4, toWorker <- s5, toHost <- s6
Ln == INSTANCE Launch WITH N <- Processes, Lines <- OutputLines, state <- s1,
   written <- s2, printed <- s3, cursor <- s4, step <- s5, running <- s6,
   finished <- s7
Children(p) == IF p = "spawn" THEN SpawnCount ELSE Spawn2Count
Sp(p) == INSTANCE Supervisor WITH Count <- Children(p), Program <- p, proc <- s1,
   ignored <- s2, forked <- s3, waited <- s4, promise <- s5, timers <- s6,
   monitors <- s7, samples <- s8, phase <- s9, iter <- s10, killed <- s11

Wakers == {"events", "events4"}
Spawners == {"spawn", "spawn2"}

ASSUME Assumptions ==
  /\ \A p \in Wakers : Ev(p)!MaxAssumption
  /\ Ec!MaxAssumption /\ Eb!TopAssumption /\ At!AtomicsAssumption
  /\ Wk!WorkersAssumption /\ Pw!RoundsAssumption /\ Ln!LaunchAssumption
  /\ \A p \in Spawners : Sp(p)!CountAssumption

-----------------------------------------------------------------------------
Init ==
  \/ \E p \in Wakers : subject = p /\ Ev(p)!Init /\ Off7
  \/ subject = "events3" /\ Ec!Init /\ Off8
  \/ subject = "events2" /\ Eb!Init /\ Off11
  \/ subject = "atomics" /\ At!Init /\ Off8
  \/ subject = "workers" /\ Wk!Init /\ Off8
  \/ subject = "pair" /\ Pw!Init /\ Off7
  \/ subject = "launch" /\ Ln!Init /\ Off8
  \/ \E p \in Spawners : subject = p /\ Sp(p)!Init /\ Off12

EvMain == \E p \in Wakers : subject = p /\ Ev(p)!MainStep /\ UNCHANGED Rest7
EvWorker == \E p \in Wakers : subject = p /\ Ev(p)!WorkerStep /\ UNCHANGED Rest7
EcMain == subject = "events3" /\ Ec!MainStep /\ UNCHANGED Rest8
EcWorker == subject = "events3" /\ Ec!WorkerStep /\ UNCHANGED Rest8
EbStep == subject = "events2" /\ Eb!Next /\ UNCHANGED Rest11
AtMain == subject = "atomics" /\ At!MainStep /\ UNCHANGED Rest8
AtWorker(w) == subject = "atomics" /\ At!WorkerStep(w) /\ UNCHANGED Rest8
WkMain == subject = "workers" /\ Wk!MainStep /\ UNCHANGED Rest8
WkStartFails == subject = "workers" /\ Wk!StartFails /\ UNCHANGED Rest8
WkEnd(i) == subject = "workers" /\ Wk!End(i) /\ UNCHANGED Rest8
PwStep == subject = "pair" /\ Pw!Next /\ UNCHANGED Rest7
LnLook == subject = "launch" /\ (Ln!Poll \/ Ln!Dump \/ Ln!Round) /\ UNCHANGED Rest8
LnProcess(p) == subject = "launch" /\ (Ln!Write(p) \/ Ln!End(p)) /\ UNCHANGED Rest8
SpMain == \E p \in Spawners : subject = p /\ Sp(p)!MainStep /\ UNCHANGED Rest12
SpOpenFails == \E p \in Spawners : subject = p /\ Sp(p)!OpenFails /\ UNCHANGED Rest12
SpChild(p, i) == subject = p /\ Sp(p)!ChildStep(i) /\ UNCHANGED Rest12
SpPoll(p, i) == subject = p /\ Sp(p)!Poll(i) /\ UNCHANGED Rest12
SpKilled(i) == subject = "spawn" /\ Sp("spawn")!Killed(i) /\ UNCHANGED Rest12

Main ==
  \/ EvMain \/ EcMain \/ AtMain \/ WkMain \/ PwStep \/ LnLook \/ SpMain
Signalled == EvWorker \/ EcWorker

Next ==
  \/ Main \/ Signalled \/ EbStep \/ WkStartFails \/ SpOpenFails
  \/ \E w \in Worker : AtWorker(w)
  \/ \E i \in 1..Threads : WkEnd(i)
  \/ \E p \in 1..Processes : LnProcess(p)
  \/ \E p \in Spawners : \E i \in 1..Children(p) : SpChild(p, i)

\* The fairness of each program's own specification.
Fairness ==
  /\ WF_all(Main) /\ WF_all(Signalled)
  /\ \A w \in Worker : WF_all(AtWorker(w))
  /\ \A i \in 1..Threads : WF_all(WkEnd(i))
  /\ \A p \in Spawners : \A i \in 1..Children(p) : WF_all(SpPoll(p, i))
  /\ \A i \in 1..SpawnCount : WF_all(SpKilled(i))

Spec == Init /\ [][Next]_all /\ Fairness

-----------------------------------------------------------------------------
TypeOK ==
  /\ \A p \in Wakers : subject = p => Ev(p)!TypeOK
  /\ subject = "events3" => Ec!TypeOK
  /\ subject = "workers" => Wk!TypeOK
  /\ subject = "launch" => Ln!TypeOK
  /\ \A p \in Spawners : subject = p => Sp(p)!TypeOK

\* events.js, events3.js and events4.js: what wakeups and signals do to the
\* counts; events2.js: how far the main thread gets ahead of the worker.
Signals ==
  /\ \A p \in Wakers : subject = p => Ev(p)!Signals
  /\ subject = "events3" => Ec!Signals
  /\ subject = "events2" => Eb!Signals

\* atomics.js: no addition is lost, every worker finds the limit, and the
\* assertions at the end hold.
Sums == subject = "atomics" => At!Sums

\* joinmany.js, joinmany2.js: a worker is forgotten when it is joined, and only
\* then; threads.js, isolates.js: contexts outlive their threads; lo-worker.js
\* and lo-worker-async.js: the messages of two rounds do not mix.
JoinedOnce ==
  /\ subject = "workers" => Wk!JoinedOnce
  /\ subject = "pair" => Pw!JoinedOnce

\* launch.js: all that the processes wrote is printed before the loop is left.
\* spawn2.js: a child is polled and monitored while its promise is pending, and
\* none is left at the end.
Reaped ==
  /\ subject = "launch" => Ln!Reaped
  /\ \A p \in Spawners : subject = p => Sp(p)!Reaped

\* events.js, events3.js, events4.js: the program ends once its worker has taken
\* the limit.
Taken ==
  \/ \E p \in Wakers : subject = p /\ Ev(p)!LimitTaken
  \/ subject = "events3" /\ Ec!LimitTaken
Met ==
  \/ \E p \in Wakers : subject = p /\ Ev(p)!Finished
  \/ subject = "events3" /\ Ec!Finished
Finishes == Taken ~> Met

\* Every program that waits for its threads, its worker or its processes ends,
\* launch.js and spawn2.js when the processes have; spawn.js ends every child it
\* has forked.
Due ==
  \/ subject \in {"atomics", "workers", "pair"}
  \/ subject = "launch" /\ Ln!NoneLeft
  \/ subject = "spawn2" /\ Sp("spawn2")!NoneLives
Over ==
  \/ subject = "atomics" /\ At!Ended
  \/ subject = "workers" /\ Wk!Ended
  \/ subject = "pair" /\ Pw!Ended
  \/ subject = "launch" /\ Ln!Ended
  \/ subject = "spawn2" /\ Sp("spawn2")!Ended
NoneRuns == (subject = "spawn" /\ Sp("spawn")!Looping) ~> (subject = "spawn" /\ Sp("spawn")!Alive = {})
Ends == (Due ~> Over) /\ NoneRuns
=============================================================================
