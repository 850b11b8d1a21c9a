--------------------------- MODULE ThreadsProofs ----------------------------
(***************************************************************************)
(* What the programs of MCThreads keep, for every number of threads,       *)
(* processes, children, signals and rounds.  Each program has an inductive *)
(* invariant of its own, IInv of its module; a behaviour is one program's. *)
(***************************************************************************)
EXTENDS MCThreads, Sequences, FiniteSetTheorems, TLAPS

-----------------------------------------------------------------------------
(* A step of the run is a step of its subject.                             *)

LEMMA Steps ==
  ASSUME [Next]_all
  PROVE  /\ subject' = subject
         /\ \A p \in Wakers : subject = p => [Ev(p)!Next]_(Ev(p)!vars)
         /\ subject = "events3" => [Ec!Next]_(Ec!vars)
         /\ subject = "events2" => [Eb!Next]_(Eb!vars)
         /\ subject = "atomics" => [At!Next]_(At!vars)
         /\ subject = "workers" => [Wk!Next]_(Wk!vars)
         /\ subject = "pair" => [Pw!Next]_(Pw!vars)
         /\ subject = "launch" => [Ln!Next]_(Ln!vars)
         /\ \A p \in Spawners : subject = p => [Sp(p)!Next]_(Sp(p)!vars)
<1> USE DEF Wakers, Spawners, Rest2, Rest3, Rest4, Rest5, Rest6, Rest7, Rest8, Rest9,
     Rest10, Rest11, Rest12, Rest13
<1>1. CASE EvMain \/ EvWorker
  BY <1>1 DEF EvMain, EvWorker, Ev!Next
<1>2. CASE EcMain \/ EcWorker
  BY <1>2 DEF EcMain, EcWorker, Ec!Next
<1>3. CASE EbStep
  BY <1>3 DEF EbStep
<1>4. CASE AtMain \/ \E w \in Worker : AtWorker(w)
  BY <1>4 DEF AtMain, AtWorker, At!Next
<1>5. CASE WkMain \/ WkStartFails \/ \E i \in 1..Threads : WkEnd(i)
  BY <1>5 DEF WkMain, WkStartFails, WkEnd, Wk!Next
<1>6. CASE PwStep
  BY <1>6 DEF PwStep
<1>7. CASE LnLook \/ \E p \in 1..Processes : LnProcess(p)
  BY <1>7 DEF LnLook, LnProcess, Ln!Next
<1>8. CASE SpMain \/ SpOpenFails \/ \E p \in Spawners : \E i \in 1..Children(p) : SpChild(p, i)
  BY <1>8 DEF SpMain, SpOpenFails, SpChild, Sp!Next, Sp!Child
<1>9. CASE UNCHANGED all
  BY <1>9 DEF all, Ev!vars, Ec!vars, Eb!vars, At!vars, Wk!vars, Pw!vars, Ln!vars, Sp!vars
<1> QED BY <1>1, <1>2, <1>3, <1>4, <1>5, <1>6, <1>7, <1>8, <1>9 DEF Next, Main, Signalled

-----------------------------------------------------------------------------
(* events.js and events4.js.                                               *)

LEMMA EventsStart == ASSUME NEW p \in Wakers, Ev(p)!Init PROVE Ev(p)!IInv
  BY Assumptions DEF Wakers, Ev!MaxAssumption, Ev!Init, Ev!IInv, Ev!TypeOK, Ev!LimitKept,
     Ev!FlagIsCall, Ev!Signals, Ev!CountsCalls, Ev!NeverSleeps, Ev!LimitWord

\* No step of either thread counts a wakeup that was not made.
LEMMA EventsKeep ==
  ASSUME NEW p \in Wakers, Ev(p)!IInv, [Ev(p)!Next]_(Ev(p)!vars)
  PROVE  Ev(p)!IInv'
<1> Ev(p)!MaxAssumption /\ p \in {"events", "events4"}
  BY Assumptions DEF Wakers
<1> USE DEF Ev!MaxAssumption, Ev!IInv, Ev!TypeOK, Ev!LimitKept, Ev!FlagIsCall,
     Ev!Signals, Ev!CountsCalls, Ev!NeverSleeps, Ev!LimitWord
<1>1. CASE Ev(p)!StoreLimit
  BY <1>1 DEF Ev!StoreLimit
<1>2. CASE Ev(p)!Poll
  BY <1>2 DEF Ev!Poll
<1>3. CASE Ev(p)!StoreFlag
  BY <1>3 DEF Ev!StoreFlag
<1>4. CASE Ev(p)!Notify
  BY <1>4 DEF Ev!Notify
<1>5. CASE Ev(p)!LoadLimit
  BY <1>5 DEF Ev!LoadLimit
<1>6. CASE Ev(p)!Wait
  BY <1>6 DEF Ev!Wait
<1>7. CASE Ev(p)!Count
  BY <1>7 DEF Ev!Count
<1>8. CASE Ev(p)!Clear
  BY <1>8 DEF Ev!Clear
<1>9. CASE UNCHANGED Ev(p)!vars
  BY <1>9 DEF Ev!vars
<1> QED BY <1>1, <1>2, <1>3, <1>4, <1>5, <1>6, <1>7, <1>8, <1>9
    DEF Ev!Next, Ev!MainStep, Ev!WorkerStep

-----------------------------------------------------------------------------
(* events3.js.                                                             *)

LEMMA EventCountStart == ASSUME Ec!Init PROVE Ec!IInv
  BY Assumptions DEF Ec!MaxAssumption, Ec!Init, Ec!IInv, Ec!TypeOK, Ec!InFlight,
     Ec!WordCleared, Ec!ClosedByWorker

\* The signals written are those read and the one in the eventfd.
LEMMA EventCountKeep ==
  ASSUME Ec!IInv, [Ec!Next]_(Ec!vars)
  PROVE  Ec!IInv'
<1> Ec!MaxAssumption
  BY Assumptions
<1> USE DEF Ec!MaxAssumption, Ec!IInv, Ec!TypeOK, Ec!InFlight, Ec!WordCleared, Ec!ClosedByWorker
<1>1. CASE Ec!StoreLimit
  BY <1>1 DEF Ec!StoreLimit
<1>2. CASE Ec!Poll
  BY <1>2 DEF Ec!Poll
<1>3. CASE Ec!Write
  BY <1>3 DEF Ec!Write
<1>4. CASE Ec!MainClose
  BY <1>4 DEF Ec!MainClose
<1>5. CASE Ec!LoadCounter
  BY <1>5 DEF Ec!LoadCounter
<1>6. CASE Ec!ZeroSize
  BY <1>6 DEF Ec!ZeroSize
<1>7. CASE Ec!Read
  BY <1>7 DEF Ec!Read
<1>8. CASE Ec!WorkerClose
  BY <1>8 DEF Ec!WorkerClose
<1>9. CASE UNCHANGED Ec!vars
  BY <1>9 DEF Ec!vars
<1> QED BY <1>1, <1>2, <1>3, <1>4, <1>5, <1>6, <1>7, <1>8, <1>9
    DEF Ec!Next, Ec!MainStep, Ec!WorkerStep

-----------------------------------------------------------------------------
(* events2.js.                                                             *)

LEMMA EventBufferStart == ASSUME Eb!Init PROVE Eb!IInv
  BY DEF Eb!Init, Eb!IInv, Eb!Written, Eb!Taken

\* The write that blocks keeps the main thread within two numbers of the worker.
LEMMA EventBufferKeep ==
  ASSUME Eb!IInv, [Eb!Next]_(Eb!vars)
  PROVE  Eb!IInv'
<1> USE DEF Eb!IInv, Eb!Written, Eb!Taken
<1>1. CASE Eb!Encode
  BY <1>1 DEF Eb!Encode
<1>2. CASE Eb!SetLength
  BY <1>2 DEF Eb!SetLength
<1>3. CASE Eb!Write
  BY <1>3 DEF Eb!Write
<1>4. CASE Eb!Poll
  BY <1>4 DEF Eb!Poll
<1>5. CASE Eb!Read
  BY <1>5 DEF Eb!Read
<1>6. CASE Eb!LoadLength
  BY <1>6 DEF Eb!LoadLength
<1>7. CASE Eb!Eval
  BY <1>7 DEF Eb!Eval
<1>8. CASE UNCHANGED Eb!vars
  BY <1>8 DEF Eb!vars
<1> QED BY <1>1, <1>2, <1>3, <1>4, <1>5, <1>6, <1>7, <1>8 DEF Eb!Next

-----------------------------------------------------------------------------
(* joinmany.js, joinmany2.js, threads.js, isolates.js and test.js.         *)

\* The count of joinmany.js is right after each worker that is forgotten, and is
\* 0 when none is left.
LEMMA CountLeft ==
  ASSUME NEW S \in SUBSET (1..Threads)
  PROVE  /\ Wk!Cardinality(S) \in Nat
         /\ Wk!Cardinality(S) = 0 <=> S = {}
         /\ S = 1..Threads => Wk!Cardinality(S) = Threads
         /\ \A i \in S : Wk!Cardinality(S \ {i}) = Wk!Cardinality(S) - 1
<1>1. Threads \in Nat \ {0}
  BY Assumptions DEF Wk!WorkersAssumption
<1>2. IsFiniteSet(1..Threads) /\ Cardinality(1..Threads) = Threads
  BY <1>1, FS_Interval
<1>3. IsFiniteSet(S)
  BY <1>2, FS_Subset
<1>4. /\ Cardinality(S) \in Nat
      /\ Cardinality(S) = 0 <=> S = {}
      /\ \A i \in S : Cardinality(S \ {i}) = Cardinality(S) - 1
  BY <1>3, FS_CardinalityType, FS_EmptySet, FS_RemoveElement
<1>5. \A T : Wk!Cardinality(T) = Cardinality(T)
  BY DEF Cardinality, Wk!Cardinality, IsFiniteSet, Wk!IsFiniteSet
<1> QED BY <1>2, <1>4, <1>5

LEMMA WorkersStart == ASSUME Wk!Init PROVE Wk!IInv
<1>1. Threads \in Nat \ {0}
  BY Assumptions DEF Wk!WorkersAssumption
<1>2. Wk!TypeOK
  <2>1. s7 \in BOOLEAN
    BY Zenon DEF Wk!Init
  <2> QED BY <1>1, <2>1 DEF Wk!Init, Wk!TypeOK
<1>3. Wk!JoinedSoFar /\ Wk!AllJoined
  BY <1>1 DEF Wk!Init, Wk!JoinedSoFar, Wk!AllJoined, Wk!Sweeps
<1>4. Wk!Counted
  BY CountLeft DEF Wk!Init, Wk!Counted
<1> QED BY <1>2, <1>3, <1>4 DEF Wk!IInv

\* A thread is joined when its worker is forgotten, and those a join has passed
\* are joined.
LEMMA WorkersKeep ==
  ASSUME Wk!IInv, [Wk!Next]_(Wk!vars)
  PROVE  Wk!IInv'
<1> Threads \in Nat \ {0}
  BY Assumptions DEF Wk!WorkersAssumption
<1> USE DEF Wk!IInv, Wk!TypeOK, Wk!JoinedSoFar, Wk!AllJoined,
     Wk!Counted, Wk!Sweeps
<1>1. CASE Wk!StartFails
  BY <1>1 DEF Wk!StartFails
<1>2. CASE Wk!Start
  BY <1>2 DEF Wk!Start
<1>3. CASE Wk!Poll
  <2>0. s2 = "poll" /\ s6 <= Threads /\ s6' = s6 + 1 /\ UNCHANGED <<s1, s2, s7>>
    BY <1>3 DEF Wk!Poll
  <2>1. CASE s6 \in s4 /\ s3[s6] = "ended"
    <3>1. s3' = [s3 EXCEPT ![s6] = "joined"] /\ s4' = s4 \ {s6} /\ s5' = s5 - 1
      BY <1>3, <2>1 DEF Wk!Poll, Wk!Joined
    <3> QED BY <2>0, <2>1, <3>1, CountLeft
  <2>2. CASE ~(s6 \in s4 /\ s3[s6] = "ended")
    <3>1. UNCHANGED <<s3, s4, s5>>
      BY <1>3, <2>2 DEF Wk!Poll
    <3> QED BY <2>0, <3>1
  <2> QED BY <2>1, <2>2
<1>4. CASE Wk!Swept
  BY <1>4, CountLeft DEF Wk!Swept
<1>5. CASE Wk!Join
  BY <1>5 DEF Wk!Join, Wk!Joined
<1>6. CASE Wk!Free
  BY <1>6 DEF Wk!Free
<1>7. ASSUME NEW i \in 1..Threads, Wk!End(i) PROVE Wk!IInv'
  BY <1>7 DEF Wk!End
<1>8. CASE UNCHANGED Wk!vars
  BY <1>8 DEF Wk!vars
<1> QED BY <1>1, <1>2, <1>3, <1>4, <1>5, <1>6, <1>7, <1>8 DEF Wk!Next, Wk!MainStep

-----------------------------------------------------------------------------
(* lo-worker.js and lo-worker-async.js.                                    *)

LEMMA PairStart == ASSUME Pw!Init PROVE Pw!IInv
  BY DEF Pw!Init, Pw!IInv, Pw!OneUnderWay, Pw!Quiet

\* Wherever the two ends are, at most one message is under way, of this round.
LEMMA PairKeep ==
  ASSUME Pw!IInv, [Pw!Next]_(Pw!vars)
  PROVE  Pw!IInv'
<1> USE DEF Pw!IInv, Pw!OneUnderWay, Pw!Quiet
<1>1. CASE Pw!Start
  BY <1>1 DEF Pw!Start
<1>2. CASE Pw!HostSend
  BY <1>2 DEF Pw!HostSend
<1>3. CASE Pw!WorkerRecv
  <2>1. s3 = "recv" /\ ~s1 /\ s5 = <<s2>> /\ s6 = <<>>
    BY <1>3 DEF Pw!WorkerRecv
  <2>2. Tail(s5) = <<>>
    BY <2>1
  <2> QED BY <1>3, <2>1, <2>2 DEF Pw!WorkerRecv
<1>4. CASE Pw!WorkerSend
  <2>1. s3 = "recv" /\ s5 = <<>> /\ s6 = <<>>
    BY <1>4 DEF Pw!WorkerSend
  <2> QED BY <1>4, <2>1 DEF Pw!WorkerSend
<1>5. CASE Pw!HostRecv
  <2>1. s4 = "ended" /\ s5 = <<>> /\ s6 = <<s2>>
    BY <1>5 DEF Pw!HostRecv
  <2>2. Len(s6) = 1 /\ Tail(s6) = <<>>
    BY <2>1
  <2> QED BY <1>5, <2>1, <2>2 DEF Pw!HostRecv
<1>6. CASE Pw!Waitfor
  BY <1>6 DEF Pw!Waitfor
<1>7. CASE UNCHANGED Pw!vars
  BY <1>7 DEF Pw!vars
<1> QED BY <1>1, <1>2, <1>3, <1>4, <1>5, <1>6, <1>7 DEF Pw!Next

-----------------------------------------------------------------------------
(* launch.js.                                                              *)

LEMMA LaunchStart == ASSUME Ln!Init PROVE Ln!IInv
<1> Processes \in Nat \ {0}
  BY Assumptions DEF Ln!LaunchAssumption
<1> USE DEF Ln!Init
<1>1. s7 \in BOOLEAN
  BY Zenon
<1>2. Ln!TypeOK
  BY <1>1 DEF Ln!TypeOK
<1>3. Ln!DoneSoFar /\ Ln!Reaped
  BY DEF Ln!DoneSoFar, Ln!Reaped
<1> QED BY <1>2, <1>3 DEF Ln!IInv

\* A round that has met no process that runs has printed all that those it has
\* passed wrote.
LEMMA LaunchKeep ==
  ASSUME Ln!IInv, [Ln!Next]_(Ln!vars)
  PROVE  Ln!IInv'
<1> Processes \in Nat \ {0}
  BY Assumptions DEF Ln!LaunchAssumption
<1> USE DEF Ln!IInv, Ln!TypeOK, Ln!DoneSoFar, Ln!Reaped
<1>1. CASE Ln!Poll
  <2> USE <1>1 DEF Ln!Poll
  <2>1. CASE s1[s4] = "running"
    BY <2>1
  <2>2. CASE s1[s4] # "running"
    BY <2>2
  <2> QED BY <2>1, <2>2
<1>2. CASE Ln!Dump
  BY <1>2 DEF Ln!Dump
<1>3. CASE Ln!Round
  BY <1>3 DEF Ln!Round
<1>4. ASSUME NEW p \in 1..Processes, Ln!Write(p) PROVE Ln!IInv'
  BY <1>4 DEF Ln!Write
<1>5. ASSUME NEW p \in 1..Processes, Ln!End(p) PROVE Ln!IInv'
  BY <1>5 DEF Ln!End
<1>6. CASE UNCHANGED Ln!vars
  BY <1>6 DEF Ln!vars
<1> QED BY <1>1, <1>2, <1>3, <1>4, <1>5, <1>6 DEF Ln!Next

-----------------------------------------------------------------------------
(* spawn.js and spawn2.js.                                                 *)

LEMMA SpawnStart == ASSUME NEW p \in Spawners, Sp(p)!Init PROVE Sp(p)!IInv
  BY Assumptions DEF Spawners, Sp!CountAssumption, Sp!Init, Sp!IInv, Sp!TypeOK, Sp!Watched,
     Sp!Ahead, Sp!Pending, Sp!NoneLeft, Sp!Child

\* A child is watched while its promise is pending, and spawn2.js leaves none.
LEMMA SpawnKeep ==
  ASSUME NEW p \in Spawners, Sp(p)!IInv, [Sp(p)!Next]_(Sp(p)!vars)
  PROVE  Sp(p)!IInv'
<1> Children(p) \in Nat \ {0} /\ p \in {"spawn", "spawn2"}
  BY Assumptions DEF Spawners, Sp!CountAssumption
<1> USE DEF Sp!IInv, Sp!TypeOK, Sp!Watched, Sp!Ahead, Sp!Pending,
     Sp!NoneLeft, Sp!Child
<1>1. CASE Sp(p)!Fork
  <2> DEFINE i == s3 + 1
  <2>0. /\ s9 = "main" /\ i \in 1..Children(p) /\ s3' = i
        /\ (p = "spawn2" => s4 = s3)
        /\ UNCHANGED <<s2, s6, s7, s8, s10, s11>>
    BY <1>1 DEF Sp!Fork
  <2>1. CASE s1' = [s1 EXCEPT ![i] = "running"] /\ UNCHANGED <<s5, s4, s9>>
    BY <2>0, <2>1
  <2>2. CASE /\ s5' = [s5 EXCEPT ![i] = "rejected"] /\ s1' = s1
             /\ IF p = "spawn" THEN s9' = "loop" /\ s4' = s4 ELSE s4' = i /\ s9' = s9
    BY <2>0, <2>2
  <2> QED BY <1>1, <2>0, <2>1, <2>2 DEF Sp!Fork, Sp!Settle
<1>2. CASE Sp(p)!Wait
  <2> DEFINE i == s4 + 1
  <2>0. /\ s9 = "main" /\ s4 < s3 /\ i \in 1..Children(p) /\ i <= s3 /\ s4' = i
        /\ UNCHANGED <<s2, s3, s8, s10, s11>>
    BY <1>2 DEF Sp!Wait, Sp!Polled
  <2>1. CASE s1[i] = "running" /\ p = "spawn2"
    <3>1. /\ UNCHANGED <<s1, s9>>
          /\ s5' = [s5 EXCEPT ![i] = "pending"] /\ s6' = s6 \cup {i} /\ s7' = s7 \cup {i}
      BY <1>2, <2>1, <2>0 DEF Sp!Wait, Sp!Polled, Sp!Reap, Sp!Waitpid, Sp!Watch, Sp!Settle
    <3> QED BY <2>0, <2>1, <3>1
  <2>2. CASE s1[i] = "running" /\ p = "spawn"
    <3>1. UNCHANGED <<s1, s5, s6, s7>> /\ s9' = "loop"
      BY <1>2, <2>2, <2>0 DEF Sp!Wait, Sp!Polled, Sp!Reap, Sp!Waitpid, Sp!Watch
    <3> QED BY <2>0, <2>2, <3>1
  <2>3. CASE s1[i] = "zombie"
    <3>1. /\ UNCHANGED <<s6, s7, s9>>
          /\ s1' = [s1 EXCEPT ![i] = "gone"] /\ s5' = [s5 EXCEPT ![i] = "resolved"]
      BY <1>2, <2>3, <2>0 DEF Sp!Wait, Sp!Polled, Sp!Reap, Sp!Waitpid, Sp!Settle
    <3> QED BY <2>0, <2>3, <3>1
  <2>4. CASE s1[i] \in {"none", "gone"}
    <3>1. UNCHANGED <<s1, s6, s7, s9>> /\ s5' = [s5 EXCEPT ![i] = "rejected"]
      BY <1>2, <2>4, <2>0 DEF Sp!Wait, Sp!Polled, Sp!Reap, Sp!Waitpid, Sp!Settle
    <3> QED BY <2>0, <2>4, <3>1
  <2> QED BY <2>0, <2>1, <2>2, <2>3, <2>4
<1>3. CASE Sp(p)!OpenFails
  BY <1>3 DEF Sp!OpenFails
<1>4. CASE Sp(p)!Start
  BY <1>4 DEF Sp!Start
<1>5. CASE Sp(p)!Tick
  BY <1>5 DEF Sp!Tick
<1>6. CASE Sp(p)!End
  BY <1>6 DEF Sp!End
<1>7. ASSUME NEW i \in 1..Children(p), Sp(p)!Poll(i) PROVE Sp(p)!IInv'
  <2>0. s9 = "loop" /\ i \in s6 /\ UNCHANGED <<s2, s3, s4, s8, s9, s10, s11>>
    BY <1>7 DEF Sp!Poll
  <2>1. CASE s1[i] = "running"
    <3>1. UNCHANGED <<s1, s5, s6, s7>>
      BY <1>7, <2>1 DEF Sp!Poll, Sp!Reap, Sp!Waitpid
    <3> QED BY <2>0, <3>1
  <2>2. CASE s1[i] = "zombie"
    <3>1. /\ s1' = [s1 EXCEPT ![i] = "gone"] /\ s5' = [s5 EXCEPT ![i] = "resolved"]
          /\ s6' = s6 \ {i} /\ s7' = s7 \ {i}
      BY <1>7, <2>2 DEF Sp!Poll, Sp!Reap, Sp!Waitpid, Sp!Settle
    <3> QED BY <2>0, <2>2, <3>1
  <2>3. CASE s1[i] \in {"none", "gone"}
    <3>1. UNCHANGED s1 /\ s5' = [s5 EXCEPT ![i] = "rejected"] /\ s6' = s6 \ {i} /\ s7' = s7 \ {i}
      BY <1>7, <2>3 DEF Sp!Poll, Sp!Reap, Sp!Waitpid, Sp!Settle
    <3> QED BY <2>0, <2>3, <3>1
  <2> QED BY <2>1, <2>2, <2>3
<1>8. ASSUME NEW i \in 1..Children(p), Sp(p)!Sample(i) PROVE Sp(p)!IInv'
  BY <1>8 DEF Sp!Sample
<1>9. ASSUME NEW i \in 1..Children(p), Sp(p)!Exit(i) PROVE Sp(p)!IInv'
  BY <1>9 DEF Sp!Exit
<1>10. CASE UNCHANGED Sp(p)!vars
  BY <1>10 DEF Sp!vars
<1> QED BY <1>1, <1>2, <1>3, <1>4, <1>5, <1>6, <1>7, <1>8, <1>9, <1>10
    DEF Sp!Next, Sp!MainStep, Sp!ChildStep

-----------------------------------------------------------------------------
(* atomics.js.                                                             *)

\* Adding 1 to a word is adding 1 to what it stands for.
LEMMA AddWraps ==
  ASSUME NEW a \in Nat, NEW v \in Nat \ {0}
  PROVE  ((a % v) + 1) % v = (a + 1) % v
<1> DEFINE q == a \div v
           m == (a % v)
<1>1. q \in Int /\ m \in 0..v-1 /\ a = v * q + m
  OBVIOUS
<1>2. ASSUME NEW k \in Int, NEW r \in 0..v-1 PROVE (v * k + r) % v = r
  OBVIOUS
<1> HIDE DEF q, m
<1>3. CASE m + 1 < v
  <2>1. (v * q + (m + 1)) % v = m + 1
    BY <1>1, <1>2, <1>3
  <2>2. (v * 0 + (m + 1)) % v = m + 1
    BY <1>1, <1>2, <1>3
  <2>3. (m + 1) % v = (a + 1) % v
    BY <1>1, <2>1, <2>2
  <2> QED BY <2>3 DEF m
<1>4. CASE m + 1 = v
  <2>1. (v * (q + 1) + 0) % v = 0
    BY <1>1, <1>2
  <2>2. (v * 1 + 0) % v = 0
    BY <1>2
  <2>3. v * (q + 1) = v * q + v
    BY <1>1
  <2>4. (m + 1) % v = (a + 1) % v
    BY <1>1, <1>4, <2>1, <2>2, <2>3
  <2> QED BY <2>4 DEF m
<1> QED BY <1>1, <1>3, <1>4

\* A number that a word can hold is what the word holds.
LEMMA Fits == ASSUME NEW a \in Nat, NEW v \in Nat, a < v PROVE (a % v) = a
  OBVIOUS

LEMMA AtomicsConstants ==
  /\ IsFiniteSet(Worker) /\ Additions \in Nat \ {0} /\ WordValues \in Nat \ {0}
  /\ \A S : At!Cardinality(S) = Cardinality(S)
  BY Assumptions DEF At!AtomicsAssumption, Cardinality, At!Cardinality,
     IsFiniteSet, At!IsFiniteSet

\* A worker's additions are finitely many, and one more is one more of them.
LEMMA AddedGrows ==
  ASSUME At!Typed
  PROVE  /\ IsFiniteSet(At!Added) /\ Cardinality(At!Added) \in Nat
         /\ \A w \in Worker :
              s6' = [s6 EXCEPT ![w] = @ + 1] =>
                Cardinality(At!Added') = Cardinality(At!Added) + 1
<1> DEFINE Numbers == 1..Additions
           A == At!Added
           B == At!Added'
<1>0. IsFiniteSet(Worker) /\ Additions \in Nat
  BY AtomicsConstants
<1>1. IsFiniteSet(Numbers)
  BY <1>0, FS_Interval
<1>2. A \subseteq Worker \X Numbers
  BY <1>0 DEF At!Added, At!Typed
<1> HIDE DEF Numbers
<1>3. IsFiniteSet(Worker \X Numbers)
  BY <1>0, <1>1, FS_Product
<1>4. IsFiniteSet(A) /\ Cardinality(A) \in Nat
  BY <1>2, <1>3, FS_Subset, FS_CardinalityType
<1>5. ASSUME NEW w \in Worker, s6' = [s6 EXCEPT ![w] = @ + 1]
      PROVE  Cardinality(B) = Cardinality(A) + 1
  <2> DEFINE new == <<w, s6[w] + 1>>
  <2>1. s6[w] \in Nat /\ \A v \in Worker : s6[v] \in Nat
    BY <1>0 DEF At!Typed
  <2>2. \A v \in Worker : s6'[v] = IF v = w THEN s6[w] + 1 ELSE s6[v]
    BY <1>5 DEF At!Typed
  <2>3. B = UNION {{v} \X (1..s6'[v]) : v \in Worker}
    BY DEF At!Added
  <2>4. \A v \in Worker, i \in Nat : <<v, i>> \in A <=> i \in 1..s6[v]
    BY DEF At!Added
  <2>5. \A v \in Worker, i \in Nat : <<v, i>> \in B <=> i \in 1..s6'[v]
    BY <2>3
  <2>6. new \notin A
    BY <2>1, <2>4
  <2>7. \A v \in Worker : {v} \X (1..s6'[v]) = IF v = w THEN ({v} \X (1..s6[v])) \cup {new}
                                                     ELSE {v} \X (1..s6[v])
    BY <2>1, <2>2
  <2>8. B = A \cup {new}
    BY <2>3, <2>7 DEF At!Added
  <2> HIDE DEF A, B, new
  <2> QED BY <2>6, <2>8, <1>4, FS_AddElement
<1> QED BY <1>4, <1>5

LEMMA AtomicsStart == ASSUME At!Init PROVE At!IInv
<1> USE DEF At!Init, At!AtomicsAssumption
<1>1. At!Typed /\ At!Stored /\ At!Counted /\ At!Limit
  BY Assumptions DEF At!Typed, At!Stored, At!Counted, At!Limit
<1>2. At!Added = {}
  BY DEF At!Added
<1>3. Cardinality(At!Added) = 0
  BY <1>2, FS_EmptySet
<1>4. WordValues \in Nat /\ 0 < WordValues
  BY Assumptions
<1>5. (0 % WordValues) = 0
  BY <1>4, Fits
<1>6. s1 = 0 /\ s4 + Cardinality(At!Added) = 0
  BY <1>3
<1>7. At!Sum
  BY <1>5, <1>6, AtomicsConstants DEF At!Sum
<1> QED BY <1>1, <1>7 DEF At!IInv

\* No step of a thread loses an addition, and no worker reads another limit.
LEMMA AtomicsKeep == ASSUME At!IInv, [At!Next]_(At!vars) PROVE At!IInv'
<1> At!AtomicsAssumption
  BY Assumptions
<1>0. WordValues \in Nat \ {0}
  BY DEF At!AtomicsAssumption
<1>t. At!Typed /\ IsFiniteSet(At!Added) /\ Cardinality(At!Added) \in Nat
  BY AddedGrows DEF At!IInv
<1>s. s4 \in Nat /\ s1 = (s4 + Cardinality(At!Added)) % WordValues
  <2>1. s4 \in Nat
    BY <1>t DEF At!Typed, At!AtomicsAssumption
  <2>2. s1 = (s4 + Cardinality(At!Added)) % WordValues
    BY AtomicsConstants DEF At!IInv, At!Sum
  <2> QED BY <2>1, <2>2
<1>a. ASSUME At!Add
      PROVE  s1' = (s4 + Cardinality(At!Added) + 1) % WordValues /\ s1' \in Nat
  <2>1. s1' = (((s4 + Cardinality(At!Added)) % WordValues) + 1) % WordValues
    BY <1>a, <1>s DEF At!Add
  <2>2. \A a \in Nat : ((a % WordValues) + 1) % WordValues = (a + 1) % WordValues
    BY <1>0, AddWraps
  <2>3. s4 + Cardinality(At!Added) \in Nat
    BY <1>s, <1>t
  <2>4. \A a \in Nat : (a % WordValues) \in Nat
    BY <1>0
  <2> QED BY <2>1, <2>2, <2>3, <2>4
<1>b. ASSUME UNCHANGED <<s1, s4, s6>> PROVE At!Sum'
  BY <1>b DEF At!IInv, At!Sum, At!Added
<1> USE DEF At!AtomicsAssumption
<1>1. CASE At!StoreMax \/ At!Start \/ At!Wait
  <2>1. At!Typed'
    BY <1>1 DEF At!IInv, At!Typed, At!StoreMax, At!Start, At!Wait
  <2>2. At!Stored'
    BY <1>1 DEF At!IInv, At!Typed, At!Stored, At!StoreMax, At!Start, At!Wait
  <2>4. At!Counted'
    BY <1>1 DEF At!IInv, At!Typed, At!Stored, At!Counted, At!StoreMax, At!Start, At!Wait
  <2>5. At!Limit'
    BY <1>1 DEF At!IInv, At!Typed, At!Limit, At!StoreMax, At!Start, At!Wait
  <2>3. At!Sum'
    BY <1>1, <1>b DEF At!StoreMax, At!Start, At!Wait
  <2> QED BY <2>1, <2>2, <2>3, <2>4, <2>5 DEF At!IInv
<1>2. CASE At!Count
  <2>1. s1' \in Nat /\ s1' = (s4 + Cardinality(At!Added) + 1) % WordValues
    BY <1>2, <1>a DEF At!Count
  <2>2. At!Typed'
    BY <1>2, <2>1 DEF At!IInv, At!Typed, At!Counted, At!Count
  <2>3. At!Stored' /\ At!Limit'
    BY <1>2 DEF At!IInv, At!Typed, At!Stored, At!Counted, At!Limit, At!Count
  <2>7. At!Counted'
    BY <1>2 DEF At!IInv, At!Typed, At!Counted, At!Limit, At!Count
  <2>4. At!Added' = At!Added /\ s4' = s4 + 1
    BY <1>2 DEF At!Count, At!Added
  <2>5. s4' + Cardinality(At!Added) = s4 + Cardinality(At!Added) + 1
    BY <1>s, <1>t, <2>4
  <2>6. At!Sum'
    BY <2>1, <2>4, <2>5, AtomicsConstants DEF At!Sum
  <2> QED BY <2>2, <2>3, <2>6, <2>7 DEF At!IInv
<1>3. ASSUME NEW w \in Worker, At!Load(w) \/ At!Store(w) PROVE At!IInv'
  <2>1. At!Typed'
    BY <1>3 DEF At!IInv, At!Typed, At!Stored, At!Load, At!Store
  <2>2. At!Stored'
    BY <1>3 DEF At!IInv, At!Typed, At!Stored, At!Counted, At!Load, At!Store
  <2>4. At!Counted'
    BY <1>3 DEF At!IInv, At!Typed, At!Counted, At!Limit, At!Load, At!Store
  <2>5. At!Limit'
    BY <1>3 DEF At!IInv, At!Typed, At!Stored, At!Limit, At!Load, At!Store
  <2>3. At!Sum'
    BY <1>3, <1>b DEF At!Load, At!Store
  <2> QED BY <2>1, <2>2, <2>3, <2>4, <2>5 DEF At!IInv
<1>4. ASSUME NEW w \in Worker, At!WorkerCount(w) PROVE At!IInv'
  <2>1. s1' \in Nat /\ s1' = (s4 + Cardinality(At!Added) + 1) % WordValues
    BY <1>4, <1>a DEF At!WorkerCount
  <2>2. At!Typed'
    BY <1>4, <2>1 DEF At!IInv, At!Typed, At!Counted, At!WorkerCount
  <2>3. At!Stored' /\ At!Limit'
    BY <1>4 DEF At!IInv, At!Typed, At!Stored, At!Counted, At!Limit, At!WorkerCount
  <2>7. At!Counted'
    BY <1>4 DEF At!IInv, At!Typed, At!Counted, At!Limit, At!WorkerCount
  <2>4. Cardinality(At!Added') = Cardinality(At!Added) + 1 /\ s4' = s4
    BY <1>4, <1>t, AddedGrows DEF At!WorkerCount
  <2>5. s4' + Cardinality(At!Added') = s4 + Cardinality(At!Added) + 1
    BY <1>s, <1>t, <2>4
  <2>6. At!Sum'
    BY <2>1, <2>5, AtomicsConstants DEF At!Sum
  <2> QED BY <2>2, <2>3, <2>6, <2>7 DEF At!IInv
<1>5. CASE UNCHANGED At!vars
  <2>1. At!Typed' /\ At!Stored' /\ At!Counted' /\ At!Limit'
    BY <1>5 DEF At!vars, At!IInv, At!Typed, At!Stored, At!Counted, At!Limit
  <2>2. At!Sum'
    BY <1>5, <1>b DEF At!vars
  <2> QED BY <2>1, <2>2 DEF At!IInv
<1> QED BY <1>1, <1>2, <1>3, <1>4, <1>5 DEF At!Next, At!MainStep, At!WorkerStep

\* When every thread has reached its limit, the word holds one limit for each.
LEMMA AtomicsEnd ==
  ASSUME At!IInv, s3 = "done", Additions * (Cardinality(Worker) + 1) < WordValues
  PROVE  s1 = Additions * (Cardinality(Worker) + 1) /\ s2 = Additions
<1> DEFINE Numbers == 1..Additions
           C == Cardinality(Worker)
<1>0. IsFiniteSet(Worker) /\ Additions \in Nat \ {0}
  BY AtomicsConstants
<1>1. /\ IsFiniteSet(Numbers) /\ Cardinality(Numbers) = Additions
      /\ C \in Nat /\ Additions \in Nat
  BY <1>0, FS_Interval, FS_CardinalityType
<1>2. At!Added = Worker \X Numbers
  BY DEF At!IInv, At!Counted, At!Added
<1>3. s4 = Additions /\ s2 = Additions
  BY DEF At!IInv, At!Counted, At!Stored
<1>4. s1 = (s4 + Cardinality(At!Added)) % WordValues
  BY AtomicsConstants DEF At!IInv, At!Sum
<1> HIDE DEF Numbers
<1>5. Cardinality(At!Added) = C * Additions
  BY <1>0, <1>1, <1>2, FS_Product
<1>6. Additions + C * Additions = Additions * (C + 1) /\ Additions * (C + 1) \in Nat
  BY <1>1
<1>7. WordValues \in Nat
  BY Assumptions DEF At!AtomicsAssumption
<1>8. ((Additions * (C + 1)) % WordValues) = Additions * (C + 1)
  BY <1>6, <1>7, Fits
<1> QED BY <1>3, <1>4, <1>5, <1>6, <1>8

-----------------------------------------------------------------------------
(* The run.                                                                *)

\* The inductive invariant of whichever program the behaviour is of.
IInv ==
  /\ \A p \in Wakers : subject = p => Ev(p)!IInv
  /\ subject = "events3" => Ec!IInv
  /\ subject = "events2" => Eb!IInv
  /\ subject = "atomics" => At!IInv
  /\ subject = "workers" => Wk!IInv
  /\ subject = "pair" => Pw!IInv
  /\ subject = "launch" => Ln!IInv
  /\ \A p \in Spawners : subject = p => Sp(p)!IInv

LEMMA Inductive == Spec => []IInv
<1>1. Init => IInv
  <2> SUFFICES ASSUME Init PROVE IInv
    OBVIOUS
  <2>1. ASSUME NEW p \in Wakers, subject = p PROVE Ev(p)!IInv
    BY <2>1, EventsStart DEF Init, Wakers, Spawners
  <2>2. ASSUME NEW p \in Spawners, subject = p PROVE Sp(p)!IInv
    BY <2>2, SpawnStart DEF Init, Wakers, Spawners
  <2>3. subject = "events3" => Ec!IInv
    BY EventCountStart DEF Init, Wakers, Spawners
  <2>4. subject = "events2" => Eb!IInv
    BY EventBufferStart DEF Init, Wakers, Spawners
  <2>5. subject = "workers" => Wk!IInv
    BY WorkersStart DEF Init, Wakers, Spawners
  <2>6. subject = "pair" => Pw!IInv
    BY PairStart DEF Init, Wakers, Spawners
  <2>7. subject = "launch" => Ln!IInv
    BY LaunchStart DEF Init, Wakers, Spawners
  <2>8. subject = "atomics" => At!IInv
    BY AtomicsStart DEF Init, Wakers, Spawners
  <2> QED BY <2>1, <2>2, <2>3, <2>4, <2>5, <2>6, <2>7, <2>8 DEF IInv
<1>2. IInv /\ [Next]_all => IInv'
  BY Steps, EventsKeep, EventCountKeep, EventBufferKeep, AtomicsKeep, WorkersKeep, PairKeep,
     LaunchKeep, SpawnKeep DEF IInv, Wakers, Spawners
<1> QED BY <1>1, <1>2, PTL DEF Spec

\* The variables of events.js, events3.js and events4.js, of the programs that join
\* a pool of threads, of launch.js, spawn.js and spawn2.js stay in their types: the
\* counts within their bounds, the sets of children and of workers among those
\* there are.
THEOREM Typed == Spec => []TypeOK
<1>1. IInv => TypeOK
  BY DEF IInv, TypeOK, Ev!IInv, Ec!IInv, Wk!IInv, Ln!IInv, Sp!IInv
<1> QED BY <1>1, Inductive, PTL

\* events4.js counts no more wakeups than were made (it may count fewer), the
\* worker of events.js never sleeps once it has the limit, when events3.js has
\* ended its word is 0 after as many signals as its limit or one more, and the
\* main thread of events2.js is never more than two numbers beyond what its worker
\* has handled.
THEOREM SignalsHold == Spec => []Signals
<1>1. IInv => Signals
  <2>1. \A p \in Wakers : Ev(p)!IInv => Ev(p)!Signals
    BY DEF Ev!IInv
  <2>2. Ec!IInv => Ec!Signals
    BY Assumptions DEF Ec!MaxAssumption, Ec!IInv, Ec!TypeOK, Ec!InFlight, Ec!WordCleared,
       Ec!ClosedByWorker, Ec!Signals, Ec!EndsAtZero, Ec!EachSignalCounts
  <2>3. Eb!IInv => Eb!Signals
    BY DEF Eb!IInv, Eb!Signals, Eb!Written, Eb!Taken
  <2> QED BY <2>1, <2>2, <2>3 DEF IInv, Signals
<1> QED BY <1>1, Inductive, PTL

\* No addition of atomics.js is lost, whatever the width of a word, and what it
\* asserts at the end holds when the words are wide enough for all additions.
THEOREM SumsHold ==
  ASSUME Additions * (Cardinality(Worker) + 1) < WordValues
  PROVE  Spec => []Sums
<1>1. IInv => Sums
  BY AtomicsEnd, AtomicsConstants DEF IInv, Sums, At!Sums, At!IInv, At!Asserted
<1> QED BY <1>1, Inductive, PTL

\* A worker of joinmany.js and joinmany2.js is forgotten exactly when its thread
\* was joined, and the count is of those that are left; no context is destroyed
\* before the threads in it were joined; and in lo-worker.js and
\* lo-worker-async.js what lies in the sockets is of the round that runs.
THEOREM ThreadsJoinedOnce == Spec => []JoinedOnce
<1>1. IInv => JoinedOnce
  <2>1. Wk!IInv => Wk!JoinedOnce
    BY DEF Wk!IInv, Wk!JoinedOnce, Wk!FreedAfterJoin, Wk!AllJoined
  <2>2. Pw!IInv => Pw!JoinedOnce
    BY DEF Pw!IInv, Pw!OneUnderWay, Pw!Quiet, Pw!JoinedOnce
  <2> QED BY <2>1, <2>2 DEF IInv, JoinedOnce
<1> QED BY <1>1, Inductive, PTL

\* launch.js leaves its loop with every process reaped and all it wrote printed;
\* a child of spawn2.js is polled and monitored while its promise is pending,
\* resolved only when it was reaped, and none is left at the end.
THEOREM ChildrenReaped == Spec => []Reaped
<1>1. IInv => Reaped
  BY DEF IInv, Reaped, Ln!IInv, Sp!IInv, Sp!Reaped
<1> QED BY <1>1, Inductive, PTL
=============================================================================
