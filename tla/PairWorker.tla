----------------------------- MODULE PairWorker -----------------------------
(***************************************************************************)
(* workers/lo-worker.js and lo-worker-async.js: a worker is started again  *)
(* and again with the same end of a socket pair.  In lo-worker.js the pair *)
(* carries datagrams: the host sends hello, the worker receives it and     *)
(* sends goodbye.  In lo-worker-async.js it is a stream and the worker     *)
(* writes hello.  The host reads, asserts what it has read, waits for the  *)
(* worker and starts the next round.                                       *)
(***************************************************************************)
EXTENDS Naturals, Sequences

CONSTANT Rounds    \* runs of a program

RoundsAssumption == Rounds \in Nat \ {0}

VARIABLES
  stream,      \* whether the pair is a stream and the worker only writes
  round,       \* the host's i
  host,        \* start, send, recv, wait, failed
  worker,      \* none, recv, send, ended, failed
  toWorker, toHost   \* what is in the sockets: the rounds of the messages

vars == <<stream, round, host, worker, toWorker, toHost>>

Init ==
  /\ stream \in BOOLEAN /\ round = 1 /\ host = "start" /\ worker = "none"
  /\ toWorker = <<>> /\ toHost = <<>>

\* start creates a thread that finds the descriptor in lo.fd.
Start ==
  /\ host = "start" /\ round <= Rounds
  /\ host' = IF stream THEN "recv" ELSE "send"
  /\ worker' = IF stream THEN "send" ELSE "recv"
  /\ UNCHANGED <<stream, round, toWorker, toHost>>

HostSend ==
  /\ host = "send" /\ host' = "recv"
  /\ toWorker' = Append(toWorker, round)
  /\ UNCHANGED <<stream, round, worker, toHost>>

\* Faulty variant: a message is read and left in the socket.
WorkerPeek ==
  /\ worker = "recv" /\ toWorker # <<>>
  /\ worker' = "send" /\ UNCHANGED toWorker
  /\ UNCHANGED <<stream, round, host, toHost>>

WorkerRecv ==
  /\ worker = "recv" /\ toWorker # <<>>
  /\ worker' = "send" /\ toWorker' = Tail(toWorker)
  /\ UNCHANGED <<stream, round, host, toHost>>

WorkerSend ==
  /\ worker = "send" /\ worker' = "ended"
  /\ toHost' = Append(toHost, round)
  /\ UNCHANGED <<stream, round, host, toWorker>>

HostRecv ==
  /\ host = "recv" /\ toHost # <<>>
  /\ host' = IF stream /\ Len(toHost) > 1 THEN "failed" ELSE "wait"
  /\ toHost' = IF stream THEN <<>> ELSE Tail(toHost)
  /\ UNCHANGED <<stream, round, worker, toWorker>>

Waitfor ==
  /\ host = "wait" /\ worker = "ended"
  /\ host' = "start" /\ round' = round + 1
  /\ UNCHANGED <<stream, worker, toWorker, toHost>>

Next == Start \/ HostSend \/ WorkerRecv \/ WorkerSend \/ HostRecv \/ Waitfor
Spec == Init /\ [][Next]_vars /\ WF_vars(Next)

-----------------------------------------------------------------------------
\* Rounds do not mix: what lies in the sockets was sent in this round, and none
\* of it is left when the next one starts; so every assertion holds.
JoinedOnce ==
  /\ \A i \in 1..Len(toWorker) : toWorker[i] = round
  /\ \A i \in 1..Len(toHost) : toHost[i] = round
  /\ host # "failed"

\* Why: at most one message is under way, and where the two ends are says which.
Quiet == toWorker = <<>> /\ toHost = <<>>
OneUnderWay ==
  CASE host = "start" -> worker \in {"none", "ended"} /\ Quiet
    [] host = "send" -> ~stream /\ worker = "recv" /\ Quiet
    [] host = "recv" ->
         \/ ~stream /\ worker = "recv" /\ toWorker = <<round>> /\ toHost = <<>>
         \/ worker = "send" /\ Quiet
         \/ worker = "ended" /\ toWorker = <<>> /\ toHost = <<round>>
    [] host = "wait" -> worker = "ended" /\ Quiet
    [] OTHER -> FALSE
IInv == stream \in BOOLEAN /\ round \in Nat /\ OneUnderWay

\* No end waits for a message the other does not send.
Ended == round > Rounds
Ends == <>Ended
=============================================================================
