------------------------------ MODULE PingPong ------------------------------
(***************************************************************************)
(* net/udp-ping-pong.js: two datagram sockets of one loop send one         *)
(* datagram to and fro, and a timer reads and resets the counts once a     *)
(* second until it has done so `Runs` times.  The network may lose a       *)
(* datagram; nothing is sent again.                                        *)
(***************************************************************************)
EXTENDS Integers, FiniteSets

CONSTANTS
  Runs,   \* ticks of the timer before the program ends
  Loses,  \* whether the network may lose datagrams
  Bound   \* exchanges of one second that are followed

RunsAssumption == Runs \in Nat /\ Bound \in Nat

Nodes == {"ping", "pong"}
Peer(n) == IF n = "ping" THEN "pong" ELSE "ping"

VARIABLES
  wire,   \* datagrams on their way to each node
  sent, received,   \* the counts of each node in this second
  done,   \* ticks so far
  ended

vars == <<wire, sent, received, done, ended>>

Zero == [n \in Nodes |-> 0]

Init ==
  /\ wire = [Zero EXCEPT !["pong"] = 1]
  /\ sent = [Zero EXCEPT !["ping"] = 1] /\ received = Zero
  /\ done = 0 /\ ended = FALSE

\* The callback of a node: it sends back what it received.
Echo(n) ==
  /\ ~ended /\ wire[n] > 0 /\ received[n] < Bound
  /\ wire' = [wire EXCEPT ![n] = @ - 1, ![Peer(n)] = @ + 1]
  /\ received' = [received EXCEPT ![n] = @ + 1]
  /\ sent' = [sent EXCEPT ![n] = @ + 1]
  /\ UNCHANGED <<done, ended>>

Lose(n) ==
  /\ Loses /\ wire[n] > 0
  /\ wire' = [wire EXCEPT ![n] = @ - 1]
  /\ UNCHANGED <<sent, received, done, ended>>

\* Faulty variant: the counts of one node are left alone.
TickHalf ==
  /\ ~ended /\ done < Runs
  /\ sent' = [sent EXCEPT !["ping"] = 0] /\ received' = [received EXCEPT !["ping"] = 0]
  /\ done' = done + 1
  /\ UNCHANGED <<wire, ended>>

Tick ==
  /\ ~ended /\ done < Runs
  /\ sent' = Zero /\ received' = Zero
  /\ done' = done + 1
  /\ UNCHANGED <<wire, ended>>

\* Faulty variant: the program ends with the last answer, not the last tick.
FinishAnswered ==
  /\ ~ended /\ done = Runs /\ wire # Zero
  /\ ended' = TRUE
  /\ UNCHANGED <<wire, sent, received, done>>

Finish ==
  /\ ~ended /\ done = Runs
  /\ ended' = TRUE
  /\ UNCHANGED <<wire, sent, received, done>>

Next == Tick \/ Finish \/ \E n \in Nodes : Echo(n) \/ Lose(n)

Spec == Init /\ [][Next]_vars

\* The timer fires and the loop polls.
FairSpec == Spec /\ WF_vars(Tick) /\ WF_vars(Finish)

-----------------------------------------------------------------------------
Abs(n) == IF n < 0 THEN -n ELSE n

TypeOK ==
  /\ wire \in [Nodes -> 0..1] /\ done \in 0..Runs /\ ended \in BOOLEAN
  /\ sent \in [Nodes -> 0..Bound + 1] /\ received \in [Nodes -> 0..Bound]

\* The figures of one second belong together, wherever the timer falls: no two
\* of the four counts differ by more than the datagram on its way.
FiguresAgree ==
  \A n, m \in Nodes : /\ Abs(sent[n] - received[m]) <= 1
                      /\ Abs(sent[n] - sent[m]) <= 1

\* The program ends after its ticks, also when the datagram was lost.
Ended == ended
Ends == <>Ended

\* Before the first tick "ping" is one datagram ahead: the one that started the
\* exchange.  Of the two nodes the one the datagram goes to is not ahead.
Ahead == IF done = 0 THEN 1 ELSE 0

IInv ==
  /\ TypeOK
  /\ wire["ping"] + wire["pong"] <= 1
  /\ sent["ping"] = received["ping"] + Ahead /\ sent["pong"] = received["pong"]
  /\ received["pong"] <= received["ping"] + 1
  /\ received["ping"] + Ahead <= received["pong"] + 1
  /\ wire["pong"] = 1 => received["pong"] <= received["ping"]
  /\ wire["ping"] = 1 => received["ping"] + Ahead <= received["pong"]
=============================================================================
