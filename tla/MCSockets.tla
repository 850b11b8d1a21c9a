----------------------------- MODULE MCSockets ------------------------------
(***************************************************************************)
(* The programs of net/ and websocket/, checked in one run: the echo       *)
(* servers with their clients, the datagram ping-pong, the handshakes of   *)
(* the WebSocket server and the exchange of its client. A behaviour is one *)
(* of theirs.                                                              *)
(***************************************************************************)
EXTENDS Integers, OneOf

CONSTANTS
  One, Two, Three,             \* connections
  TcpPayload, TcpRoom,         \* echo-server.js: octets sent, room in a stream,
  WriteOverhead,               \* and what a write takes beyond its octets
  UnixPayload, UnixRoom,       \* echo-server-unix.js, whose writes take no more
  BpPayload, BpRoom,           \* echo-server-bp.js
  Seconds, Exchanges,          \* udp-ping-pong.js: ticks, and exchanges of a second
  RequestUnits, RequestKey,    \* websocket/server.js: pieces of a request, the one
  RequestRoom,                 \* with the key, the size of the buffer
  ResponseParts,               \* websocket/client.js: reads that a response in
  WholeShorts, PartsShorts     \* parts takes, and full buffers

\* Messages that fill most of the buffers of a socket, or all of them.
Echoes == {"tcp", "unix", "bp"}
Sockets(k) == IF k = "unix" THEN Two ELSE One
Message(k) ==
  IF k = "tcp" THEN TcpPayload ELSE IF k = "unix" THEN UnixPayload ELSE BpPayload
Buffer(k) == IF k = "tcp" THEN TcpRoom ELSE IF k = "unix" THEN UnixRoom ELSE BpRoom
Extra(k) == IF k = "unix" THEN 0 ELSE WriteOverhead
Resets(k) == IF k = "unix" THEN {} ELSE {"reset"}
Eo(k) == INSTANCE Echo WITH Conns <- Sockets(k), Kind <- k, Payload <- Message(k),
   Room <- Buffer(k), Overhead <- Extra(k), Faults <- Resets(k),
   client <- s1, server <- s2, toServer <- s3, toClient <- s4, first <- s5,
   kept <- s6, down <- s7
\* The datagram may be lost.
Pp == INSTANCE PingPong WITH Runs <- Seconds, Loses <- TRUE, Bound <- Exchanges,
   wire <- s1, sent <- s2, received <- s3, done <- s4, ended <- s5
\* Clients that send whole requests, and clients that send pieces.
Handshakes == {"accept", "pieces"}
Peers(p) == IF p = "accept" THEN Three ELSE Two
Ac(p) == INSTANCE WsAccept WITH Clients <- Peers(p),
   Units <- RequestUnits, KeyUnit <- RequestKey, Size <- RequestRoom,
   Cuts <- IF p = "accept" THEN {RequestUnits} ELSE 1..RequestUnits,
   conn <- s1, sent <- s2, inbox <- s3, ended <- s4, recv_buf <- s5, off <- s6,
   alive <- s7, served <- s8
\* A response that arrives whole, and one in parts.
Talks == {"exchange", "parts"}
Reads(p) == IF p = "exchange" THEN 1 ELSE ResponseParts
Ex(p) == INSTANCE WsExchange WITH Parts <- Reads(p),
   Shorts <- IF p = "exchange" THEN WholeShorts ELSE PartsShorts, phase <- s1,
   pending <- s2, sliced <- s3, asked <- s4, wire <- s5, shorts <- s6,
   opened <- s7, received <- s8, server <- s9, parts <- s10, read <- s11,
   inbox <- s12

ASSUME Assumptions ==
  /\ \A k \in Echoes : Eo(k)!SizesAssumption
  /\ Pp!RunsAssumption
  /\ \A p \in Handshakes : Ac(p)!UnitAssumption /\ Ac(p)!CutAssumption
  /\ \A p \in Talks : Ex(p)!PartAssumption

-----------------------------------------------------------------------------
Init ==
  \/ \E k \in Echoes : subject = k /\ Eo(k)!Init /\ Off8
  \/ subject = "pingpong" /\ Pp!Init /\ Off6
  \/ \E p \in Handshakes : subject = p /\ Ac(p)!Init /\ Off9
  \/ \E p \in Talks : subject = p /\ Ex(p)!Init

EoClient(k, c) == subject = k /\ Eo(k)!OnClient(c) /\ UNCHANGED Rest8
EoServer(k, c) == subject = k /\ Eo(k)!OnServer(c) /\ UNCHANGED Rest8
PpStep == subject = "pingpong" /\ Pp!Next /\ UNCHANGED Rest6
PpTick == subject = "pingpong" /\ Pp!Tick /\ UNCHANGED Rest6
PpFinish == subject = "pingpong" /\ Pp!Finish /\ UNCHANGED Rest6
AcServer(c) == subject = "accept" /\ Ac("accept")!ServerStep(c) /\ UNCHANGED Rest9
AcClient(c) == subject = "accept" /\ Ac("accept")!ClientStep(c) /\ UNCHANGED Rest9
ApStep == subject = "pieces" /\ Ac("pieces")!Next /\ UNCHANGED Rest9
ExClient == subject = "exchange" /\ Ex("exchange")!ClientStep /\ UNCHANGED Rest13
ExServer == subject = "exchange" /\ Ex("exchange")!ServerStep /\ UNCHANGED Rest13
EpStep == subject = "parts" /\ Ex("parts")!Next /\ UNCHANGED Rest13

Next ==
  \/ PpStep \/ ApStep \/ ExClient \/ ExServer \/ EpStep
  \/ \E k \in Echoes : \E c \in Sockets(k) : EoClient(k, c) \/ EoServer(k, c)
  \/ \E c \in Three : AcServer(c) \/ AcClient(c)

\* The fairness of the specifications liveness is checked of.
Fairness ==
  /\ \A c \in Two : WF_all(EoClient("unix", c)) /\ WF_all(EoServer("unix", c))
  /\ \A c \in Three : WF_all(AcServer(c))
  /\ WF_all(PpTick \/ ExClient) /\ WF_all(PpFinish \/ ExServer)

Spec == Init /\ [][Next]_all /\ Fairness

-----------------------------------------------------------------------------
TypeOK ==
  /\ \A k \in Echoes : subject = k => Eo(k)!TypeOK
  /\ subject = "pingpong" => Pp!TypeOK
  /\ \A p \in Handshakes : subject = p => Ac(p)!TypeOK

\* Every echo server: no octet that goes round is lost, unless echo-server-bp.js
\* could not write it, none is sent twice, and octets are pending exactly while
\* the loop watches for room.
Conserved == \A k \in Echoes : subject = k => Eo(k)!Conserved

\* udp-ping-pong.js: the figures of one second belong together.
FiguresAgree == subject = "pingpong" => Pp!FiguresAgree

\* server.js of websocket: every octet that waits in the one buffer is of a client
\* that is still in its handshake.
Leftover == \A p \in Handshakes : subject = p => Ac(p)!Leftover

\* client.js of websocket: what was given to send is on the wire in its order,
\* and an echo is of a message that was written.
InOrder == \A p \in Talks : subject = p => Ex(p)!InOrder

IInv ==
  /\ \A k \in Echoes : subject = k => Eo(k)!IInv
  /\ subject = "pingpong" => Pp!IInv
  /\ \A p \in Handshakes : subject = p => Ac(p)!IInv
  /\ \A p \in Talks : subject = p => Ex(p)!IInv

\* Over a unix socket the echo goes on for ever; udp-ping-pong.js ends although
\* the datagram may be lost; server.js of websocket answers a client that sends
\* its request at once with its own key; client.js receives its last echo.
KeepsEchoing == \A c \in Two : []<>(subject # "unix" \/ Eo("unix")!Coming(c))
Ends == (subject = "pingpong") ~> (subject = "pingpong" /\ Pp!Ended)
Answered ==
  \A c \in Three : (subject = "accept" /\ Ac("accept")!Sent(c)) ~> (subject = "accept" /\ Ac("accept")!Settled(c))
LastEcho == (subject = "exchange") ~> (subject = "exchange" /\ Ex("exchange")!Completed)
Completes == KeepsEchoing /\ Ends /\ Answered /\ LastEcho
=============================================================================
