------------------------------ MODULE HttpLoad ------------------------------
(***************************************************************************)
(* The load client http/wrk.js against the http servers http/hello-lo.js,  *)
(* http/ssr.js, ssr/lo-ssr.js and ssr/lo-ssr2.js.  The servers differ in   *)
(* the response alone.  One step is one callback of either event loop or   *)
(* one event of the network.                                               *)
(*                                                                         *)
(* A stream is the number of octets on their way.  Each side reads at      *)
(* offset 0 of its buffer whatever it has read before, so that octets are  *)
(* understood only when the read starts with a message: `torn` says that   *)
(* the next octet to be read is not the first of a message.                *)
(***************************************************************************)
EXTENDS Integers, FiniteSets

CONSTANTS
  Conns,    \* the connections: wrk.js opens `nclient` (79-80)
  Server,   \* "hello", "ssr" or "rows": what answers
  Cut,      \* whether a read may get less than what is on its way
  Faults,   \* what may fail: "refused", "reset"
  Bound     \* answers of one connection that are followed

ConnsAssumption == IsFiniteSet(Conns)
BoundAssumption == Bound \in Nat \ {0}

VARIABLES
  client,     \* the client's socket: none, connecting, open, closed, stranded
  server,     \* the server's socket: none, backlog, open, closed
  toServer,   \* octets on their way, of each direction
  toClient,
  tornReq,    \* the next octet is not the first of a message
  tornRes,
  clientConn, \* stats.conn of either program
  serverConn,
  served,     \* stats.rps of either program, of each connection
  counted

streams == <<toServer, toClient, tornReq, tornRes>>
vars == <<client, server, toServer, toClient, tornReq, tornRes,
          clientConn, serverConn, served, counted>>

Init ==
  /\ client = [c \in Conns |-> "none"]
  /\ server = [c \in Conns |-> "none"]
  /\ toServer = [c \in Conns |-> 0] /\ toClient = [c \in Conns |-> 0]
  /\ tornReq = [c \in Conns |-> FALSE] /\ tornRes = [c \in Conns |-> FALSE]
  /\ clientConn = 0 /\ serverConn = 0
  /\ served = [c \in Conns |-> 0] /\ counted = [c \in Conns |-> 0]

-----------------------------------------------------------------------------
(* Messages.                                                               *)

Request == 2        \* octets of a request,
ResponseHead == 2   \* and of the head of a response

\* The bodies of the answers to "GET /": hello-lo.js has one text, ssr.js and
\* lo-ssr.js have no handler for "/", lo-ssr2.js renders its rows.
HelloBody == 1
NotFoundBody == 0
RowsBody == 2

Response ==
  ResponseHead + CASE Server = "hello" -> HelloBody
                   [] Server = "ssr" -> NotFoundBody
                   [] Server = "rows" -> RowsBody

\* What parser.parse makes of n octets read when a message of which `head`
\* octets are needed starts here.
Parse(n, head) == IF n < head THEN "incomplete" ELSE "parsed"

\* What a RequestParser and a ResponseParser may make of octets that start
\* in the middle of a message: the end of a method still is a method.
TornRequest == {"error", "incomplete", "parsed"}
TornResponse == {"error", "incomplete"}

\* A read that leaves so much of a stream leaves it in the middle of a message
\* unless nothing or one whole message is left.
Torn(left, message) == left \notin {0, message}

\* Octets that one recv may return.
Reads(available) == IF Cut THEN 1..available ELSE {available} \ {0}

-----------------------------------------------------------------------------
(* The client.                                                             *)

StartClient(c) ==
  /\ client[c] = "none"
  /\ client' = [client EXCEPT ![c] = "connecting"]
  /\ server' = [server EXCEPT ![c] = "backlog"]
  /\ UNCHANGED <<streams, clientConn, serverConn, served, counted>>

\* Faulty variant: close_socket without its first line.
RefusedCounted(c) ==
  /\ "refused" \in Faults
  /\ client[c] = "connecting" /\ server[c] = "backlog"
  /\ client' = [client EXCEPT ![c] = "closed"]
  /\ server' = [server EXCEPT ![c] = "closed"]
  /\ clientConn' = clientConn - 1
  /\ UNCHANGED <<streams, serverConn, served, counted>>

\* The error callback of a socket that never connected: it is not in the map
\* yet, so close_socket returns and the descriptor stays (19).
ConnectRefused(c) ==
  /\ "refused" \in Faults
  /\ client[c] = "connecting" /\ server[c] = "backlog"
  /\ client' = [client EXCEPT ![c] = "stranded"]
  /\ server' = [server EXCEPT ![c] = "closed"]
  /\ UNCHANGED <<streams, clientConn, serverConn, served, counted>>

ClientConnect(c) ==
  /\ client[c] = "connecting"
  /\ client' = [client EXCEPT ![c] = "open"]
  /\ toServer' = [toServer EXCEPT ![c] = IF server[c] = "closed" THEN 0 ELSE Request]
  /\ clientConn' = clientConn + 1
  /\ UNCHANGED <<server, toClient, tornReq, tornRes, serverConn, served, counted>>

ClientClose(c) ==
  /\ client' = [client EXCEPT ![c] = "closed"]
  /\ toClient' = [toClient EXCEPT ![c] = 0]
  /\ clientConn' = clientConn - 1

ClientRead(c, n, parsed) ==
  /\ client[c] = "open"
  /\ n \in Reads(toClient[c])
  /\ parsed \in IF tornRes[c] THEN TornResponse ELSE {Parse(n, ResponseHead)}
  /\ tornRes' = [tornRes EXCEPT ![c] = Torn(toClient[c] - n, Response)]
  /\ UNCHANGED <<server, serverConn, served>>

\* parsed > 0: the next request goes out, whatever is missing of the body.
ClientNext(c, n) ==
  /\ ClientRead(c, n, "parsed")
  /\ counted[c] < Bound
  /\ counted' = [counted EXCEPT ![c] = @ + 1]
  /\ toClient' = [toClient EXCEPT ![c] = @ - n]
  /\ toServer' = [toServer EXCEPT ![c] = IF server[c] = "closed" THEN 0 ELSE @ + Request]
  /\ UNCHANGED <<client, tornReq, clientConn>>

\* parsed = -2: the octets are forgotten.
ClientWaits(c, n) ==
  /\ ClientRead(c, n, "incomplete")
  /\ toClient' = [toClient EXCEPT ![c] = @ - n]
  /\ UNCHANGED <<client, toServer, tornReq, clientConn, counted>>

ClientParseError(c, n) ==
  /\ ClientRead(c, n, "error")
  /\ ClientClose(c)
  /\ UNCHANGED <<toServer, tornReq, counted>>

\* End of file, or the error callback.
ClientEnd(c) ==
  /\ client[c] = "open"
  /\ \/ server[c] = "closed" /\ toClient[c] = 0
     \/ "reset" \in Faults
  /\ ClientClose(c)
  /\ UNCHANGED <<server, toServer, tornReq, tornRes, serverConn, served, counted>>

-----------------------------------------------------------------------------
(* The server.                                                             *)

Accept(c) ==
  /\ server[c] = "backlog"
  /\ server' = [server EXCEPT ![c] = "open"]
  /\ serverConn' = serverConn + 1
  /\ UNCHANGED <<client, streams, clientConn, served, counted>>

ServerClose(c) ==
  /\ server' = [server EXCEPT ![c] = "closed"]
  /\ toServer' = [toServer EXCEPT ![c] = 0]
  /\ serverConn' = serverConn - 1

ServerRead(c, n, parsed) ==
  /\ server[c] = "open"
  /\ n \in Reads(toServer[c])
  /\ parsed \in IF tornReq[c] THEN TornRequest ELSE {Parse(n, Request)}
  /\ tornReq' = [tornReq EXCEPT ![c] = Torn(toServer[c] - n, Request)]
  /\ UNCHANGED <<client, clientConn, counted>>

\* parsed > 0: the handler writes the response and does not look whether the
\* write succeeded.
ServerAnswer(c, n) ==
  /\ ServerRead(c, n, "parsed")
  /\ served' = [served EXCEPT ![c] = @ + 1]
  /\ toServer' = [toServer EXCEPT ![c] = @ - n]
  /\ toClient' = [toClient EXCEPT ![c] = IF client[c] = "closed" THEN 0 ELSE @ + Response]
  /\ UNCHANGED <<server, tornRes, serverConn>>

\* Faulty variant: an incomplete request is answered.
ServerAnswersAll(c, n) ==
  /\ ServerRead(c, n, "incomplete")
  /\ served' = [served EXCEPT ![c] = @ + 1]
  /\ toServer' = [toServer EXCEPT ![c] = @ - n]
  /\ toClient' = [toClient EXCEPT ![c] = IF client[c] = "closed" THEN 0 ELSE @ + Response]
  /\ UNCHANGED <<server, tornRes, serverConn>>

\* parsed = -2: the octets are forgotten.
ServerWaits(c, n) ==
  /\ ServerRead(c, n, "incomplete")
  /\ toServer' = [toServer EXCEPT ![c] = @ - n]
  /\ UNCHANGED <<server, toClient, tornRes, serverConn, served>>

ServerParseError(c, n) ==
  /\ ServerRead(c, n, "error")
  /\ ServerClose(c)
  /\ UNCHANGED <<toClient, tornRes, served>>

\* End of file, or the error callback.
ServerEnd(c) ==
  /\ server[c] = "open"
  /\ \/ client[c] = "closed" /\ toServer[c] = 0
     \/ "reset" \in Faults
  /\ ServerClose(c)
  /\ UNCHANGED <<client, toClient, tornReq, tornRes, clientConn, served, counted>>

-----------------------------------------------------------------------------
OnClient(c) ==
  \/ StartClient(c) \/ ClientConnect(c) \/ ClientEnd(c)
  \/ \E n \in Reads(toClient[c]) :
       ClientNext(c, n) \/ ClientWaits(c, n) \/ ClientParseError(c, n)

OnServer(c) ==
  \/ Accept(c) \/ ServerEnd(c)
  \/ \E n \in Reads(toServer[c]) :
       ServerAnswer(c, n) \/ ServerWaits(c, n) \/ ServerParseError(c, n)

Next == \E c \in Conns : OnClient(c) \/ OnServer(c) \/ ConnectRefused(c)

Spec == Init /\ [][Next]_vars

\* Both loops poll for ever (wrk.js:82, hello-lo.js:110): a descriptor that
\* stays ready is served.
FairSpec == Spec /\ \A c \in Conns : WF_vars(OnClient(c)) /\ WF_vars(OnServer(c))

-----------------------------------------------------------------------------
TypeOK ==
  /\ client \in [Conns -> {"none", "connecting", "open", "closed", "stranded"}]
  /\ server \in [Conns -> {"none", "backlog", "open", "closed"}]
  /\ toServer \in [Conns -> Nat] /\ toClient \in [Conns -> Nat]
  /\ tornReq \in [Conns -> BOOLEAN] /\ tornRes \in [Conns -> BOOLEAN]
  /\ clientConn \in Nat /\ serverConn \in Nat
  /\ served \in [Conns -> Nat] /\ counted \in [Conns -> 0..Bound]

\* The `con` figure of either program counts its open connections, however
\* parse errors, ends of file and error callbacks come together.
ConnCount ==
  /\ clientConn = Cardinality({c \in Conns : client[c] = "open"})
  /\ serverConn = Cardinality({c \in Conns : server[c] = "open"})

\* The client's rate is honest, even when messages are cut: it counts nothing
\* that was not served, and the server serves nothing that was not asked.
Honest == \A c \in Conns : served[c] - counted[c] \in {0, 1}

\* The figures the two programs print every second.
Figures == ConnCount /\ Honest

\* Why: a connection that the client has not opened has carried nothing,
Unused ==
  \A c \in Conns :
    /\ client[c] = "none" => server[c] = "none"
    /\ client[c] \in {"none", "connecting", "stranded"} =>
         toServer[c] = 0 /\ toClient[c] = 0 /\ served[c] = 0 /\ counted[c] = 0
         /\ ~tornReq[c] /\ ~tornRes[c]

\* at most one request is on its way, and none once it was served,
Asking ==
  \A c \in Conns :
    /\ toServer[c] <= Request
    /\ server[c] # "closed" => (tornReq[c] <=> Torn(toServer[c], Request))
    /\ served[c] # counted[c] => toServer[c] = 0

\* and of an answer that was counted only the end of its body may be left, which
\* the client takes for no response.
Answering ==
  \A c \in Conns : client[c] = "open" =>
    /\ tornRes[c] \/ toClient[c] \in {0, Response}
    /\ served[c] = counted[c] =>
         toClient[c] < Response /\ (tornRes[c] \/ toClient[c] = 0)

IInv == TypeOK /\ Figures /\ Unused /\ Asking /\ Answering

turn ==
  [c \in Conns |->
     IF "closed" \in {client[c], server[c]} THEN "over"
     ELSE IF client[c] # "open" THEN "off"
     ELSE IF served[c] = counted[c] THEN "asked"
     ELSE IF served[c] = counted[c] + 1 THEN "answered" ELSE "astray"]

R == INSTANCE Rally

\* Client and server take turns on every connection.
TakesTurns == R!Spec

\* Whole messages and no failure: every connection goes on being served.
Served(c) == counted[c] = Bound
KeepsGoing == \A c \in Conns : <>Served(c)
=============================================================================
