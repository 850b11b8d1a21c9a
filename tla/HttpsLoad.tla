----------------------------- MODULE HttpsLoad ------------------------------
(***************************************************************************)
(* The load client http/fetch.js against the https servers                 *)
(* http/https-lo.js and fetch/server.js (asked for "/").  One step is one  *)
(* callback of either event loop or one event of the network.  TLS hands   *)
(* over whole records, and each message here is one record; what may       *)
(* arrive in pieces is the server's half of the handshake.                 *)
(***************************************************************************)
EXTENDS Integers, Sequences, FiniteSets

CONSTANTS
  Conns,    \* the connections: fetch.js opens `nclient`
  Server,   \* "https-lo" or "fetch": what answers
  Flights,  \* pieces in which the server's half of the handshake arrives
  Tickets,  \* session tickets the server sends when the handshake is over
  Faults,   \* what may fail: "reset", "alert"
  Bound     \* answers of one connection that are followed

ConnsAssumption == IsFiniteSet(Conns)
FlightsAssumption == Flights \in Nat \ {0} /\ Tickets \in Nat
BoundAssumption == Bound \in Nat \ {0}

VARIABLES
  client,     \* none, connecting, insecure, secure, closed
  server,     \* none, backlog, insecure, secure, closed
  due,        \* pieces of the server's flight on their way,
  arrived,    \* arrived at the client and not read,
  missing,    \* and not yet taken in by the client's TLS
  toServer,   \* records at the server: hello, finished, request
  toClient,   \* records at the client: ticket, answer
  clientConn, \* stats.conn of either program
  serverConn,
  served,     \* stats.rps of either program, of each connection
  counted,
  halted      \* the client ended when it used an SSL object it had freed

handshakes == <<due, arrived, missing>>
vars == <<client, server, due, arrived, missing, toServer, toClient,
          clientConn, serverConn, served, counted, halted>>

Init ==
  /\ client = [c \in Conns |-> "none"] /\ server = [c \in Conns |-> "none"]
  /\ due = [c \in Conns |-> 0] /\ arrived = [c \in Conns |-> 0]
  /\ missing = [c \in Conns |-> Flights]
  /\ toServer = [c \in Conns |-> <<>>] /\ toClient = [c \in Conns |-> <<>>]
  /\ clientConn = 0 /\ serverConn = 0
  /\ served = [c \in Conns |-> 0] /\ counted = [c \in Conns |-> 0]
  /\ halted = FALSE

\* Records written to a peer that is gone are lost.
Send(c, records) ==
  toServer' = [toServer EXCEPT ![c] = IF server[c] = "closed" THEN @ ELSE @ \o records]
Reply(c, left, records) ==
  /\ toServer' = [toServer EXCEPT ![c] = left]
  /\ toClient' = [toClient EXCEPT ![c] = IF client[c] = "closed" THEN @ ELSE @ \o records]

-----------------------------------------------------------------------------
(* The client.                                                             *)

StartClient(c) ==
  /\ client[c] = "none"
  /\ client' = [client EXCEPT ![c] = "connecting"]
  /\ server' = [server EXCEPT ![c] = "backlog"]
  /\ UNCHANGED <<handshakes, toServer, toClient, clientConn, serverConn, served, counted>>

\* The first SSL_do_handshake sends the client's hello.
ClientConnect(c) ==
  /\ client[c] = "connecting"
  /\ client' = [client EXCEPT ![c] = "insecure"]
  /\ clientConn' = clientConn + 1
  /\ Send(c, <<"hello">>)
  /\ UNCHANGED <<server, handshakes, toClient, serverConn, served, counted>>

ClientClose(c) ==
  /\ client' = [client EXCEPT ![c] = "closed"]
  /\ toClient' = [toClient EXCEPT ![c] = <<>>]
  /\ arrived' = [arrived EXCEPT ![c] = 0]
  /\ clientConn' = clientConn - 1

\* The handshake is over, now or since an SSL_read: the request goes out.
HandshakeDone(c) ==
  /\ client[c] = "insecure"
  /\ arrived[c] > 0 \/ toClient[c] # <<>>
  /\ arrived[c] = missing[c]
  /\ client' = [client EXCEPT ![c] = "secure"]
  /\ arrived' = [arrived EXCEPT ![c] = 0]
  /\ missing' = [missing EXCEPT ![c] = 0]
  /\ Send(c, IF missing[c] = 0 THEN <<"request">> ELSE <<"finished", "request">>)
  /\ UNCHANGED <<server, due, toClient, clientConn, serverConn, served, counted>>

\* The handshake wants more, and so SSL_read is tried: it takes in the n
\* pieces that came meanwhile and may end the handshake, which no one notices
\* before the next readable event.
HandshakeWaits(c, n) ==
  /\ client[c] = "insecure"
  /\ 0 < arrived[c] /\ arrived[c] < missing[c]
  /\ n \in 0..due[c]
  /\ missing' = [missing EXCEPT ![c] = @ - arrived[c] - n]
  /\ arrived' = [arrived EXCEPT ![c] = 0]
  /\ due' = [due EXCEPT ![c] = @ - n]
  /\ IF missing'[c] = 0 THEN Send(c, <<"finished">>) ELSE UNCHANGED toServer
  /\ UNCHANGED <<client, server, toClient, clientConn, serverConn, served, counted>>

\* close_socket(fd) in set_secure frees the SSL object that SSL_read (51) then
\* uses: the read fails, and finds nothing left to close, or the process ends.
\* After a result of 0 it is given the socket in place of its descriptor and does
\* nothing; SSL_read then fails on an SSL object that is there, and closes.
HandshakeFails(c) ==
  /\ client[c] = "insecure"
  /\ \/ "alert" \in Faults /\ arrived[c] > 0
     \/ "reset" \in Faults
     \/ server[c] = "closed" /\ arrived[c] = 0
  /\ ClientClose(c)
  /\ halted' \in BOOLEAN
  /\ UNCHANGED <<server, due, missing, toServer, serverConn, served, counted>>

\* SSL_read passes over the tickets before record n.
TicketsBefore(n, records) == \A i \in 1..(n - 1) : records[i] = "ticket"

\* A parsed answer is followed by a request.
ClientNext(c) ==
  /\ client[c] = "secure"
  /\ counted[c] < Bound
  /\ \E n \in 1..Len(toClient[c]) :
       /\ TicketsBefore(n, toClient[c]) /\ toClient[c][n] # "ticket"
       /\ toClient' = [toClient EXCEPT ![c] = SubSeq(@, n + 1, Len(@))]
  /\ counted' = [counted EXCEPT ![c] = @ + 1]
  /\ Send(c, <<"request">>)
  /\ UNCHANGED <<client, server, handshakes, clientConn, serverConn, served>>

\* Nothing but tickets: SSL_read is Blocked.
ClientBlocked(c) ==
  /\ client[c] = "secure"
  /\ toClient[c] # <<>> /\ TicketsBefore(Len(toClient[c]) + 1, toClient[c])
  /\ toClient' = [toClient EXCEPT ![c] = <<>>]
  /\ UNCHANGED <<client, server, handshakes, toServer, clientConn, serverConn, served, counted>>

\* End of file, or an error.
ClientEnd(c) ==
  /\ client[c] = "secure"
  /\ \/ server[c] = "closed" /\ toClient[c] = <<>>
     \/ "reset" \in Faults
  /\ ClientClose(c)
  /\ UNCHANGED <<server, due, missing, toServer, serverConn, served, counted>>

-----------------------------------------------------------------------------
(* The server.                                                             *)

Accept(c) ==
  /\ server[c] = "backlog"
  /\ server' = [server EXCEPT ![c] = "insecure"]
  /\ serverConn' = serverConn + 1
  /\ UNCHANGED <<client, handshakes, toServer, toClient, clientConn, served, counted>>

\* Faulty variant: the connection is not counted down.
CloseUncounted(c) ==
  /\ server' = [server EXCEPT ![c] = "closed"]
  /\ toServer' = [toServer EXCEPT ![c] = <<>>]
  /\ UNCHANGED serverConn

ServerClose(c) ==
  /\ server' = [server EXCEPT ![c] = "closed"]
  /\ toServer' = [toServer EXCEPT ![c] = <<>>]
  /\ serverConn' = serverConn - 1

\* SSL_accept answers the hello and wants more.
ServerFlight(c) ==
  /\ server[c] = "insecure" /\ toServer[c] = <<"hello">>
  /\ toServer' = [toServer EXCEPT ![c] = <<>>]
  /\ due' = [due EXCEPT ![c] = Flights]
  /\ UNCHANGED <<client, server, arrived, missing, toClient, clientConn, serverConn, served, counted>>

Arrive(c) ==
  /\ due[c] > 0
  /\ due' = [due EXCEPT ![c] = @ - 1]
  /\ arrived' = [arrived EXCEPT ![c] = IF client[c] = "closed" THEN 0 ELSE @ + 1]
  /\ UNCHANGED <<client, server, missing, toServer, toClient, clientConn, serverConn, served, counted>>

\* Faulty variant: nothing is sent after the handshake.
NoTickets == <<>>

SessionTickets == [i \in 1..Tickets |-> "ticket"]

\* SSL_accept is done, and SSL_read in the same callback finds the request of
\* the client or is Blocked.
ServerSecure(c) ==
  /\ server[c] = "insecure"
  /\ toServer[c] # <<>> /\ Head(toServer[c]) = "finished"
  /\ server' = [server EXCEPT ![c] = "secure"]
  /\ \/ /\ Reply(c, Tail(toServer[c]), SessionTickets)
        /\ UNCHANGED served
     \/ /\ Tail(toServer[c]) # <<>>
        /\ Reply(c, <<>>, SessionTickets \o <<"answer">>)
        /\ served' = [served EXCEPT ![c] = @ + 1]
  /\ UNCHANGED <<client, handshakes, clientConn, serverConn, counted>>

ServerAnswer(c) ==
  /\ server[c] = "secure" /\ toServer[c] # <<>>
  /\ Reply(c, Tail(toServer[c]), <<"answer">>)
  /\ served' = [served EXCEPT ![c] = @ + 1]
  /\ UNCHANGED <<client, server, handshakes, clientConn, serverConn, counted>>

\* A write to a client that is gone may fail: https-lo.js closes, server.js
\* leaves the rest to the next event.
ServerWriteFails(c) ==
  /\ server[c] = "secure" /\ toServer[c] # <<>>
  /\ client[c] = "closed"
  /\ IF Server = "https-lo" THEN ServerClose(c)
     ELSE /\ toServer' = [toServer EXCEPT ![c] = Tail(@)]
          /\ UNCHANGED <<server, serverConn>>
  /\ UNCHANGED <<client, handshakes, toClient, clientConn, served, counted>>

\* End of file, an error, or a handshake that fails.
ServerEnd(c) ==
  /\ server[c] \in {"insecure", "secure"}
  /\ \/ (halted \/ client[c] = "closed") /\ toServer[c] = <<>>
     \/ "reset" \in Faults
     \/ "alert" \in Faults /\ server[c] = "insecure" /\ toServer[c] # <<>>
  /\ ServerClose(c)
  /\ UNCHANGED <<client, handshakes, toClient, clientConn, served, counted>>

-----------------------------------------------------------------------------
OnClient(c) ==
  /\ ~halted
  /\ \/ /\ \/ StartClient(c) \/ ClientConnect(c)
           \/ HandshakeDone(c) \/ \E n \in 0..due[c] : HandshakeWaits(c, n)
           \/ ClientNext(c) \/ ClientBlocked(c) \/ ClientEnd(c)
        /\ UNCHANGED halted
     \/ HandshakeFails(c)

OnServer(c) ==
  /\ \/ Accept(c) \/ ServerFlight(c) \/ ServerSecure(c)
     \/ ServerAnswer(c) \/ ServerWriteFails(c) \/ ServerEnd(c)
  /\ UNCHANGED halted

Deliver(c) == Arrive(c) /\ UNCHANGED halted

Next == \E c \in Conns : OnClient(c) \/ OnServer(c) \/ Deliver(c)

Spec == Init /\ [][Next]_vars

\* Both loops poll for ever, and the network delivers.
FairSpec ==
  /\ Spec
  /\ \A c \in Conns : WF_vars(OnClient(c)) /\ WF_vars(OnServer(c)) /\ WF_vars(Deliver(c))

-----------------------------------------------------------------------------
AtServer == Seq({"hello", "finished", "request"})
AtClient == Seq({"ticket", "answer"})
Later == Seq({"finished", "request"})   \* at the server, when the hello was read

TypeOK ==
  /\ client \in [Conns -> {"none", "connecting", "insecure", "secure", "closed"}]
  /\ server \in [Conns -> {"none", "backlog", "insecure", "secure", "closed"}]
  /\ due \in [Conns -> 0..Flights] /\ arrived \in [Conns -> 0..Flights]
  /\ missing \in [Conns -> 0..Flights]
  /\ toServer \in [Conns -> AtServer] /\ toClient \in [Conns -> AtClient]
  /\ clientConn \in Nat /\ serverConn \in Nat /\ halted \in BOOLEAN
  /\ served \in [Conns -> Nat] /\ counted \in [Conns -> 0..Bound]

\* The `con` figure of either program counts its open connections.
Figures ==
  /\ clientConn = Cardinality({c \in Conns : client[c] \in {"insecure", "secure"}})
  /\ serverConn = Cardinality({c \in Conns : server[c] \in {"insecure", "secure"}})

\* Why: the server's flight is answered to one hello, and the client's TLS takes
\* in what arrives of it,
Flight(c) ==
  /\ client[c] = "none" => server[c] = "none"
  /\ due[c] + arrived[c] <= missing[c]
  /\ client[c] \in {"none", "connecting"} => toServer[c] = <<>>
  /\ client[c] \in {"none", "connecting"} \/ toServer[c] = <<"hello">> =>
       due[c] = 0 /\ arrived[c] = 0 /\ missing[c] = Flights
  /\ toServer[c] = <<"hello">> => client[c] \in {"insecure", "closed"}
  /\ toServer[c] = <<"hello">> \/ toServer[c] \in Later

\* while both ends live nothing is asked before the handshake is over,
Before(c) == "closed" \notin {client[c], server[c]} =>
  /\ client[c] # "secure" => served[c] = counted[c]
  /\ missing[c] > 0 =>
       client[c] # "secure" /\ server[c] # "secure" /\ toServer[c] \in {<<>>, <<"hello">>}
  /\ missing[c] = 0 /\ server[c] # "secure" =>
       toServer[c] = IF client[c] = "secure" THEN <<"finished", "request">> ELSE <<"finished">>
  /\ server[c] # "secure" => toClient[c] = <<>> /\ served[c] = counted[c]

\* and then either the request is at the server or the answer at the client,
\* behind the tickets.
After(c) == "closed" \notin {client[c], server[c]} /\ server[c] = "secure" =>
  \/ /\ served[c] = counted[c]
     /\ toServer[c] = IF client[c] = "secure" THEN <<"request">> ELSE <<>>
     /\ TicketsBefore(Len(toClient[c]) + 1, toClient[c])
  \/ /\ client[c] = "secure" /\ served[c] = counted[c] + 1
     /\ toServer[c] = <<>>
     /\ toClient[c] # <<>> /\ toClient[c][Len(toClient[c])] = "answer"
     /\ TicketsBefore(Len(toClient[c]), toClient[c])

InTurn(c) == Flight(c) /\ Before(c) /\ After(c)

IInv == TypeOK /\ Figures /\ \A c \in Conns : InTurn(c)

turn ==
  [c \in Conns |->
     IF "closed" \in {client[c], server[c]} THEN "over"
     ELSE IF client[c] # "secure" THEN "off"
     ELSE IF served[c] = counted[c] THEN "asked"
     ELSE IF served[c] = counted[c] + 1 THEN "answered" ELSE "astray"]

R == INSTANCE Rally

\* Client and server take turns on every connection, whatever the handshake
\* went through and whatever else the server sends.
TakesTurns == R!Spec

\* With tickets and no failure every connection goes on being served, also
\* when SSL_read ends the handshake unnoticed (on_socket_event, 47-51).
Served(c) == counted[c] = Bound
KeepsGoing == \A c \in Conns : <>Served(c)
=============================================================================
