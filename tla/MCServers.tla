----------------------------- MODULE MCServers ------------------------------
(***************************************************************************)
(* The http and https servers with their load clients, checked in one run: *)
(* wrk.js or fetch.js against hello-lo.js, the server of rows and the two  *)
(* https servers, mini.js's big body, and hello.c. A behaviour is one of   *)
(* theirs.                                                                 *)
(***************************************************************************)
EXTENDS Integers, OneOf

CONSTANTS
  Conns, None,                        \* connections, and no connection
  HelloBound, RowsBound,              \* answers that are followed: hello-lo.js
  HttpsBound, FetchBound,             \* and the server of rows, the two of https
  HttpsFlights, HttpsTickets,         \* https-lo.js and fetch/server.js: pieces of
  FetchFlights, FetchTickets,         \* the handshake, tickets
  SmallAnswer, BigAnswer,             \* records of the answers of fetch/server.js,
  AmpleRoom, ScantRoom,               \* the room for them in the sockets,
  AmpleRounds, ScantRounds,           \* requests that are followed
  Descriptors, FewDescriptors,        \* hello.c: what it may open, the events of a
  BatchLimit, Requests, SocketRoom,   \* batch, requests of a client, responses in
  WaitingDepth, AheadDepth            \* a socket, requests sent ahead

\* hello-lo.js: messages in pieces, refused connections and resets; the server
\* of rows: whole messages and no failure.
Plain == {"hello", "rows"}
Ht(p) == INSTANCE HttpLoad WITH Server <- p, Cut <- p = "hello",
   Faults <- IF p = "hello" THEN {"refused", "reset"} ELSE {},
   Bound <- IF p = "hello" THEN HelloBound ELSE RowsBound, client <- s1,
   server <- s2, toServer <- s3, toClient <- s4, tornReq <- s5, tornRes <- s6,
   clientConn <- s7, serverConn <- s8, served <- s9, counted <- s10
\* https-lo.js: alerts and resets; fetch/server.js: no failure.
Secure == {"https-lo", "fetch"}
Hs(p) == INSTANCE HttpsLoad WITH Server <- p,
   Flights <- IF p = "fetch" THEN FetchFlights ELSE HttpsFlights,
   Tickets <- IF p = "fetch" THEN FetchTickets ELSE HttpsTickets,
   Faults <- IF p = "fetch" THEN {} ELSE {"reset", "alert"},
   Bound <- IF p = "fetch" THEN FetchBound ELSE HttpsBound, client <- s1,
   server <- s2, due <- s3, arrived <- s4, missing <- s5, toServer <- s6,
   toClient <- s7, clientConn <- s8, serverConn <- s9, served <- s10,
   counted <- s11, halted <- s12
\* The big body fits the send buffer, or is cut short by it.
Bodies == {"fits", "cut"}
Bb(p) == INSTANCE BigBody WITH Small <- SmallAnswer, Big <- BigAnswer,
   Room <- IF p = "fits" THEN AmpleRoom ELSE ScantRoom,
   Rounds <- IF p = "fits" THEN AmpleRounds ELSE ScantRounds,
   asked <- s1, request <- s2, stuck <- s3, wire <- s4, got <- s5,
   served <- s6, done <- s7
\* Clients that wait for each response, clients that send ahead to a server with
\* few descriptors.
Raw == {"waiting", "ahead"}
Hl(p) == INSTANCE HelloC WITH Conn <- Conns,
   Fds <- IF p = "waiting" THEN Descriptors ELSE FewDescriptors,
   MaxEvents <- BatchLimit, Requests <- Requests,
   Depth <- IF p = "waiting" THEN WaitingDepth ELSE AheadDepth,
   Room <- SocketRoom, table <- s1, backlog <- s2,
   batch <- s3, listening <- s4, sent <- s5, taken <- s6, answers <- s7,
   unread <- s8, cut <- s9, gone <- s10

ASSUME Assumptions ==
  /\ \A p \in Plain : Ht(p)!ConnsAssumption /\ Ht(p)!BoundAssumption
  /\ \A p \in Secure : Hs(p)!FlightsAssumption /\ Hs(p)!BoundAssumption
  /\ \A p \in Bodies : Bb(p)!SizesAssumption /\ Bb(p)!RoundsAssumption
  /\ \A p \in Raw : Hl(p)!HelloAssumption

-----------------------------------------------------------------------------
Init ==
  \/ \E p \in Plain : subject = p /\ Ht(p)!Init /\ Off11
  \/ \E p \in Secure : subject = p /\ Hs(p)!Init
  \/ \E p \in Bodies : subject = p /\ Bb(p)!Init /\ Off8
  \/ \E p \in Raw : subject = p /\ Hl(p)!Init /\ Off11

HtStep == \E p \in Plain : subject = p /\ Ht(p)!Next /\ UNCHANGED Rest11
HtClient(c) == subject = "rows" /\ Ht("rows")!OnClient(c) /\ UNCHANGED Rest11
HtServer(c) == subject = "rows" /\ Ht("rows")!OnServer(c) /\ UNCHANGED Rest11
HsStep == \E p \in Secure : subject = p /\ Hs(p)!Next /\ UNCHANGED Rest13
HsClient(c) == subject = "fetch" /\ Hs("fetch")!OnClient(c) /\ UNCHANGED Rest13
HsServer(c) == subject = "fetch" /\ Hs("fetch")!OnServer(c) /\ UNCHANGED Rest13
HsDeliver(c) == subject = "fetch" /\ Hs("fetch")!Deliver(c) /\ UNCHANGED Rest13
BbStep == \E p \in Bodies : subject = p /\ Bb(p)!Next /\ UNCHANGED Rest8
BbRespond == subject = "fits" /\ Bb("fits")!Respond /\ UNCHANGED Rest8
BbRead == subject = "fits" /\ Bb("fits")!Read /\ UNCHANGED Rest8
HlStep == \E p \in Raw : subject = p /\ Hl(p)!Next /\ UNCHANGED Rest11
HlServer == subject = "waiting" /\ Hl("waiting")!ServerStep /\ UNCHANGED Rest11
HlRead(c) == subject = "waiting" /\ Hl("waiting")!Read(c) /\ UNCHANGED Rest11
HlHandled(c) == subject = "waiting" /\ Hl("waiting")!Handled(c) /\ UNCHANGED Rest11
HlAccepted(c) == subject = "waiting" /\ Hl("waiting")!Accepted(c) /\ UNCHANGED Rest11

Clients(c) == HtClient(c) \/ HsClient(c) \/ HlRead(c)
Servers(c) == HtServer(c) \/ HsServer(c)

Next == HtStep \/ HsStep \/ BbStep \/ HlStep

\* The fairness of the specifications liveness is checked of.
Fairness ==
  /\ WF_all(BbRespond \/ HlServer) /\ WF_all(BbRead)
  /\ \A c \in Conns : WF_all(Clients(c)) /\ WF_all(Servers(c)) /\ WF_all(HsDeliver(c))
  /\ \A c \in Conns : SF_all(HlHandled(c)) /\ SF_all(HlAccepted(c))

Spec == Init /\ [][Next]_all /\ Fairness

-----------------------------------------------------------------------------
TypeOK ==
  /\ \A p \in Plain : subject = p => Ht(p)!TypeOK
  /\ \A p \in Secure : subject = p => Hs(p)!TypeOK
  /\ \A p \in Bodies : subject = p => Bb(p)!TypeOK
  /\ \A p \in Raw : subject = p => Hl(p)!TypeOK

\* The figures of client and server: the connections they say they have are
\* those they have, over http and over https, and their rates differ by what is
\* on its way, whether requests arrive in pieces or answers are cut short.
Figures ==
  /\ \A p \in Plain : subject = p => Ht(p)!Figures
  /\ \A p \in Secure : subject = p => Hs(p)!Figures
  /\ \A p \in Bodies : subject = p => Bb(p)!Figures

\* Each connection implements Rally: client and server take turns.
turns ==
  IF subject \in Plain THEN Ht("hello")!turn
  ELSE IF subject \in Secure THEN Hs("fetch")!turn
  ELSE [c \in Conns |-> "off"]
Rallies == INSTANCE Rally WITH turn <- turns
TakesTurns == Rallies!Spec

\* hello.c: an event is handled on the connection it was reported for, and there
\* are no more responses than requests.
Matched ==
  \A p \in Raw : subject = p => Hl(p)!Matched

\* A client is answered: without failures every connection goes on being served,
\* a body that fits the send buffer is delivered whole, and a client of hello.c
\* that waits for each response gets it whole.
Going(c) == (subject = "rows" /\ Ht("rows")!Served(c)) \/ (subject = "fetch" /\ Hs("fetch")!Served(c))
KeepsGoing == \A c \in Conns : (subject \in {"rows", "fetch"}) ~> Going(c)
Delivered == (subject = "fits" /\ Bb("fits")!Waiting) ~> (subject = "fits" /\ ~Bb("fits")!Waiting)
WholeAnswers ==
  \A c \in Conns : \A n \in 1..Requests :
    (subject = "waiting" /\ Hl("waiting")!Asked(c, n)) ~> (subject = "waiting" /\ Hl("waiting")!Whole(c, n))
Answered == KeepsGoing /\ Delivered /\ WholeAnswers

\* hello.c: what a client has left is closed.
Freed ==
  \A c \in Conns : (subject = "waiting" /\ Hl("waiting")!Left(c)) ~> (subject = "waiting" /\ ~Hl("waiting")!Open(c))
=============================================================================
