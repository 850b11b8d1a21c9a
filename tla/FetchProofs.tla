----------------------------- MODULE FetchProofs -----------------------------
(***************************************************************************)
(* Proofs about Fetch, for every set of calls and servers and every        *)
(* response, failure and reaction that Fetch admits.                       *)
(***************************************************************************)
EXTENDS Fetch, SequenceTheorems, TLAPS

Handled == [response: Response, on_bytes: Nat, outcome: {"more", "complete", "error"}]

LEMMA EmptyLen ==
  ASSUME NEW s \in Seq(Responses)
  PROVE  /\ Len(s) \in Nat
         /\ Len(s) = 0 <=> s = << >>
<1>1. Len(s) \in Nat
  OBVIOUS
<1>2. s # << >> => Len(s) # 0
  BY EmptySeq
<1>3. s = << >> => Len(s) = 0
  BY EmptySeq
<1>4. QED BY <1>1, <1>2, <1>3

LEMMA SizeType ==
  ASSUME NEW m \in Responses
  PROVE  /\ m.chunked \in BOOLEAN /\ m.head \in Nat \ {0} /\ m.data \in Nat
         /\ Size(m) \in Nat \ {0} /\ LastChunk(m) \in Nat
         /\ m.head <= Size(m)
BY ResponsesAssumption DEF Size, LastChunk

LEMMA FeedType ==
  ASSUME NEW r \in Response, NEW m \in Responses, NEW from \in Nat, NEW to \in Nat,
         from <= to
  PROVE  Feed(r, m, from, to) \in Handled
<1>1. m.chunked \in BOOLEAN /\ m.head \in Nat /\ m.data \in Nat /\ LastChunk(m) \in Nat
  BY SizeType
<1>2. CASE ~r.chunked
  <2>1. to - from \in Nat /\ r.body_bytes + (to - from) \in Nat
    BY DEF Response
  <2>2. FeedLength(r, m, from, to) \in Handled
    BY <2>1 DEF FeedLength, Handled, Response
  <2>3. QED BY <1>2, <2>2 DEF Feed
<1>3. CASE r.chunked
  <2> DEFINE d == DecodeChunked(r.decoder, m, from, to)
  <2>1. DataUpTo(m, to) - DataUpTo(m, from) \in Nat
    BY <1>1 DEF DataUpTo
  <2>2. d.sz \in Nat /\ d.finished \in BOOLEAN
    BY <2>1 DEF DecodeChunked
  <2>3. r.body_bytes + d.sz \in Nat
    BY <2>2 DEF Response
  <2>4. FeedChunked(r, m, from, to) \in Handled
    BY <2>2, <2>3 DEF FeedChunked, Handled, Response
  <2>5. QED BY <1>3, <2>4 DEF Feed
<1>4. QED BY <1>2, <1>3

LEMMA HandleBytesType ==
  ASSUME TypeOK, NEW c \in Calls, NEW n, CanRead(c, n)
  PROVE  /\ HandleBytes(c, n) \in Handled
         /\ Head(pipe[c]) \in Responses
         /\ pos[c] \in Nat /\ n \in Nat \ {0}
         /\ pos[c] + n <= Size(Head(pipe[c]))
<1> DEFINE m == Head(pipe[c])
           r == response[c]
           to == pos[c] + n
           parsed == [r EXCEPT !.headers_done = TRUE, !.start = 0, !.chunked = m.chunked,
                               !.content_length = IF m.chunked THEN @ ELSE m.data]
<1>1. m \in Responses /\ r \in Response /\ pos[c] \in Nat
  BY DEF TypeOK, CanRead
<1>2. m.chunked \in BOOLEAN /\ m.head \in Nat /\ m.data \in Nat /\ Size(m) \in Nat
  BY <1>1, SizeType
<1>3. n \in Nat \ {0} /\ to \in Nat /\ pos[c] <= to /\ to <= Size(m)
  BY <1>1, <1>2 DEF CanRead
<1>4. parsed \in Response
  BY <1>1, <1>2 DEF Response
<1> SUFFICES HandleBytes(c, n) \in Handled
  BY <1>1, <1>3
<1>5. CASE r.headers_done
  BY <1>1, <1>3, <1>5, FeedType DEF HandleBytes
<1>6. CASE ~r.headers_done /\ pos[c] # r.start /\ pos[c] < LastChunk(m)
  BY <1>1, <1>6 DEF HandleBytes, Handled
<1>7. CASE ~r.headers_done /\ ~(pos[c] # r.start /\ pos[c] < LastChunk(m))
             /\ (pos[c] # r.start \/ to < m.head)
  <2>1. [r EXCEPT !.start = @ + n] \in Response
    BY <1>1, <1>3 DEF Response
  <2>2. QED BY <2>1, <1>7 DEF HandleBytes, Handled
<1>8. CASE ~r.headers_done /\ pos[c] = r.start /\ ~(to < m.head)
  <2>1. Feed(parsed, m, m.head, to) \in Handled
    BY <1>1, <1>2, <1>3, <1>4, <1>8, FeedType
  <2>2. QED BY <2>1, <1>8 DEF HandleBytes
<1>9. QED BY <1>5, <1>6, <1>7, <1>8

-----------------------------------------------------------------------------
(* Types.  Close, write and advance are shared by several actions.          *)

NetworkType ==
  /\ flights \in [Calls -> 0..Flights]
  /\ pipe \in [Calls -> Seq(Responses)]
  /\ pos \in [Calls -> Nat]
  /\ \A c \in Calls : IF pipe[c] = << >> THEN pos[c] = 0 ELSE pos[c] < Size(Head(pipe[c]))

LEMMA SockType ==
  ASSUME TypeOK, NEW c \in Calls
  PROVE  /\ [sock EXCEPT ![c].fd = "closed"] \in [Calls -> Sock]
         /\ [sock EXCEPT ![c].fd = "open"] \in [Calls -> Sock]
         /\ [sock EXCEPT ![c].on = "readable"] \in [Calls -> Sock]
         /\ [sock EXCEPT ![c].state = "SECURE"] \in [Calls -> Sock]
<1>1. sock \in [Calls -> Sock]
  BY DEF TypeOK
<1>2. /\ [sock[c] EXCEPT !.fd = "closed"] \in Sock
      /\ [sock[c] EXCEPT !.fd = "open"] \in Sock
      /\ [sock[c] EXCEPT !.on = "readable"] \in Sock
      /\ [sock[c] EXCEPT !.state = "SECURE"] \in Sock
  BY <1>1 DEF Sock
<1>3. QED BY <1>1, <1>2

LEMMA CloseSocketType ==
  ASSUME TypeOK, NEW c \in Calls, CloseSocket(c)
  PROVE  /\ sockets' \in [Keys -> Calls \cup {None}]
         /\ sock' \in [Calls -> Sock]
         /\ serving' \in [Calls -> Calls \cup {None}]
         /\ NetworkType'
<1>1. Flights \in Nat
  BY FlightsAssumption
<1>2. << >> \in Seq(Responses)
  BY EmptySeq
<1>3. sock' \in [Calls -> Sock]
  BY SockType DEF CloseSocket
<1>4. flights' \in [Calls -> 0..Flights]
  BY <1>1 DEF TypeOK, CloseSocket
<1>5. pipe' \in [Calls -> Seq(Responses)] /\ pos' \in [Calls -> Nat]
  BY <1>2 DEF TypeOK, CloseSocket
<1>6. ASSUME NEW d \in Calls
      PROVE  IF pipe'[d] = << >> THEN pos'[d] = 0 ELSE pos'[d] < Size(Head(pipe'[d]))
  BY DEF TypeOK, CloseSocket
<1>7. QED BY <1>3, <1>4, <1>5, <1>6 DEF TypeOK, CloseSocket, Unpool, NetworkType

LEMMA WriteRequestType ==
  ASSUME TypeOK, NEW c \in Calls, NEW r \in Calls, WriteRequest(c, r), UNCHANGED pos,
         flights' \in [Calls -> 0..Flights]
  PROVE  /\ call' \in [Calls -> {"idle", "lookup", "failed", "connecting", "sent", "answered"}]
         /\ serving' \in [Calls -> Calls \cup {None}]
         /\ NetworkType'
<1>1. CASE pipe' = pipe
  BY <1>1 DEF TypeOK, WriteRequest, NetworkType
<1>2. CASE \E m \in Responses : pipe' = [pipe EXCEPT ![c] = Append(@, m)]
  <2>1. PICK m \in Responses : pipe' = [pipe EXCEPT ![c] = Append(@, m)]
    BY <1>2
  <2>2. Size(m) \in Nat \ {0}
    BY SizeType
  <2>3. pipe[c] \in Seq(Responses)
    BY DEF TypeOK
  <2>4. /\ Append(pipe[c], m) \in Seq(Responses)
        /\ Append(pipe[c], m) # << >>
        /\ Head(Append(pipe[c], m)) = IF pipe[c] = << >> THEN m ELSE Head(pipe[c])
    BY <2>3, AppendProperties, EmptySeq
  <2>5. pipe' \in [Calls -> Seq(Responses)]
    BY <2>1, <2>4 DEF TypeOK
  <2>6. ASSUME NEW d \in Calls
        PROVE  IF pipe'[d] = << >> THEN pos'[d] = 0 ELSE pos'[d] < Size(Head(pipe'[d]))
    <3>1. CASE d # c
      BY <2>1, <3>1 DEF TypeOK
    <3>2. CASE d = c
      <4>1. pipe'[d] = Append(pipe[c], m)
        BY <2>1, <3>2 DEF TypeOK
      <4>2. CASE pipe[c] = << >>
        BY <2>2, <2>4, <3>2, <4>1, <4>2 DEF TypeOK
      <4>3. CASE pipe[c] # << >>
        BY <2>4, <3>2, <4>1, <4>3 DEF TypeOK
      <4>4. QED BY <4>2, <4>3
    <3>3. QED BY <3>1, <3>2
  <2>7. QED BY <2>5, <2>6 DEF TypeOK, WriteRequest, NetworkType
<1>3. QED BY <1>1, <1>2 DEF WriteRequest

LEMMA AdvanceType ==
  ASSUME TypeOK, NEW c \in Calls, NEW n, CanRead(c, n), Advance(c, n), UNCHANGED flights
  PROVE  NetworkType'
<1>1. Head(pipe[c]) \in Responses /\ pos[c] \in Nat /\ n \in Nat \ {0}
      /\ pos[c] + n <= Size(Head(pipe[c]))
  BY HandleBytesType
<1>2. Size(Head(pipe[c])) \in Nat
  BY <1>1, SizeType
<1>3. CASE pos[c] + n = Size(Head(pipe[c]))
  <2>1. pipe[c] \in Seq(Responses) /\ pipe[c] # << >>
    BY DEF TypeOK, CanRead
  <2>2. Tail(pipe[c]) \in Seq(Responses)
    BY <2>1, HeadTailProperties
  <2>3. Tail(pipe[c]) # << >> => Size(Head(Tail(pipe[c]))) \in Nat \ {0}
    BY <2>2, SizeType, HeadTailProperties
  <2>4. pipe' = [pipe EXCEPT ![c] = Tail(@)] /\ pos' = [pos EXCEPT ![c] = 0]
    BY <1>3 DEF Advance
  <2>5. pipe' \in [Calls -> Seq(Responses)] /\ pos' \in [Calls -> Nat]
    BY <2>2, <2>4 DEF TypeOK
  <2>6. ASSUME NEW d \in Calls
        PROVE  IF pipe'[d] = << >> THEN pos'[d] = 0 ELSE pos'[d] < Size(Head(pipe'[d]))
    <3>1. CASE d # c
      BY <2>4, <3>1 DEF TypeOK
    <3>2. CASE d = c
      <4>1. pipe'[d] = Tail(pipe[c]) /\ pos'[d] = 0
        BY <2>4, <3>2 DEF TypeOK
      <4>2. QED BY <2>3, <4>1
    <3>3. QED BY <3>1, <3>2
  <2>7. QED BY <2>5, <2>6 DEF TypeOK, NetworkType
<1>4. CASE pos[c] + n # Size(Head(pipe[c]))
  <2>1. pipe' = pipe /\ pos' = [pos EXCEPT ![c] = @ + n]
    BY <1>4 DEF Advance
  <2>2. pos' \in [Calls -> Nat]
    BY <1>1, <2>1 DEF TypeOK
  <2>3. pos[c] + n < Size(Head(pipe[c])) /\ pipe[c] # << >>
    BY <1>1, <1>2, <1>4 DEF CanRead
  <2>4. ASSUME NEW d \in Calls
        PROVE  IF pipe'[d] = << >> THEN pos'[d] = 0 ELSE pos'[d] < Size(Head(pipe'[d]))
    BY <2>1, <2>3 DEF TypeOK
  <2>5. QED BY <2>1, <2>2, <2>4 DEF TypeOK, NetworkType
<1>5. QED BY <1>3, <1>4

LEMMA StoreType ==
  ASSUME TypeOK, NEW c \in Calls, NEW n, CanRead(c, n), Store(c, n)
  PROVE  response' \in [Calls -> Response] /\ received' \in [Calls -> Nat]
<1>1. HandleBytes(c, n).response \in Response /\ HandleBytes(c, n).on_bytes \in Nat
  BY HandleBytesType DEF Handled
<1>2. QED BY <1>1 DEF TypeOK, Store

LEMMA CompletedType ==
  ASSUME TypeOK, NEW c \in Calls, NEW n, Completed(c, n)
  PROVE  /\ CanRead(c, n)
         /\ response' \in [Calls -> Response]
         /\ received' \in [Calls -> Nat]
         /\ callbacks' \in [Calls -> Nat]
         /\ Answered(c) \in
              [Calls -> {"idle", "lookup", "failed", "connecting", "sent", "answered"}]
<1>1. CanRead(c, n) /\ Store(c, n)
  BY DEF Completed
<1>2. QED BY <1>1, StoreType DEF Completed, Answered, TypeOK

LEMMA PooledType ==
  ASSUME TypeOK, NEW c \in Calls, NEW n, Pooled(c, n)
  PROVE  /\ sockets' \in [Keys -> Calls \cup {None}]
         /\ serving' \in [Calls -> Calls \cup {None}]
         /\ sock' \in [Calls -> Sock]
         /\ NetworkType'
<1>1. CanRead(c, n)
  BY DEF Pooled, Completed
<1>2. NetworkType'
  BY <1>1, AdvanceType DEF Pooled
<1>3. QED BY <1>2 DEF Pooled, TypeOK

LEMMA TypeInit == Init => TypeOK
<1> SUFFICES ASSUME Init PROVE TypeOK
  OBVIOUS
<1>1. << >> \in Seq(Responses)
  BY EmptySeq
<1>2. 0 \in 0..Flights
  BY FlightsAssumption
<1>3. sock \in [Calls -> Sock]
  BY DEF Init, Sock
<1>4. response \in [Calls -> Response]
  BY DEF Init, NewResponse, Response
<1>5. pipe \in [Calls -> Seq(Responses)]
  BY <1>1 DEF Init
<1>6. \A c \in Calls : pipe[c] = << >> /\ pos[c] = 0
  BY DEF Init
<1>7. flights \in [Calls -> 0..Flights]
  BY <1>2 DEF Init
<1>8. QED BY <1>3, <1>4, <1>5, <1>6, <1>7 DEF Init, TypeOK

LEMMA NewResponseType == NewResponse \in Response
BY DEF NewResponse, Response

LEMMA TypeNext == TypeOK /\ [Next]_vars => TypeOK'
<1> SUFFICES ASSUME TypeOK, [Next]_vars PROVE TypeOK'
  OBVIOUS
<1> USE DEF client, network, history
<1>1. ASSUME NEW c \in Calls, HttpGet(c) PROVE TypeOK'
  BY <1>1 DEF HttpGet, TypeOK
<1>2. ASSUME NEW c \in Calls, LookupError(c) PROVE TypeOK'
  BY <1>2 DEF LookupError, TypeOK
<1>3. ASSUME NEW c \in Calls, Connect(c) PROVE TypeOK'
  <2>1. sock' \in [Calls -> Sock]
    BY <1>3, SockType DEF Connect
  <2>2. QED BY <1>3, <2>1 DEF Connect, TypeOK
<1>4. ASSUME NEW r \in Calls, Reuse(r) PROVE TypeOK'
  <2> DEFINE c == sockets[key[r]]
  <2>1. c \in Calls /\ WriteRequest(c, r) /\ ResetResponse(c) /\ TakeFromPool(r)
    BY <1>4 DEF Reuse, TypeOK
  <2>2. response' \in [Calls -> Response]
    BY <2>1 DEF ResetResponse, TypeOK, NewResponse, Response
  <2>3. sockets' \in [Keys -> Calls \cup {None}]
    BY <2>1 DEF TakeFromPool, TypeOK
  <2>4. /\ call' \in [Calls -> {"idle", "lookup", "failed", "connecting", "sent", "answered"}]
        /\ serving' \in [Calls -> Calls \cup {None}]
        /\ NetworkType'
    BY <1>4, <2>1, WriteRequestType DEF Reuse, TypeOK
  <2>5. QED BY <1>4, <2>2, <2>3, <2>4 DEF Reuse, TypeOK, NetworkType
<1>5. ASSUME NEW c \in Calls, ConnectReady(c) PROVE TypeOK'
  <2>1. sock' \in [Calls -> Sock]
    BY <1>5, SockType DEF ConnectReady
  <2>2. response' \in [Calls -> Response] /\ flights' \in [Calls -> 0..Flights]
    BY <1>5, NewResponseType, FlightsAssumption DEF ConnectReady, TypeOK
  <2>3. QED BY <1>5, <2>1, <2>2 DEF ConnectReady, TypeOK
<1>6. ASSUME NEW c \in Calls, ConnectFail(c) PROVE TypeOK'
  <2>1. response' \in [Calls -> Response]
    BY <1>6, NewResponseType DEF ConnectFail, TypeOK
  <2>2. QED BY <1>6, <2>1, CloseSocketType DEF ConnectFail, TypeOK, NetworkType
<1>7. ASSUME NEW c \in Calls, HandshakeStep(c) PROVE TypeOK'
  <2>1. PICK n \in 0..flights[c] : Handshake(c, n)
    BY <1>7 DEF HandshakeStep
  <2>2. CASE n = flights[c] /\ WriteRequest(c, c)
    <3>1. n = flights[c] /\ sock' = [sock EXCEPT ![c].state = "SECURE"]
          /\ flights' = [flights EXCEPT ![c] = 0]
      BY <2>1, <2>2 DEF Handshake, WriteRequest
    <3>2. sock' \in [Calls -> Sock]
      BY <3>1, SockType
    <3>3. flights' \in [Calls -> 0..Flights]
      BY <3>1, FlightsAssumption DEF TypeOK
    <3>4. QED BY <2>1, <2>2, <3>2, <3>3, WriteRequestType DEF Handshake, TypeOK, NetworkType
  <2>3. CASE /\ n < flights[c]
             /\ \E left \in 0..(flights[c] - n) : flights' = [flights EXCEPT ![c] = left]
             /\ UNCHANGED <<sock, call, pipe, serving>>
    <3>1. flights' \in [Calls -> 0..Flights]
      BY <2>3, FlightsAssumption DEF TypeOK
    <3>2. QED BY <2>1, <2>3, <3>1 DEF Handshake, TypeOK
  <2>4. QED BY <2>1, <2>2, <2>3 DEF Handshake
<1>8. ASSUME NEW c \in Calls, HandshakeFail(c) PROVE TypeOK'
  BY <1>8, CloseSocketType DEF HandshakeFail, TypeOK, NetworkType
<1>9. ASSUME NEW c \in Calls, Read(c) PROVE TypeOK'
  <2>1. PICK n \in Octets(c) : ReadMore(c, n) \/ ReadError(c, n)
    BY <1>9 DEF Read
  <2>2. CASE ReadMore(c, n)
    BY <2>2, StoreType, AdvanceType DEF ReadMore, TypeOK, NetworkType
  <2>3. CASE ReadError(c, n)
    BY <2>3, StoreType, CloseSocketType DEF ReadError, TypeOK, NetworkType
  <2>4. QED BY <2>1, <2>2, <2>3
<1>10. ASSUME NEW c \in Calls, ErrorEvent(c) PROVE TypeOK'
  BY <1>10, CloseSocketType DEF ErrorEvent, TypeOK, NetworkType
<1>11. ASSUME NEW c \in Calls, ServerClose(c) PROVE TypeOK'
  <2>1. flights' \in [Calls -> 0..Flights]
    BY <1>11, FlightsAssumption DEF ServerClose, TypeOK
  <2>2. pipe' \in [Calls -> Seq(Responses)] /\ pos' \in [Calls -> Nat]
    BY <1>11, EmptySeq DEF ServerClose, TypeOK
  <2>3. ASSUME NEW d \in Calls
        PROVE  IF pipe'[d] = << >> THEN pos'[d] = 0 ELSE pos'[d] < Size(Head(pipe'[d]))
    BY <1>11 DEF ServerClose, TypeOK
  <2>4. QED BY <1>11, <2>1, <2>2, <2>3 DEF ServerClose, TypeOK
<1>12. ASSUME NEW c \in Calls, Complete(c) PROVE TypeOK'
  <2>1. PICK n \in Octets(c) :
          CompleteKeep(c, n) \/ CompleteLater(c, n) \/ CompleteClose(c, n)
            \/ \E r \in Calls : CompleteAgain(c, n, r)
    BY <1>12 DEF Complete
  <2>2. CASE CompleteKeep(c, n) \/ CompleteLater(c, n) \/ \E r \in Calls : CompleteAgain(c, n, r)
    <3>1. Pooled(c, n)
      BY <2>2 DEF CompleteKeep, CompleteLater, CompleteAgain
    <3>2. Completed(c, n)
      BY <3>1 DEF Pooled
    <3>3. call' \in [Calls -> {"idle", "lookup", "failed", "connecting", "sent", "answered"}]
          /\ closing' \subseteq Calls
      <4>1. Answered(c) \in
              [Calls -> {"idle", "lookup", "failed", "connecting", "sent", "answered"}]
        BY <3>2, CompletedType
      <4>2. call' = Answered(c) \/ \E r \in Calls : call' = [Answered(c) EXCEPT ![r] = "lookup"]
        BY <2>2 DEF CompleteKeep, CompleteLater, CompleteAgain
      <4>3. closing' = closing \/ closing' = closing \cup {c}
        BY <2>2 DEF CompleteKeep, CompleteLater, CompleteAgain
      <4>4. closing \subseteq Calls
        BY DEF TypeOK
      <4>5. QED BY <4>1, <4>2, <4>3, <4>4
    <3>4. QED BY <3>1, <3>2, <3>3, CompletedType, PooledType DEF Completed, TypeOK, NetworkType
  <2>3. CASE CompleteClose(c, n)
    BY <2>3, CompletedType, CloseSocketType DEF CompleteClose, Completed, TypeOK, NetworkType
  <2>4. QED BY <2>1, <2>2, <2>3
<1>13. ASSUME NEW c \in Calls, ResClose(c) PROVE TypeOK'
  BY <1>13, CloseSocketType DEF ResClose, TypeOK, NetworkType
<1>14. CASE UNCHANGED vars
  BY <1>14 DEF vars, TypeOK
<1>15. QED
  BY <1>1, <1>2, <1>3, <1>4, <1>5, <1>6, <1>7, <1>8, <1>9, <1>10, <1>11, <1>12, <1>13, <1>14
  DEF Next, Internal, Lookup

\* Every variable keeps its type, and no connection is ever read past the end of
\* a response (the position of fetch.js:133-135 in what the server sent).
THEOREM TypeCorrect == Spec => []TypeOK
<1>1. Init => TypeOK
  BY TypeInit
<1>2. TypeOK /\ [Next]_vars => TypeOK'
  BY TypeNext
<1>3. QED BY <1>1, <1>2, PTL DEF Spec

-----------------------------------------------------------------------------
(* The pool.  PoolSound is inductive together with TypeOK: an entry listed  *)
(* under its own key is found, and removed, by whatever concerns its        *)
(* connection.                                                              *)

LEMMA CloseSocketPool ==
  ASSUME TypeOK, PoolSound, NEW c \in Calls, CloseSocket(c), UNCHANGED key
  PROVE  PoolSound'
<1> SUFFICES ASSUME NEW k \in Keys, sockets'[k] # None
             PROVE  /\ sock'[sockets'[k]] =
                         [fd |-> "open", on |-> "readable", state |-> "SECURE"]
                    /\ key'[sockets'[k]] = k
                    /\ serving'[sockets'[k]] = None
  BY DEF PoolSound
<1>1. k # key[c] /\ sockets'[k] = sockets[k]
  BY DEF CloseSocket, Unpool, TypeOK
<1>2. sockets[k] \in Calls /\ key[sockets[k]] = k
  BY <1>1 DEF PoolSound, TypeOK
<1>3. sockets[k] # c
  BY <1>1, <1>2
<1>4. sock'[sockets[k]] = sock[sockets[k]] /\ serving'[sockets[k]] = serving[sockets[k]]
  BY <1>2, <1>3 DEF CloseSocket, TypeOK
<1>5. QED BY <1>1, <1>2, <1>4 DEF PoolSound

LEMMA PooledPool ==
  ASSUME TypeOK, PoolSound, NEW c \in Calls, NEW n, Pooled(c, n)
  PROVE  PoolSound'
<1> SUFFICES ASSUME NEW k \in Keys, sockets'[k] # None
             PROVE  /\ sock'[sockets'[k]] =
                         [fd |-> "open", on |-> "readable", state |-> "SECURE"]
                    /\ key'[sockets'[k]] = k
                    /\ serving'[sockets'[k]] = None
  BY DEF PoolSound
<1>1. sock[c] = [fd |-> "open", on |-> "readable", state |-> "SECURE"]
  BY DEF Pooled, Completed, CanRead, Readable, TypeOK, Sock
<1>2. /\ sock' = sock /\ key' = key
      /\ sockets' = [sockets EXCEPT ![key[c]] = c]
      /\ serving' = [serving EXCEPT ![c] = None]
  BY DEF Pooled, Completed
<1>3. CASE k = key[c]
  BY <1>1, <1>2, <1>3 DEF TypeOK
<1>4. CASE k # key[c]
  BY <1>2, <1>4 DEF TypeOK, PoolSound
<1>5. QED BY <1>3, <1>4

\* A step that leaves the pool alone and touches no pooled connection.
LEMMA PoolKept ==
  ASSUME PoolSound, UNCHANGED <<sockets, key>>,
         \A k \in Keys : sockets[k] # None =>
           /\ sock'[sockets[k]] = sock[sockets[k]]
           /\ serving'[sockets[k]] = serving[sockets[k]]
  PROVE  PoolSound'
BY DEF PoolSound

LEMMA PoolNext == TypeOK /\ PoolSound /\ [Next]_vars => PoolSound'
<1> SUFFICES ASSUME TypeOK, PoolSound, [Next]_vars PROVE PoolSound'
  OBVIOUS
<1> USE DEF client, network, history
<1>1. ASSUME NEW c \in Calls, HttpGet(c) \/ LookupError(c) \/ ServerClose(c) PROVE PoolSound'
  BY <1>1, PoolKept DEF HttpGet, LookupError, ServerClose
<1>2. ASSUME NEW c \in Calls, Connect(c) PROVE PoolSound'
  <2>1. \A k \in Keys : sockets[k] # None => sock'[sockets[k]] = sock[sockets[k]]
    BY <1>2 DEF Connect, PoolSound, TypeOK, Sock
  <2>2. QED BY <1>2, <2>1, PoolKept DEF Connect
<1>3. ASSUME NEW r \in Calls, Reuse(r) PROVE PoolSound'
  <2> DEFINE c == sockets[key[r]]
  <2>1. /\ c \in Calls /\ key[c] = key[r]
        /\ sockets' = [sockets EXCEPT ![key[r]] = None]
        /\ serving' = [serving EXCEPT ![c] = r]
        /\ sock' = sock /\ key' = key
    BY <1>3 DEF Reuse, WriteRequest, TakeFromPool, PoolSound, TypeOK
  <2>2. QED BY <2>1 DEF PoolSound, TypeOK
<1>4. ASSUME NEW c \in Calls, ConnectReady(c) PROVE PoolSound'
  <2>1. \A k \in Keys : sockets[k] # None => sockets[k] # c
    BY <1>4 DEF ConnectReady, Writable, PoolSound
  <2>2. QED BY <1>4, <2>1, PoolKept DEF ConnectReady, TypeOK
<1>5. ASSUME NEW c \in Calls,
             ConnectFail(c) \/ HandshakeFail(c) \/ ErrorEvent(c) \/ ResClose(c)
      PROVE  PoolSound'
  BY <1>5, CloseSocketPool DEF ConnectFail, HandshakeFail, ErrorEvent, ResClose
<1>6. ASSUME NEW c \in Calls, HandshakeStep(c) PROVE PoolSound'
  <2>1. PICK n \in 0..flights[c] : Handshake(c, n)
    BY <1>6 DEF HandshakeStep
  <2>2. \A k \in Keys : sockets[k] # None => sockets[k] # c
    BY <2>1 DEF Handshake, PoolSound
  <2>3. \A d \in Calls \ {c} : sock'[d] = sock[d] /\ serving'[d] = serving[d]
    BY <2>1 DEF Handshake, WriteRequest, TypeOK
  <2>4. QED BY <2>1, <2>2, <2>3, PoolKept DEF Handshake, TypeOK
<1>7. ASSUME NEW c \in Calls, Read(c) PROVE PoolSound'
  <2>1. PICK n \in Octets(c) : ReadMore(c, n) \/ ReadError(c, n)
    BY <1>7 DEF Read
  <2>2. CASE ReadMore(c, n)
    BY <2>2, PoolKept DEF ReadMore
  <2>3. CASE ReadError(c, n)
    BY <2>3, CloseSocketPool DEF ReadError
  <2>4. QED BY <2>1, <2>2, <2>3
<1>8. ASSUME NEW c \in Calls, Complete(c) PROVE PoolSound'
  <2>1. PICK n \in Octets(c) :
          CompleteKeep(c, n) \/ CompleteLater(c, n) \/ CompleteClose(c, n)
            \/ \E r \in Calls : CompleteAgain(c, n, r)
    BY <1>8 DEF Complete
  <2>2. CASE CompleteKeep(c, n) \/ CompleteLater(c, n) \/ \E r \in Calls : CompleteAgain(c, n, r)
    BY <2>2, PooledPool DEF CompleteKeep, CompleteLater, CompleteAgain
  <2>3. CASE CompleteClose(c, n)
    BY <2>3, CloseSocketPool DEF CompleteClose, Completed
  <2>4. QED BY <2>1, <2>2, <2>3
<1>9. CASE UNCHANGED vars
  BY <1>9 DEF vars, PoolSound
<1>10. QED
  BY <1>1, <1>2, <1>3, <1>4, <1>5, <1>6, <1>7, <1>8, <1>9 DEF Next, Internal, Lookup

\* Whatever servers send (chunked bodies included), whatever fails and however
\* late responses are closed, what http_get finds in the pool is an open
\* connection to its server that carries no request (fetch.js:231-245).
THEOREM PoolSafety == Spec => []PoolSound
<1>1. Init => PoolSound
  BY DEF Init, PoolSound
<1>2. TypeOK /\ PoolSound /\ [Next]_vars => PoolSound'
  BY PoolNext
<1>3. QED BY <1>1, <1>2, TypeCorrect, PTL DEF Spec

-----------------------------------------------------------------------------
(* Servers that send Content-Length responses, or callers that close each   *)
(* response.  The invariant says where the reader of each connection stands *)
(* in the response on its way, and which call a connection carries.         *)

LengthOnly == \A m \in Responses : ~m.chunked

CloseEach == Reactions \subseteq {"close"}

\* No connection carries another exchange after a chunked body.
Orderly == LengthOnly \/ CloseEach

\* Where the reader of response m stands, when it has read p octets of it, made
\* r of them and passed `passed` octets to on_bytes.
At(m, r, p, passed) ==
  IF ~r.headers_done
  THEN /\ r.start = p
       /\ p < m.head
       /\ r.body_bytes = 0
       /\ m.chunked => r.decoder = "fresh"
  ELSE /\ r.chunked = m.chunked
       /\ m.head <= p
       /\ r.body_bytes = passed
       /\ m.chunked => r.decoder = "fresh" /\ passed = DataUpTo(m, p)
       /\ ~m.chunked => r.content_length = m.data /\ passed = p - m.head

\* The reader of c knows where in the response it is.
Aligned(c) == pipe[c] # << >> => At(Head(pipe[c]), response[c], pos[c], received[c])

\* A connection that is closed after its first response is never pooled.
EmptyPool == CloseEach => \A k \in Keys : sockets[k] = None

\* Before the handshake nothing was written or read.
Fresh(c) ==
  /\ sock[c].on = "writable" => sock[c].state = "INSECURE"
  /\ sock[c].state = "INSECURE" =>
       /\ response[c] = NewResponse
       /\ serving[c] = None
       /\ sock[c].fd = "open" => call[c] = "connecting"

InStepAt(c) ==
  /\ Len(pipe[c]) <= 1
  /\ serving[c] = None => pipe[c] = << >>

\* The call a connection carries was sent to the server of the connection.
Carried(c) ==
  serving[c] # None =>
    /\ sock[c].fd = "open"
    /\ call[serving[c]] = "sent"
    /\ key[serving[c]] = key[c]

Unopened(c) ==
  /\ call[c] \in {"idle", "lookup", "failed"} => sock[c].fd = "unused"
  /\ sock[c].fd = "unused" => c \notin closing

OneCarrier == \A c, d \in Calls : serving[c] # None /\ serving[c] = serving[d] => c = d

ConnOK(c) == InStepAt(c) /\ Aligned(c) /\ Fresh(c) /\ Carried(c) /\ Unopened(c)

ConnInv == \A c \in Calls : ConnOK(c)

ReaderInv == TypeOK /\ PoolSound /\ EmptyPool /\ OneCarrier /\ ConnInv

LEMMA EmptyPoolNext == TypeOK /\ EmptyPool /\ [Next]_vars => EmptyPool'
<1> SUFFICES ASSUME TypeOK, EmptyPool, [Next]_vars, CloseEach PROVE \A k \in Keys : sockets'[k] = None
  BY DEF EmptyPool, CloseEach
<1> USE DEF client, network, history
<1>1. \A k \in Keys : sockets[k] = None
  BY DEF EmptyPool
<1>2. ASSUME NEW c \in Calls, CloseSocket(c) PROVE \A k \in Keys : sockets'[k] = None
  BY <1>1, <1>2 DEF CloseSocket, Unpool, TypeOK
<1>3. ASSUME NEW c \in Calls,
             HttpGet(c) \/ LookupError(c) \/ Connect(c) \/ ConnectReady(c) \/ ServerClose(c)
               \/ HandshakeStep(c)
      PROVE  sockets' = sockets
  BY <1>3
  DEF HttpGet, LookupError, Connect, ConnectReady, ServerClose, HandshakeStep, Handshake
<1>4. ASSUME NEW r \in Calls, Reuse(r) PROVE FALSE
  BY <1>1, <1>4 DEF Reuse, TypeOK
<1>5. ASSUME NEW c \in Calls,
             ConnectFail(c) \/ HandshakeFail(c) \/ ErrorEvent(c) \/ ResClose(c)
      PROVE  CloseSocket(c)
  BY <1>5 DEF ConnectFail, HandshakeFail, ErrorEvent, ResClose
<1>6. ASSUME NEW c \in Calls, Read(c) PROVE sockets' = sockets \/ CloseSocket(c)
  BY <1>6 DEF Read, ReadMore, ReadError
<1>7. ASSUME NEW c \in Calls, Complete(c) PROVE CloseSocket(c)
  BY <1>7 DEF Complete, CompleteKeep, CompleteLater, CompleteAgain, CompleteClose, CloseEach
<1>8. CASE UNCHANGED vars
  BY <1>1, <1>8 DEF vars
<1>9. QED
  BY <1>1, <1>2, <1>3, <1>4, <1>5, <1>6, <1>7, <1>8 DEF Next, Internal, Lookup

\* The decoder, when it is fresh, counts the data octets of the body and stops
\* behind the last-chunk line, with all of them decoded.
LEMMA ChunksDecoded ==
  ASSUME NEW m \in Responses, NEW from \in Nat, NEW to \in Nat, from <= to
  PROVE  LET d == DecodeChunked("fresh", m, from, to) IN
         /\ d.finished <=> LastChunk(m) <= to
         /\ d.sz \in Nat
         /\ DataUpTo(m, from) + d.sz = DataUpTo(m, to)
         /\ d.finished => DataUpTo(m, to) = m.data
         /\ DataUpTo(m, m.head) = 0
<1>1. m.head \in Nat \ {0} /\ m.data \in Nat
  BY SizeType
<1>2. DataUpTo(m, from) \in Nat /\ DataUpTo(m, to) \in Nat /\ DataUpTo(m, from) <= DataUpTo(m, to)
  BY <1>1 DEF DataUpTo
<1>3. LastChunk(m) <= to => DataUpTo(m, to) = m.data
  BY <1>1 DEF DataUpTo, LastChunk
<1>4. DataUpTo(m, m.head) = 0
  BY <1>1 DEF DataUpTo
<1>5. DecodeChunked("fresh", m, from, to) =
        [finished |-> LastChunk(m) <= to, left |-> to - LastChunk(m),
         sz |-> DataUpTo(m, to) - DataUpTo(m, from)]
  BY DEF DecodeChunked
<1> DEFINE d == DecodeChunked("fresh", m, from, to)
<1>6. d.finished <=> LastChunk(m) <= to
  <2>1. CASE LastChunk(m) <= to
    <3>1. d.finished = TRUE
      BY <2>1 DEF DecodeChunked
    <3>2. QED BY <2>1, <3>1
  <2>2. CASE ~(LastChunk(m) <= to)
    <3>1. (LastChunk(m) <= to) = FALSE
      BY <2>2, SizeType
    <3>2. d = [finished |-> FALSE, left |-> to - LastChunk(m),
               sz |-> DataUpTo(m, to) - DataUpTo(m, from)]
      BY <1>5, <3>1, Zenon
    <3>3. QED BY <2>2, <3>2
  <2>3. QED BY <2>1, <2>2
<1> HIDE DEF d
<1>7. d.sz \in Nat /\ DataUpTo(m, from) + d.sz = DataUpTo(m, to)
  BY <1>2, <1>5 DEF d
<1>8. QED BY <1>3, <1>4, <1>6, <1>7 DEF d

\* Body octets of m given to a reader that stands at `from`, behind the head:
\* it stands at `to` afterwards, or the body is complete, or, if it is chunked,
\* its end is taken for an error.
LEMMA FedAt ==
  ASSUME NEW m \in Responses, NEW r \in Response, NEW from \in Nat, NEW to \in Nat,
         NEW passed \in Nat, from <= to, to <= Size(m), r.headers_done, At(m, r, from, passed)
  PROVE  LET h == Feed(r, m, from, to)
             all == passed + h.on_bytes
         IN  /\ h.outcome = "error" => m.chunked
             /\ h.outcome = "complete" =>
                  /\ h.response.body_bytes = m.data /\ all = m.data
                  /\ ~m.chunked => to = Size(m)
             /\ h.outcome = "more" \/ (~m.chunked /\ to < Size(m)) => At(m, h.response, to, all)
<1> DEFINE h == Feed(r, m, from, to)
<1>1. m.chunked \in BOOLEAN /\ m.head \in Nat \ {0} /\ m.data \in Nat
  BY SizeType
<1>2. CASE m.chunked
  <2> DEFINE d == DecodeChunked("fresh", m, from, to)
  <2>1. r.chunked /\ r.decoder = "fresh" /\ m.head <= from /\ r.body_bytes = passed
        /\ passed = DataUpTo(m, from)
    BY <1>2 DEF At
  <2>2. /\ d.sz \in Nat /\ DataUpTo(m, from) + d.sz = DataUpTo(m, to)
        /\ d.finished => DataUpTo(m, to) = m.data
    BY ChunksDecoded
  <2>3. h = FeedChunked(r, m, from, to)
    BY <2>1 DEF Feed
  <2>4. DecodeChunked(r.decoder, m, from, to) = d
    BY <2>1
  <2> HIDE DEF d
  <2>5. CASE d.finished /\ d.left = 0
    BY <1>2, <2>3, <2>4, <2>5 DEF FeedChunked
  <2>6. CASE d.finished /\ d.left # 0
    <3>1. h.response.body_bytes = passed + d.sz /\ h.on_bytes = d.sz /\ h.outcome = "complete"
      BY <2>1, <2>3, <2>4, <2>6 DEF FeedChunked, Response
    <3>2. QED BY <1>2, <2>1, <2>2, <2>6, <3>1
  <2>7. CASE ~d.finished
    <3>1. /\ h.response = [r EXCEPT !.body_bytes = @ + d.sz, !.decoder = @]
          /\ h.on_bytes = d.sz /\ h.outcome = "more"
      BY <2>3, <2>4, <2>7 DEF FeedChunked
    <3>2. /\ h.response.headers_done /\ h.response.chunked = m.chunked
          /\ h.response.decoder = "fresh" /\ h.response.body_bytes = passed + d.sz
      BY <1>2, <2>1, <3>1 DEF Response
    <3>3. m.head <= to
      BY <1>1, <2>1
    <3>4. passed + d.sz = DataUpTo(m, to)
      BY <2>1, <2>2
    <3>5. QED BY <1>2, <3>1, <3>2, <3>3, <3>4 DEF At
  <2>8. QED BY <2>5, <2>6, <2>7
<1>3. CASE ~m.chunked
  <2>1. /\ ~r.chunked /\ r.content_length = m.data /\ m.head <= from
        /\ r.body_bytes = passed /\ passed = from - m.head
    BY <1>1, <1>3 DEF At, Response
  <2>2. h = FeedLength(r, m, from, to)
    BY <2>1 DEF Feed
  <2>3. /\ h.response = [r EXCEPT !.body_bytes = @ + (to - from)]
        /\ h.on_bytes = to - from
        /\ h.outcome = IF to > from /\ passed + (to - from) = m.data THEN "complete" ELSE "more"
    BY <2>1, <2>2 DEF FeedLength
  <2>4. /\ h.response.headers_done /\ h.response.chunked = m.chunked
        /\ h.response.content_length = m.data /\ h.response.body_bytes = passed + (to - from)
    BY <1>1, <1>3, <2>1, <2>3 DEF Response
  <2>5. passed + (to - from) = to - m.head /\ m.head <= to
    BY <1>1, <2>1
  <2>6. At(m, h.response, to, passed + h.on_bytes)
    BY <1>3, <2>3, <2>4, <2>5 DEF At
  <2>7. Size(m) = m.head + m.data
    BY <1>3 DEF Size
  <2>8. h.outcome = "complete" => to - m.head = m.data
    BY <2>3, <2>5
  <2>9. QED BY <1>1, <1>3, <2>3, <2>4, <2>5, <2>6, <2>7, <2>8
<1>4. QED BY <1>1, <1>2, <1>3

\* What handle_response makes of n octets when the reader is aligned: an error
\* only at the end of a chunked body, complete exactly when the body is, and
\* aligned again before that.
LEMMA HandleAligned ==
  ASSUME TypeOK, NEW c \in Calls, NEW n, CanRead(c, n), Aligned(c), Store(c, n)
  PROVE  LET m == Head(pipe[c])
             to == pos[c] + n
             h == HandleBytes(c, n)
         IN  /\ h.outcome = "error" => m.chunked
             /\ h.outcome = "complete" =>
                  /\ response'[c].body_bytes = m.data /\ received'[c] = m.data
                  /\ ~m.chunked => to = Size(m)
             /\ h.outcome = "more" \/ (~m.chunked /\ to < Size(m)) =>
                  At(m, response'[c], to, received'[c])
<1> DEFINE m == Head(pipe[c])
           r == response[c]
           to == pos[c] + n
           h == HandleBytes(c, n)
           parsed == [r EXCEPT !.headers_done = TRUE, !.start = 0, !.chunked = m.chunked,
                               !.content_length = IF m.chunked THEN @ ELSE m.data]
<1>1. m \in Responses /\ pos[c] \in Nat /\ n \in Nat \ {0} /\ to <= Size(m) /\ to \in Nat
      /\ pos[c] <= to
  BY HandleBytesType
<1>2. m.head \in Nat \ {0} /\ m.data \in Nat /\ m.chunked \in BOOLEAN
  BY <1>1, SizeType
<1>3. /\ response'[c] = h.response
      /\ received'[c] = IF r.headers_done THEN received[c] + h.on_bytes ELSE h.on_bytes
  BY DEF Store, TypeOK
<1>4. r \in Response /\ received[c] \in Nat /\ At(m, r, pos[c], received[c])
  BY DEF TypeOK, CanRead, Aligned
<1>5. CASE r.headers_done
  <2>1. h = Feed(r, m, pos[c], to)
    BY <1>5 DEF HandleBytes
  <2>2. received'[c] = received[c] + h.on_bytes
    BY <1>3, <1>5
  <2> HIDE DEF h, m, r, to
  <2>3. QED BY <1>1, <1>3, <1>4, <1>5, <2>1, <2>2, FedAt DEF h, m, r, to
<1>6. CASE ~r.headers_done /\ to < m.head
  <2>1. r.start = pos[c] /\ r.body_bytes = 0 /\ (m.chunked => r.decoder = "fresh")
    BY <1>4, <1>6 DEF At
  <2>2. h = [response |-> [r EXCEPT !.start = @ + n], on_bytes |-> 0, outcome |-> "more"]
    BY <1>6, <2>1 DEF HandleBytes
  <2>3. /\ h.response.start = to /\ ~h.response.headers_done /\ h.response.body_bytes = 0
        /\ m.chunked => h.response.decoder = "fresh"
        /\ h.outcome = "more"
    BY <1>4, <1>6, <2>1, <2>2 DEF Response
  <2>4. At(m, response'[c], to, received'[c])
    BY <1>3, <1>6, <2>3 DEF At
  <2>5. QED BY <2>3, <2>4
<1>7. CASE ~r.headers_done /\ ~(to < m.head)
  <2>1. r.start = pos[c] /\ r.body_bytes = 0 /\ (m.chunked => r.decoder = "fresh")
    BY <1>4, <1>7 DEF At
  <2>2. /\ parsed.headers_done /\ parsed.chunked = m.chunked
        /\ ~m.chunked => parsed.content_length = m.data
        /\ m.chunked => parsed.decoder = "fresh"
        /\ parsed.body_bytes = 0 /\ parsed \in Response
    BY <1>2, <1>4, <2>1 DEF Response
  <2>3. DataUpTo(m, m.head) = 0
    BY <1>2 DEF DataUpTo
  <2>4. At(m, parsed, m.head, 0)
    BY <1>2, <2>2, <2>3 DEF At
  <2>5. h = Feed(parsed, m, m.head, to)
    BY <1>7, <2>1 DEF HandleBytes
  <2>6. h.on_bytes \in Nat /\ received'[c] = 0 + h.on_bytes
    BY <1>3, <1>7, HandleBytesType DEF Handled
  <2>7. m.head <= to
    BY <1>1, <1>2, <1>7
  <2> HIDE DEF h, m, r, to, parsed
  <2>8. QED BY <1>1, <1>2, <1>3, <2>2, <2>4, <2>5, <2>6, <2>7, FedAt DEF h, m, to
<1>8. QED BY <1>5, <1>6, <1>7

\* Where a call may still go.
Onward(d) ==
  /\ call[d] = "connecting" => call'[d] = "connecting"
  /\ call'[d] \in {"idle", "lookup", "failed"} => call[d] \in {"idle", "lookup", "failed"}
  /\ serving[d] # None => call'[serving[d]] = "sent"

\* A connection that a step does not touch.
LEMMA Untouched ==
  ASSUME NEW d \in Calls, ConnOK(d), Onward(d), key' = key,
         sock'[d] = sock[d], response'[d] = response[d], pipe'[d] = pipe[d],
         pos'[d] = pos[d], received'[d] = received[d], serving'[d] = serving[d],
         sock[d].fd = "unused" => d \notin closing'
  PROVE  ConnOK(d)'
BY DEF ConnOK, Onward, InStepAt, Aligned, Fresh, Carried, Unopened

\* close_socket of an opened connection c, which may first answer its call.
LEMMA CloseSocketConn ==
  ASSUME TypeOK, OneCarrier, ConnInv, NEW c \in Calls, CloseSocket(c), key' = key,
         sock[c].fd # "unused",
         closing' \subseteq closing,
         \A d \in Calls \ {c} : response'[d] = response[d] /\ received'[d] = received[d],
         response'[c] = NewResponse \/ sock[c].state = "SECURE" \/ response' = response,
         call' = call \/ call' = Answered(c)
  PROVE  OneCarrier' /\ ConnInv'
<1>1. /\ sock' = [sock EXCEPT ![c].fd = "closed"]
      /\ serving' = [serving EXCEPT ![c] = None]
      /\ pipe' = [pipe EXCEPT ![c] = << >>]
      /\ pos' = [pos EXCEPT ![c] = 0]
  BY DEF CloseSocket
<1>2. OneCarrier'
  BY <1>1 DEF OneCarrier, TypeOK
<1>3. ASSUME NEW d \in Calls, d # c PROVE ConnOK(d)'
  <2>1. ConnOK(d)
    BY DEF ConnInv
  <2>2. serving[d] # None => serving[d] # serving[c]
    BY <1>3 DEF OneCarrier
  <2>3. serving[c] # None => call[serving[c]] = "sent" /\ serving[c] \in Calls
    BY DEF ConnInv, ConnOK, Carried, TypeOK
  <2>4. serving[d] # None => call[serving[d]] = "sent" /\ serving[d] \in Calls
    BY DEF ConnInv, ConnOK, Carried, TypeOK
  <2>5. Onward(d)
    BY <2>2, <2>3, <2>4 DEF Onward, Answered, TypeOK
  <2>6. sock[d].fd = "unused" => d \notin closing'
    BY <2>1 DEF ConnOK, Unopened
  <2>7. QED BY <1>1, <1>3, <2>1, <2>5, <2>6, Untouched DEF TypeOK
<1>4. ConnOK(c)'
  <2>1. sock'[c].fd = "closed" /\ sock'[c].state = sock[c].state /\ sock'[c].on = sock[c].on
    BY <1>1 DEF TypeOK, Sock
  <2>2. pipe'[c] = << >> /\ serving'[c] = None
    BY <1>1 DEF TypeOK
  <2>3. InStepAt(c)' /\ Aligned(c)' /\ Carried(c)'
    BY <2>2 DEF InStepAt, Aligned, Carried
  <2>4. sock[c].state = "INSECURE" => response'[c] = NewResponse
    BY DEF ConnInv, ConnOK, Fresh, TypeOK
  <2>5. Fresh(c)'
    BY <2>1, <2>2, <2>4 DEF Fresh, ConnInv, ConnOK
  <2>6. call'[c] \notin {"idle", "lookup", "failed"}
    <3>1. call[c] \notin {"idle", "lookup", "failed"}
      BY DEF ConnInv, ConnOK, Unopened
    <3>2. QED BY <3>1 DEF Answered, TypeOK
  <2>7. QED BY <2>1, <2>3, <2>5, <2>6 DEF ConnOK, Unopened
<1>5. QED BY <1>2, <1>3, <1>4 DEF ConnInv

\* The request of call r, not sent before, is written on a free connection c.
LEMMA WriteRequestConn ==
  ASSUME TypeOK, OneCarrier, ConnInv, NEW c \in Calls, NEW r \in Calls,
         WriteRequest(c, r), key' = key, closing' = closing, pos' = pos, received' = received,
         serving[c] = None, sock[c].fd = "open", sock[c].on = "readable", key[r] = key[c],
         call[r] = "lookup" \/ (call[r] = "connecting" /\ r = c),
         sock' = sock \/ (sock' = [sock EXCEPT ![c].state = "SECURE"] /\ r = c),
         sock'[c].state = "SECURE",
         \A d \in Calls \ {c} : response'[d] = response[d],
         ~response'[c].headers_done, response'[c].start = 0, response'[c].body_bytes = 0,
         LengthOnly \/ response'[c].decoder = "fresh"
  PROVE  OneCarrier' /\ ConnInv'
<1>1. /\ call' = [call EXCEPT ![r] = "sent"]
      /\ serving' = [serving EXCEPT ![c] = r]
  BY DEF WriteRequest
<1>2. \A d \in Calls : serving[d] # r
  BY NoneAssumption DEF ConnInv, ConnOK, Carried
<1>3. OneCarrier'
  BY <1>1, <1>2 DEF OneCarrier, TypeOK
<1>4. \A d \in Calls \ {c} : pipe'[d] = pipe[d] /\ sock'[d] = sock[d]
  BY DEF WriteRequest, TypeOK
<1>5. ASSUME NEW d \in Calls, d # c PROVE ConnOK(d)'
  <2>1. ConnOK(d)
    BY DEF ConnInv
  <2>2. call[d] = "connecting" => d # r
    BY <1>5
  <2>3. Onward(d)
    BY <1>1, <1>2, <2>1, <2>2 DEF Onward, ConnOK, Carried, TypeOK
  <2>4. sock[d].fd = "unused" => d \notin closing'
    BY <2>1 DEF ConnOK, Unopened
  <2>5. QED BY <1>1, <1>4, <1>5, <2>1, <2>3, <2>4, Untouched DEF TypeOK
<1>6. ConnOK(c)'
  <2>1. pipe[c] = << >> /\ pos[c] = 0 /\ ConnOK(c)
    BY DEF ConnInv, ConnOK, InStepAt, TypeOK
  <2>2. pipe'[c] = << >> \/ \E m \in Responses : pipe'[c] = Append(pipe[c], m)
    BY <2>1 DEF WriteRequest, TypeOK
  <2>3. pipe'[c] = << >> \/ \E m \in Responses : pipe'[c] = << m >>
    BY <2>1, <2>2
  <2>4. serving'[c] = r /\ r # None /\ call'[r] = "sent"
    BY <1>1, NoneAssumption DEF TypeOK
  <2>5. InStepAt(c)'
    <3>1. CASE pipe'[c] = << >>
      <4>1. Len(pipe'[c]) = 0
        BY <3>1, EmptySeq
      <4>2. QED BY <2>4, <4>1 DEF InStepAt
    <3>2. ASSUME NEW m \in Responses, pipe'[c] = << m >> PROVE InStepAt(c)'
      <4>1. Len(pipe'[c]) = 1
        BY <3>2
      <4>2. QED BY <2>4, <4>1 DEF InStepAt
    <3>3. QED BY <2>3, <3>1, <3>2
  <2>6. Aligned(c)'
    <3>1. CASE pipe'[c] = << >>
      BY <3>1 DEF Aligned
    <3>2. ASSUME NEW m \in Responses, pipe'[c] = << m >> PROVE Aligned(c)'
      <4>1. Head(pipe'[c]) = m /\ m.head > 0
        BY <3>2, SizeType
      <4>2. m.chunked => response'[c].decoder = "fresh"
        BY DEF LengthOnly
      <4>3. QED BY <2>1, <4>1, <4>2 DEF Aligned, At
    <3>3. QED BY <2>3, <3>1, <3>2
  <2>7. sock'[c].fd = "open" /\ sock'[c].state = "SECURE" /\ sock'[c].on = "readable"
    BY DEF TypeOK, Sock
  <2>8. Fresh(c)' /\ Carried(c)'
    BY <2>4, <2>7 DEF Fresh, Carried
  <2>9. call'[c] \notin {"idle", "lookup", "failed"}
    BY <1>1, <2>1 DEF ConnOK, Unopened, TypeOK
  <2>10. QED BY <2>5, <2>6, <2>7, <2>8, <2>9 DEF ConnOK, Unopened
<1>7. QED BY <1>3, <1>5, <1>6 DEF ConnInv

\* Reading the response of c up to its end, or less.
LEMMA AdvanceConn ==
  ASSUME TypeOK, ConnInv, NEW c \in Calls, NEW n, CanRead(c, n),
         Store(c, n), Advance(c, n), LengthOnly \/ HandleBytes(c, n).outcome = "more"
  PROVE  /\ Aligned(c)'
         /\ Len(pipe'[c]) <= 1
         /\ pos[c] + n = Size(Head(pipe[c])) => pipe'[c] = << >>
         /\ \A d \in Calls \ {c} :
              /\ pipe'[d] = pipe[d] /\ pos'[d] = pos[d]
              /\ response'[d] = response[d] /\ received'[d] = received[d]
<1>1. pipe[c] \in Seq(Responses) /\ pipe[c] # << >> /\ Len(pipe[c]) <= 1 /\ Aligned(c)
  BY DEF TypeOK, CanRead, ConnInv, ConnOK, InStepAt
<1>2. pos[c] \in Nat /\ n \in Nat \ {0} /\ pos[c] + n <= Size(Head(pipe[c]))
      /\ Size(Head(pipe[c])) \in Nat
  BY HandleBytesType, SizeType
<1>3. \A d \in Calls \ {c} :
        /\ pipe'[d] = pipe[d] /\ pos'[d] = pos[d]
        /\ response'[d] = response[d] /\ received'[d] = received[d]
  BY DEF Advance, Store, TypeOK
<1>4. CASE pos[c] + n = Size(Head(pipe[c]))
  <2>1. pipe'[c] = Tail(pipe[c])
    BY <1>4 DEF Advance, TypeOK
  <2>2. Tail(pipe[c]) \in Seq(Responses) /\ Len(Tail(pipe[c])) = Len(pipe[c]) - 1
    BY <1>1, HeadTailProperties
  <2>3. Len(pipe[c]) = 1
    <3>1. Len(pipe[c]) \in Nat /\ Len(pipe[c]) # 0
      BY <1>1, EmptyLen, Zenon
    <3>2. Len(pipe[c]) <= 1
      BY <1>1
    <3>3. \A l \in Nat : l # 0 /\ l <= 1 => l = 1
      OBVIOUS
    <3>4. QED BY <3>1, <3>2, <3>3, Zenon
  <2>4. pipe'[c] = << >>
    <3>1. Len(Tail(pipe[c])) = 0 <=> Tail(pipe[c]) = << >>
      BY <2>2, EmptyLen, Zenon
    <3>2. QED BY <2>1, <2>2, <2>3, <3>1
  <2>5. QED BY <1>3, <2>2, <2>3, <2>4 DEF Aligned
<1>5. CASE pos[c] + n # Size(Head(pipe[c]))
  <2>1. pipe' = pipe /\ pos'[c] = pos[c] + n
    BY <1>5 DEF Advance, TypeOK
  <2>2. pos[c] + n < Size(Head(pipe[c]))
    BY <1>2, <1>5
  <2>3. At(Head(pipe[c]), response'[c], pos[c] + n, received'[c])
    <3>1. Head(pipe[c]) \in Responses
      BY HandleBytesType
    <3>2. HandleBytes(c, n).outcome = "more" \/ ~Head(pipe[c]).chunked
      BY <3>1 DEF LengthOnly
    <3>3. QED BY <1>1, <2>2, <3>2, HandleAligned
  <2>4. Aligned(c)'
    BY <2>1, <2>3 DEF Aligned
  <2>5. QED BY <1>1, <1>3, <1>5, <2>1, <2>4
<1>6. QED BY <1>4, <1>5

LEMMA ReadMoreConn ==
  ASSUME TypeOK, OneCarrier, ConnInv, NEW c \in Calls, NEW n, ReadMore(c, n)
  PROVE  OneCarrier' /\ ConnInv'
<1>1. /\ CanRead(c, n) /\ Store(c, n) /\ Advance(c, n) /\ HandleBytes(c, n).outcome = "more"
      /\ UNCHANGED <<sock, call, key, closing, serving>>
  BY DEF ReadMore
<1>2. OneCarrier'
  BY <1>1 DEF OneCarrier
<1>3. /\ Aligned(c)'
      /\ Len(pipe'[c]) <= 1
      /\ \A d \in Calls \ {c} :
           /\ pipe'[d] = pipe[d] /\ pos'[d] = pos[d]
           /\ response'[d] = response[d] /\ received'[d] = received[d]
  BY <1>1, AdvanceConn
<1>4. ASSUME NEW d \in Calls, d # c PROVE ConnOK(d)'
  <2>1. ConnOK(d)
    BY DEF ConnInv
  <2>2. Onward(d) /\ (sock[d].fd = "unused" => d \notin closing')
    BY <1>1, <2>1 DEF Onward, ConnOK, Carried, Unopened
  <2>3. QED BY <1>1, <1>3, <1>4, <2>1, <2>2, Untouched
<1>5. ConnOK(c)'
  <2>1. ConnOK(c) /\ pipe[c] # << >> /\ sock[c].state = "SECURE"
    BY <1>1 DEF ConnInv, CanRead
  <2>2. serving[c] # None
    BY <2>1 DEF ConnOK, InStepAt
  <2>3. QED BY <1>1, <1>3, <2>1, <2>2 DEF ConnOK, InStepAt, Fresh, Carried, Unopened
<1>6. QED BY <1>2, <1>4, <1>5 DEF ConnInv

\* A completion is the completion of the call the connection carries, with its
\* whole body, and at the end of its response if this states its length.
LEMMA CompletedFacts ==
  ASSUME TypeOK, ConnInv, NEW c \in Calls, NEW n, Completed(c, n)
  PROVE  /\ CanRead(c, n) /\ Store(c, n)
         /\ serving[c] \in Calls
         /\ serving[c] # None
         /\ call[serving[c]] = "sent"
         /\ Answered(c) = [call EXCEPT ![serving[c]] = "answered"]
         /\ LengthOnly => pos[c] + n = Size(Head(pipe[c]))
         /\ response'[c].body_bytes = Head(pipe[c]).data
         /\ received'[c] = Head(pipe[c]).data
<1>1. CanRead(c, n) /\ Store(c, n) /\ HandleBytes(c, n).outcome = "complete"
  BY DEF Completed
<1>2. ConnOK(c) /\ pipe[c] # << >>
  BY <1>1 DEF ConnInv, CanRead
<1>3. serving[c] # None
  BY <1>2 DEF ConnOK, InStepAt
<1>4. serving[c] \in Calls /\ call[serving[c]] = "sent"
  BY <1>2, <1>3 DEF ConnOK, Carried, TypeOK
<1>5. /\ ~Head(pipe[c]).chunked => pos[c] + n = Size(Head(pipe[c]))
      /\ response'[c].body_bytes = Head(pipe[c]).data
      /\ received'[c] = Head(pipe[c]).data
  BY <1>1, <1>2, HandleAligned DEF ConnOK
<1>6. LengthOnly => ~Head(pipe[c]).chunked
  BY <1>1, HandleBytesType DEF LengthOnly
<1>7. QED BY <1>1, <1>3, <1>4, <1>5, <1>6 DEF Answered

LEMMA PooledConn ==
  ASSUME TypeOK, LengthOnly, OneCarrier, ConnInv, NEW c \in Calls, NEW n, Pooled(c, n),
         closing' \subseteq closing \cup {c},
         \/ call' = Answered(c)
         \/ \E r \in Calls : call[r] = "idle" /\ call' = [Answered(c) EXCEPT ![r] = "lookup"]
  PROVE  OneCarrier' /\ ConnInv'
<1>1. /\ Completed(c, n) /\ Advance(c, n) /\ sock' = sock /\ key' = key
      /\ serving' = [serving EXCEPT ![c] = None]
  BY DEF Pooled, Completed
<1>2. /\ CanRead(c, n) /\ Store(c, n)
      /\ serving[c] \in Calls /\ serving[c] # None /\ call[serving[c]] = "sent"
      /\ Answered(c) = [call EXCEPT ![serving[c]] = "answered"]
      /\ pos[c] + n = Size(Head(pipe[c]))
  BY <1>1, CompletedFacts
<1>3. /\ Aligned(c)'
      /\ Len(pipe'[c]) <= 1
      /\ pipe'[c] = << >>
      /\ \A d \in Calls \ {c} :
           /\ pipe'[d] = pipe[d] /\ pos'[d] = pos[d]
           /\ response'[d] = response[d] /\ received'[d] = received[d]
  BY <1>1, <1>2, AdvanceConn
<1>4. OneCarrier'
  BY <1>1 DEF OneCarrier, TypeOK
<1>5. \A d \in Calls :
        /\ call[d] = "connecting" => call'[d] = "connecting"
        /\ call'[d] \in {"idle", "lookup", "failed"} => call[d] \in {"idle", "lookup", "failed"}
        /\ call[d] = "sent" /\ d # serving[c] => call'[d] = "sent"
  BY <1>2 DEF TypeOK
<1>6. ASSUME NEW d \in Calls, d # c PROVE ConnOK(d)'
  <2>1. ConnOK(d)
    BY DEF ConnInv
  <2>2. serving[d] # None => serving[d] \in Calls /\ serving[d] # serving[c]
                               /\ call[serving[d]] = "sent"
    BY <1>6, <2>1 DEF OneCarrier, ConnOK, Carried, TypeOK
  <2>3. Onward(d)
    BY <1>5, <2>2 DEF Onward
  <2>4. sock[d].fd = "unused" => d \notin closing'
    BY <1>6, <2>1 DEF ConnOK, Unopened
  <2>5. QED BY <1>1, <1>3, <1>6, <2>1, <2>3, <2>4, Untouched DEF TypeOK
<1>7. ConnOK(c)'
  <2>1. ConnOK(c) /\ sock[c].state = "SECURE" /\ sock[c].fd = "open"
    BY <1>2 DEF ConnInv, CanRead, Readable
  <2>2. serving'[c] = None
    BY <1>1 DEF TypeOK
  <2>3. call'[c] \notin {"idle", "lookup", "failed"}
    BY <1>5, <2>1 DEF ConnOK, Unopened
  <2>4. QED BY <1>1, <1>3, <2>1, <2>2, <2>3 DEF ConnOK, InStepAt, Fresh, Carried, Unopened
<1>8. QED BY <1>4, <1>6, <1>7 DEF ConnInv

\* A step that leaves sockets and octets alone, and moves calls onward.
LEMMA QuietConn ==
  ASSUME OneCarrier, ConnInv, key' = key, closing' = closing,
         UNCHANGED <<sock, response, pipe, pos, received, serving>>,
         \A d \in Calls : Onward(d)
  PROVE  OneCarrier' /\ ConnInv'
<1>1. OneCarrier'
  BY DEF OneCarrier
<1>2. ASSUME NEW d \in Calls PROVE ConnOK(d)'
  <2>1. ConnOK(d) /\ Onward(d)
    BY DEF ConnInv
  <2>2. sock[d].fd = "unused" => d \notin closing'
    BY <2>1 DEF ConnOK, Unopened
  <2>3. QED BY <2>1, <2>2, Untouched
<1>3. QED BY <1>1, <1>2 DEF ConnInv

LEMMA ConnInit == Init => OneCarrier /\ ConnInv
<1> SUFFICES ASSUME Init PROVE OneCarrier /\ ConnInv
  OBVIOUS
<1>1. OneCarrier
  BY DEF Init, OneCarrier
<1>2. Len(<< >>) = 0
  BY EmptySeq
<1>3. ASSUME NEW c \in Calls PROVE ConnOK(c)
  <2>1. /\ pipe[c] = << >> /\ serving[c] = None /\ response[c] = NewResponse
        /\ sock[c].fd = "unused" /\ closing = {} /\ sock[c].state = "INSECURE"
    BY DEF Init
  <2>2. InStepAt(c)
    BY <1>2, <2>1 DEF InStepAt
  <2>3. QED BY <2>1, <2>2 DEF ConnOK, Aligned, Fresh, Carried, Unopened
<1>4. QED BY <1>1, <1>3 DEF ConnInv

LEMMA ConnNext ==
  ASSUME Orderly, TypeOK, PoolSound, EmptyPool, OneCarrier, ConnInv, [Next]_vars
  PROVE  OneCarrier' /\ ConnInv'
<1> USE DEF client, network, history
<1>0. \A d \in Calls : serving[d] # None => serving[d] \in Calls /\ call[serving[d]] = "sent"
  BY DEF ConnInv, ConnOK, Carried, TypeOK
<1>1. ASSUME NEW c \in Calls, HttpGet(c) \/ LookupError(c) PROVE OneCarrier' /\ ConnInv'
  <2>1. \A d \in Calls : Onward(d)
    BY <1>0, <1>1 DEF HttpGet, LookupError, Onward, TypeOK
  <2>2. QED BY <1>1, <2>1, QuietConn DEF HttpGet, LookupError
<1>2. ASSUME NEW c \in Calls, Connect(c) PROVE OneCarrier' /\ ConnInv'
  <2>1. OneCarrier'
    BY <1>2 DEF Connect, OneCarrier
  <2>2. call' = [call EXCEPT ![c] = "connecting"] /\ sock' = [sock EXCEPT ![c].fd = "open"]
        /\ call[c] = "lookup"
        /\ UNCHANGED <<response, key, closing, pipe, pos, received, serving>>
    BY <1>2 DEF Connect
  <2>3. ASSUME NEW d \in Calls, d # c PROVE ConnOK(d)'
    <3>1. ConnOK(d)
      BY DEF ConnInv
    <3>2. Onward(d)
      BY <1>0, <2>2, <2>3 DEF Onward, TypeOK
    <3>3. sock[d].fd = "unused" => d \notin closing'
      BY <2>2, <3>1 DEF ConnOK, Unopened
    <3>4. QED BY <2>2, <2>3, <3>1, <3>2, <3>3, Untouched DEF TypeOK
  <2>4. ConnOK(c)'
    <3>1. ConnOK(c) /\ sock[c].fd = "unused"
      BY <2>2 DEF ConnInv, ConnOK, Unopened
    <3>2. serving[c] = None
      BY <3>1 DEF ConnOK, Carried
    <3>3. sock'[c].fd = "open" /\ sock'[c].state = sock[c].state /\ call'[c] = "connecting"
          /\ sock'[c].on = sock[c].on
      BY <2>2 DEF TypeOK, Sock
    <3>4. QED BY <2>2, <3>1, <3>2, <3>3 DEF ConnOK, InStepAt, Aligned, Fresh, Carried, Unopened
  <2>5. QED BY <2>1, <2>3, <2>4 DEF ConnInv
<1>3. ASSUME NEW r \in Calls, Reuse(r) PROVE OneCarrier' /\ ConnInv'
  <2> DEFINE c == sockets[key[r]]
  <2>1. /\ c \in Calls /\ key[c] = key[r] /\ serving[c] = None
        /\ sock[c].fd = "open" /\ sock[c].state = "SECURE" /\ sock[c].on = "readable"
    BY <1>3 DEF Reuse, PoolSound, TypeOK
  <2>2. /\ WriteRequest(c, r) /\ call[r] = "lookup"
        /\ UNCHANGED <<key, closing, pos, received, sock>>
        /\ response' = [response EXCEPT ![c] = [NewResponse EXCEPT !.decoder = response[c].decoder]]
    BY <1>3 DEF Reuse, ResetResponse
  <2>3. /\ ~response'[c].headers_done /\ response'[c].start = 0 /\ response'[c].body_bytes = 0
        /\ \A d \in Calls \ {c} : response'[d] = response[d]
    BY <2>1, <2>2 DEF TypeOK, NewResponse
  <2>4. LengthOnly
    BY <1>3 DEF Orderly, EmptyPool, Reuse, TypeOK
  <2> HIDE DEF c
  <2>5. QED BY <2>1, <2>2, <2>3, <2>4, WriteRequestConn
<1>4. ASSUME NEW c \in Calls, ConnectReady(c) PROVE OneCarrier' /\ ConnInv'
  <2>1. OneCarrier'
    BY <1>4 DEF ConnectReady, OneCarrier
  <2>2. /\ sock' = [sock EXCEPT ![c].on = "readable"]
        /\ response' = [response EXCEPT ![c] = NewResponse]
        /\ UNCHANGED <<call, key, closing, pipe, pos, received, serving>>
        /\ sock[c].fd = "open" /\ sock[c].on = "writable" /\ sock[c].state = "INSECURE"
    BY <1>4 DEF ConnectReady, Writable, ConnInv, ConnOK, Fresh
  <2>3. ASSUME NEW d \in Calls, d # c PROVE ConnOK(d)'
    <3>1. ConnOK(d)
      BY DEF ConnInv
    <3>2. Onward(d) /\ (sock[d].fd = "unused" => d \notin closing')
      BY <1>0, <2>2, <3>1 DEF Onward, ConnOK, Unopened
    <3>3. QED BY <2>2, <2>3, <3>1, <3>2, Untouched DEF TypeOK
  <2>4. ConnOK(c)'
    <3>1. /\ sock'[c].fd = sock[c].fd /\ sock'[c].state = sock[c].state
          /\ response'[c] = NewResponse /\ ConnOK(c)
      BY <2>2 DEF TypeOK, Sock, ConnInv
    <3>2. pipe[c] = << >>
      BY <2>2 DEF ConnInv, ConnOK, Fresh, InStepAt
    <3>3. QED BY <2>2, <3>1, <3>2 DEF ConnOK, InStepAt, Aligned, Fresh, Carried, Unopened
  <2>5. QED BY <2>1, <2>3, <2>4 DEF ConnInv
<1>5. ASSUME NEW c \in Calls,
             ConnectFail(c) \/ HandshakeFail(c) \/ ErrorEvent(c) \/ ResClose(c)
      PROVE  OneCarrier' /\ ConnInv'
  <2>1. CloseSocket(c) /\ key' = key /\ call' = call /\ received' = received
        /\ closing' \subseteq closing
    BY <1>5 DEF ConnectFail, HandshakeFail, ErrorEvent, ResClose
  <2>2. sock[c].fd # "unused"
    BY <1>5 DEF ConnectFail, HandshakeFail, ErrorEvent, ResClose, Writable, Readable,
                ConnInv, ConnOK, Unopened
  <2>3. response' = response \/ response' = [response EXCEPT ![c] = NewResponse]
    BY <1>5 DEF ConnectFail, HandshakeFail, ErrorEvent, ResClose
  <2>4. /\ \A d \in Calls \ {c} : response'[d] = response[d] /\ received'[d] = received[d]
        /\ response'[c] = NewResponse \/ response' = response
    BY <2>1, <2>3 DEF TypeOK
  <2>5. QED BY <2>1, <2>2, <2>4, CloseSocketConn
<1>6. ASSUME NEW c \in Calls, HandshakeStep(c) PROVE OneCarrier' /\ ConnInv'
  <2>1. PICK n \in 0..flights[c] : Handshake(c, n)
    BY <1>6 DEF HandshakeStep
  <2>2. /\ sock[c].fd = "open" /\ sock[c].state = "INSECURE" /\ sock[c].on = "readable"
        /\ UNCHANGED <<response, key, closing, pos, received>>
    BY <2>1 DEF Handshake, Readable
  <2>3. /\ response[c] = NewResponse /\ serving[c] = None /\ call[c] = "connecting"
    BY <2>2 DEF ConnInv, ConnOK, Fresh
  <2>4. CASE sock' = [sock EXCEPT ![c].state = "SECURE"] /\ WriteRequest(c, c)
    <3>1. sock'[c].state = "SECURE"
      BY <2>4 DEF TypeOK, Sock
    <3>2. /\ ~response'[c].headers_done /\ response'[c].start = 0
          /\ response'[c].body_bytes = 0 /\ response'[c].decoder = "fresh"
      BY <2>2, <2>3 DEF NewResponse
    <3>3. QED BY <2>2, <2>3, <2>4, <3>1, <3>2, WriteRequestConn
  <2>5. CASE UNCHANGED <<sock, call, pipe, serving>>
    <3>1. \A d \in Calls : Onward(d)
      BY <1>0, <2>5 DEF Onward
    <3>2. QED BY <2>2, <2>5, <3>1, QuietConn
  <2>6. QED BY <2>1, <2>4, <2>5 DEF Handshake
<1>7. ASSUME NEW c \in Calls, Read(c) PROVE OneCarrier' /\ ConnInv'
  <2>1. PICK n \in Octets(c) : ReadMore(c, n) \/ ReadError(c, n)
    BY <1>7 DEF Read
  <2>2. CASE ReadMore(c, n)
    BY <2>2, ReadMoreConn
  <2>3. CASE ReadError(c, n)
    <3>1. /\ CloseSocket(c) /\ Store(c, n) /\ UNCHANGED <<call, key, closing>>
          /\ sock[c].fd = "open" /\ sock[c].state = "SECURE"
      BY <2>3 DEF ReadError, CanRead, Readable
    <3>2. \A d \in Calls \ {c} : response'[d] = response[d] /\ received'[d] = received[d]
      BY <3>1 DEF Store, TypeOK
    <3>3. QED BY <3>1, <3>2, CloseSocketConn
  <2>4. QED BY <2>1, <2>2, <2>3
<1>8. ASSUME NEW c \in Calls, ServerClose(c) PROVE OneCarrier' /\ ConnInv'
  <2>1. OneCarrier'
    BY <1>8 DEF ServerClose, OneCarrier
  <2>2. ASSUME NEW d \in Calls PROVE ConnOK(d)'
    <3>1. ConnOK(d)
      BY DEF ConnInv
    <3>2. Onward(d) /\ (sock[d].fd = "unused" => d \notin closing')
      BY <1>0, <1>8, <3>1 DEF ServerClose, Onward, ConnOK, Unopened
    <3>3. CASE d # c
      BY <1>8, <3>1, <3>2, <3>3, Untouched DEF ServerClose, TypeOK
    <3>4. CASE d = c
      <4>1. pipe'[d] = << >> /\ Len(pipe'[d]) = 0
        BY <1>8, <3>4, EmptySeq DEF ServerClose, TypeOK
      <4>2. QED BY <1>8, <3>1, <4>1
            DEF ServerClose, ConnOK, InStepAt, Aligned, Fresh, Carried, Unopened
    <3>5. QED BY <3>3, <3>4
  <2>3. QED BY <2>1, <2>2 DEF ConnInv
<1>9. ASSUME NEW c \in Calls, Complete(c) PROVE OneCarrier' /\ ConnInv'
  <2>1. PICK n \in Octets(c) :
          CompleteKeep(c, n) \/ CompleteLater(c, n) \/ CompleteClose(c, n)
            \/ \E r \in Calls : CompleteAgain(c, n, r)
    BY <1>9 DEF Complete
  <2>2. CASE CompleteKeep(c, n) \/ CompleteLater(c, n) \/ \E r \in Calls : CompleteAgain(c, n, r)
    <3>1. Pooled(c, n) /\ closing' \subseteq closing \cup {c}
      BY <2>2 DEF CompleteKeep, CompleteLater, CompleteAgain
    <3>2. \/ call' = Answered(c)
          \/ \E r \in Calls : call[r] = "idle" /\ call' = [Answered(c) EXCEPT ![r] = "lookup"]
      BY <2>2 DEF CompleteKeep, CompleteLater, CompleteAgain
    <3>3. LengthOnly
      BY <2>2 DEF Orderly, CloseEach, CompleteKeep, CompleteLater, CompleteAgain
    <3>4. QED BY <3>1, <3>2, <3>3, PooledConn
  <2>3. CASE CompleteClose(c, n)
    <3>1. Completed(c, n) /\ CloseSocket(c) /\ call' = Answered(c) /\ closing' = closing
      BY <2>3 DEF CompleteClose
    <3>2. Store(c, n) /\ key' = key /\ sock[c].fd = "open" /\ sock[c].state = "SECURE"
      BY <3>1 DEF Completed, CanRead, Readable
    <3>3. \A d \in Calls \ {c} : response'[d] = response[d] /\ received'[d] = received[d]
      BY <3>2 DEF Store, TypeOK
    <3>4. QED BY <3>1, <3>2, <3>3, CloseSocketConn
  <2>4. QED BY <2>1, <2>2, <2>3
<1>10. CASE UNCHANGED vars
  <2>1. \A d \in Calls : Onward(d)
    BY <1>0, <1>10 DEF vars, Onward
  <2>2. QED BY <1>10, <2>1, QuietConn DEF vars
<1>11. QED
  BY <1>1, <1>2, <1>3, <1>4, <1>5, <1>6, <1>7, <1>8, <1>9, <1>10 DEF Next, Internal, Lookup

LEMMA ReaderInit == Init => ReaderInv
BY TypeInit, ConnInit DEF ReaderInv, Init, PoolSound, EmptyPool

LEMMA ReaderNext ==
  ASSUME Orderly, ReaderInv, [Next]_vars
  PROVE  ReaderInv'
BY TypeNext, PoolNext, EmptyPoolNext, ConnNext DEF ReaderInv

LEMMA ReaderSafety ==
  ASSUME Orderly
  PROVE  Spec => []ReaderInv
<1>1. Init => ReaderInv
  BY ReaderInit
<1>2. ReaderInv /\ [Next]_vars => ReaderInv'
  BY ReaderNext
<1>3. QED BY <1>1, <1>2, PTL DEF Spec

\* With servers that state a Content-Length, or callers that close each response
\* (simple.js:25), a connection never carries two exchanges: what http_get writes
\* on a kept connection is answered by the next octets read from it
\* (fetch.js:244-245 against 156-157).
THEOREM InStepSafety ==
  ASSUME Orderly
  PROVE  Spec => []InStep
<1>1. ReaderInv => InStep
  BY DEF ReaderInv, ConnInv, ConnOK, InStepAt, InStep
<1>2. QED BY <1>1, ReaderSafety, PTL

\* The step that answers a call passes the last octet of exactly the body that
\* the server sent for it, however the reads cut the response (fetch.js:133-205):
\* for responses of every kind if each is closed, for those that state their
\* length also on kept connections, and whatever fails.
THEOREM BodyExact ==
  ASSUME Orderly
  PROVE  Spec => ExactBody
<1> DEFINE Exact ==
      \A c \in Calls :
        serving[c] # None /\ call[serving[c]] # "answered"
          /\ call'[serving[c]] = "answered"
        => /\ received'[c] = Head(pipe[c]).data
           /\ response'[c].body_bytes = received'[c]
<1>1. ReaderInv /\ [Next]_vars => [Exact]_vars
  <2> SUFFICES ASSUME ReaderInv, Next, NEW c \in Calls, serving[c] # None,
                      call[serving[c]] # "answered", call'[serving[c]] = "answered"
               PROVE  /\ received'[c] = Head(pipe[c]).data
                      /\ response'[c].body_bytes = received'[c]
    OBVIOUS
  <2>1. serving[c] \in Calls /\ TypeOK /\ ConnInv
    BY DEF ReaderInv, TypeOK
  <2>2. ASSUME NEW d \in Calls, NEW n, Completed(d, n),
               \/ call' = Answered(d)
               \/ \E r \in Calls : call' = [Answered(d) EXCEPT ![r] = "lookup"]
        PROVE  /\ received'[c] = Head(pipe[c]).data
               /\ response'[c].body_bytes = received'[c]
    <3>1. /\ Answered(d) = [call EXCEPT ![serving[d]] = "answered"]
          /\ serving[d] # None
          /\ response'[d].body_bytes = Head(pipe[d]).data
          /\ received'[d] = Head(pipe[d]).data
      BY <2>1, <2>2, CompletedFacts
    <3>2. serving[c] = serving[d]
      BY <2>1, <2>2, <3>1 DEF TypeOK
    <3>3. c = d
      BY <3>1, <3>2 DEF ReaderInv, OneCarrier
    <3>4. QED BY <3>1, <3>3
  <2>3. ASSUME NEW d \in Calls, Complete(d)
        PROVE  /\ received'[c] = Head(pipe[c]).data
               /\ response'[c].body_bytes = received'[c]
    BY <2>2, <2>3
    DEF Complete, CompleteKeep, CompleteLater, CompleteAgain, CompleteClose, Pooled
  <2>4. ASSUME NEW d \in Calls, ~Complete(d),
               \/ LookupError(d) \/ Lookup(d) \/ ConnectReady(d) \/ ConnectFail(d)
               \/ HandshakeStep(d) \/ HandshakeFail(d) \/ Read(d) \/ ErrorEvent(d)
               \/ ServerClose(d) \/ HttpGet(d) \/ ResClose(d)
        PROVE  FALSE
    <3>1. call' = call \/ \E r \in Calls, v \in {"lookup", "failed", "connecting", "sent"} :
                             call' = [call EXCEPT ![r] = v]
      BY <2>4
      DEF LookupError, Lookup, Connect, Reuse, WriteRequest, ConnectReady, ConnectFail,
          HandshakeStep, Handshake, HandshakeFail, Read, ReadMore, ReadError, ErrorEvent,
          ServerClose, client, HttpGet, ResClose
    <3>2. QED BY <2>1, <3>1 DEF TypeOK
  <2>5. QED BY <2>3, <2>4 DEF Next, Internal
<1>2. QED BY <1>1, ReaderSafety, PTL DEF Spec, ExactBody

-----------------------------------------------------------------------------
(* Refinement: every step of the client is a step of Exchange or a stutter. *)

LEMMA Stutters ==
  ASSUME key' = key, serving' = serving, stage' = stage, sent' = sent, answered' = answered
  PROVE  UNCHANGED Promise!vars
BY DEF Promise!vars

\* Closing connection c, whose call (if any) is then lost.
LEMMA CloseSocketRefines ==
  ASSUME ReaderInv, NEW c \in Calls, CloseSocket(c), key' = key, call' = call,
         sock[c].fd # "unused"
  PROVE  Promise!Close(c) \/ UNCHANGED Promise!vars
<1>1. /\ sock' = [sock EXCEPT ![c].fd = "closed"]
      /\ serving' = [serving EXCEPT ![c] = None]
      /\ sent' = sent /\ answered' = answered
  BY DEF CloseSocket, sent, answered
<1>2. sock \in [Calls -> Sock] /\ serving \in [Calls -> Calls \cup {None}]
  BY DEF ReaderInv, TypeOK
<1>3. stage' = [stage EXCEPT ![c] = "closed"]
  BY <1>1, <1>2 DEF stage, Sock
<1>4. CASE sock[c].fd = "open"
  BY <1>1, <1>3, <1>4 DEF Promise!Close, stage
<1>5. CASE sock[c].fd = "closed"
  <2>1. serving[c] = None
    BY <1>5 DEF ReaderInv, ConnInv, ConnOK, Carried
  <2>2. serving' = serving /\ stage' = stage
    BY <1>1, <1>2, <1>3, <1>5, <2>1 DEF stage
  <2>3. QED BY <1>1, <2>2, Stutters
<1>6. QED BY <1>2, <1>4, <1>5 DEF Sock

LEMMA WriteRequestRefines ==
  ASSUME ReaderInv, NEW c \in Calls, NEW r \in Calls, WriteRequest(c, r), key' = key,
         stage' = stage, sock[c].fd = "open", serving[c] = None, key[r] = key[c],
         call[r] \in {"lookup", "connecting"}
  PROVE  Promise!Send(c, r)
<1>1. call' = [call EXCEPT ![r] = "sent"] /\ serving' = [serving EXCEPT ![c] = r]
  BY DEF WriteRequest
<1>2. call \in [Calls -> {"idle", "lookup", "failed", "connecting", "sent", "answered"}]
  BY DEF ReaderInv, TypeOK
<1>3. sent' = sent \cup {r} /\ answered' = answered /\ r \notin sent
  BY <1>1, <1>2 DEF sent, answered
<1>4. stage[c] = "open"
  BY DEF stage
<1>5. QED BY <1>1, <1>3, <1>4 DEF Promise!Send

\* A completion answers the call that is carried; the caller's reaction may
\* look up another call and may close the connection.
LEMMA CompletedRefines ==
  ASSUME ReaderInv, NEW c \in Calls, NEW n, Completed(c, n),
         \/ call' = Answered(c)
         \/ \E r \in Calls : call[r] = "idle" /\ call' = [Answered(c) EXCEPT ![r] = "lookup"],
         serving' = [serving EXCEPT ![c] = None],
         sock' = sock \/ sock' = [sock EXCEPT ![c].fd = "closed"]
  PROVE  Promise!Answer(c)
<1>1. /\ serving[c] \in Calls /\ serving[c] # None /\ call[serving[c]] = "sent"
      /\ Answered(c) = [call EXCEPT ![serving[c]] = "answered"]
  BY CompletedFacts DEF ReaderInv
<1>2. /\ call \in [Calls -> {"idle", "lookup", "failed", "connecting", "sent", "answered"}]
      /\ sock \in [Calls -> Sock]
  BY DEF ReaderInv, TypeOK
<1>3. answered' = answered \cup {serving[c]} /\ sent' = sent
  BY <1>1, <1>2 DEF answered, sent
<1>4. stage[c] = "open"
  BY DEF Completed, CanRead, Readable, stage
<1>5. stage' = stage \/ stage' = [stage EXCEPT ![c] = "closed"]
  BY <1>2 DEF stage, Sock
<1>6. key' = key
  BY DEF Completed
<1>7. QED BY <1>1, <1>3, <1>4, <1>5, <1>6 DEF Promise!Answer

LEMMA NextRefines ==
  ASSUME ReaderInv, [Next]_vars
  PROVE  [Promise!Next]_(Promise!vars)
<1> USE DEF client, network, history
<1>0. /\ call \in [Calls -> {"idle", "lookup", "failed", "connecting", "sent", "answered"}]
      /\ sock \in [Calls -> Sock] /\ TypeOK
  BY DEF ReaderInv, TypeOK
<1>1. ASSUME NEW c \in Calls, HttpGet(c) \/ LookupError(c) PROVE UNCHANGED Promise!vars
  <2>1. sent' = sent /\ answered' = answered
    BY <1>0, <1>1 DEF HttpGet, LookupError, sent, answered
  <2>2. QED BY <1>1, <2>1, Stutters DEF HttpGet, LookupError, stage
<1>2. ASSUME NEW c \in Calls, Connect(c) PROVE Promise!Next
  <2>1. sent' = sent /\ answered' = answered
    BY <1>0, <1>2 DEF Connect, sent, answered
  <2>2. sock[c].fd = "unused"
    BY <1>2 DEF Connect, ReaderInv, ConnInv, ConnOK, Unopened
  <2>3. stage' = [stage EXCEPT ![c] = "open"] /\ stage[c] = "unused"
    BY <1>0, <1>2, <2>2 DEF Connect, stage, Sock
  <2>4. Promise!Open(c)
    BY <1>2, <2>1, <2>3 DEF Connect, Promise!Open
  <2>5. QED BY <2>4 DEF Promise!Next
<1>3. ASSUME NEW r \in Calls, Reuse(r) PROVE Promise!Next
  <2> DEFINE c == sockets[key[r]]
  <2>1. /\ c \in Calls /\ key[c] = key[r] /\ serving[c] = None /\ sock[c].fd = "open"
        /\ WriteRequest(c, r) /\ key' = key /\ sock' = sock /\ call[r] = "lookup"
    BY <1>0, <1>3 DEF Reuse, ReaderInv, PoolSound, TypeOK
  <2> HIDE DEF c
  <2>2. Promise!Send(c, r)
    BY <2>1, WriteRequestRefines DEF stage
  <2>3. QED BY <2>1, <2>2 DEF Promise!Next
<1>4. ASSUME NEW c \in Calls, ConnectReady(c) \/ ServerClose(c) PROVE UNCHANGED Promise!vars
  <2>1. stage' = stage /\ sent' = sent /\ answered' = answered
    BY <1>0, <1>4 DEF ConnectReady, ServerClose, stage, sent, answered, Sock
  <2>2. QED BY <1>4, <2>1, Stutters DEF ConnectReady, ServerClose
<1>5. ASSUME NEW c \in Calls,
             ConnectFail(c) \/ HandshakeFail(c) \/ ErrorEvent(c) \/ ResClose(c)
      PROVE  [Promise!Next]_(Promise!vars)
  <2>1. CloseSocket(c) /\ key' = key /\ call' = call
    BY <1>5 DEF ConnectFail, HandshakeFail, ErrorEvent, ResClose
  <2>2. sock[c].fd # "unused"
    BY <1>5 DEF ConnectFail, HandshakeFail, ErrorEvent, ResClose, Writable, Readable,
                ReaderInv, ConnInv, ConnOK, Unopened
  <2>3. QED BY <2>1, <2>2, CloseSocketRefines DEF Promise!Next
<1>6. ASSUME NEW c \in Calls, HandshakeStep(c) PROVE [Promise!Next]_(Promise!vars)
  <2>1. PICK n \in 0..flights[c] : Handshake(c, n)
    BY <1>6 DEF HandshakeStep
  <2>2. sock[c].fd = "open" /\ sock[c].state = "INSECURE" /\ key' = key
    BY <2>1 DEF Handshake, Readable
  <2>3. serving[c] = None /\ call[c] = "connecting"
    BY <2>2 DEF ReaderInv, ConnInv, ConnOK, Fresh
  <2>4. CASE sock' = [sock EXCEPT ![c].state = "SECURE"] /\ WriteRequest(c, c)
    <3>1. stage' = stage
      BY <1>0, <2>4 DEF stage, Sock
    <3>2. QED BY <2>2, <2>3, <2>4, <3>1, WriteRequestRefines DEF Promise!Next
  <2>5. CASE UNCHANGED <<sock, call, pipe, serving>>
    BY <2>2, <2>5, Stutters DEF stage, sent, answered
  <2>6. QED BY <2>1, <2>4, <2>5 DEF Handshake
<1>7. ASSUME NEW c \in Calls, Read(c) PROVE [Promise!Next]_(Promise!vars)
  <2>1. PICK n \in Octets(c) : ReadMore(c, n) \/ ReadError(c, n)
    BY <1>7 DEF Read
  <2>2. CASE ReadMore(c, n)
    BY <2>2, Stutters DEF ReadMore, stage, sent, answered
  <2>3. CASE ReadError(c, n)
    <3>1. CloseSocket(c) /\ key' = key /\ call' = call /\ sock[c].fd = "open"
      BY <2>3 DEF ReadError, CanRead, Readable
    <3>2. QED BY <3>1, CloseSocketRefines DEF Promise!Next
  <2>4. QED BY <2>1, <2>2, <2>3
<1>8. ASSUME NEW c \in Calls, Complete(c) PROVE Promise!Next
  <2>1. PICK n \in Octets(c) :
          CompleteKeep(c, n) \/ CompleteLater(c, n) \/ CompleteClose(c, n)
            \/ \E r \in Calls : CompleteAgain(c, n, r)
    BY <1>8 DEF Complete
  <2>2. /\ Completed(c, n)
        /\ \/ call' = Answered(c)
           \/ \E r \in Calls : call[r] = "idle" /\ call' = [Answered(c) EXCEPT ![r] = "lookup"]
        /\ serving' = [serving EXCEPT ![c] = None]
        /\ sock' = sock \/ sock' = [sock EXCEPT ![c].fd = "closed"]
    BY <2>1 DEF CompleteKeep, CompleteLater, CompleteAgain, CompleteClose, Pooled, CloseSocket
  <2>3. Promise!Answer(c)
    BY <2>2, CompletedRefines
  <2>4. QED BY <2>3 DEF Promise!Next
<1>9. CASE UNCHANGED vars
  BY <1>9, Stutters DEF vars, stage, sent, answered
<1>10. QED
  BY <1>1, <1>2, <1>3, <1>4, <1>5, <1>6, <1>7, <1>8, <1>9 DEF Next, Internal, Lookup

\* The client keeps its promise to its callers with servers that state a
\* Content-Length, or callers that close each response: pool, handshake, partial
\* reads, failures and late closes never send a request twice, over a busy
\* connection or to another server (fetch.js:125-281).
THEOREM PromiseKept ==
  ASSUME Orderly
  PROVE  Spec => KeepsPromise
<1>1. Init => Promise!Init
  BY DEF Init, Promise!Init, stage, sent, answered
<1>2. ReaderInv /\ [Next]_vars => [Promise!Next]_(Promise!vars)
  BY NextRefines
<1>3. QED BY <1>1, <1>2, ReaderSafety, PTL DEF Spec, KeepsPromise, Promise!Spec
=============================================================================
