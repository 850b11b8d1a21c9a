------------------------------- MODULE Fetch -------------------------------
(***************************************************************************)
(* The https client of fetch/lib/fetch.js: http_get, its connection pool   *)
(* `sockets`, the TLS handshake and the response reader, driven by the     *)
(* level-triggered event loop of lib/loop.js.  One step is one callback    *)
(* of the loop, or one event of the network.                               *)
(*                                                                         *)
(* A connection is named by the http_get call that opened it: the read     *)
(* handler of a connection closes over the callback of that call (279), so *)
(* the name also says whose callback the connection's responses reach.     *)
(*                                                                         *)
(* A response is a record of octet counts.  Its octets are numbered from   *)
(* 1: the head, then the body; a chunked body is a size line (1 octet      *)
(* here), the data, the chunk's CRLF (1), the last-chunk line "0 CRLF" (1) *)
(* and the final CR and LF (2).  A TLS record carries octets of one        *)
(* response only, so one SSL_read does not span two responses.             *)
(***************************************************************************)
EXTENDS Integers, Sequences

CONSTANTS
  Calls,      \* the calls of http_get the program makes
  Keys,       \* `${protocol}:${address}:${port}` of the servers contacted
  None,       \* no connection, no call
  Responses,  \* the responses the servers may send
  Flights,    \* TCP segments in which a server's last TLS flight arrives
  Tickets,    \* whether a server sends something, such as session tickets,
              \* when the client has finished the handshake
  Faults,     \* what may fail: "dns", "tls", "reset", "eof"
  Reactions   \* what on_complete may do: "keep", "close", "later", "again"

ASSUME NoneAssumption == None \notin Calls
ASSUME FlightsAssumption == Flights \in Nat \ {0}
ASSUME TicketsAssumption == Tickets \in BOOLEAN
ASSUME ResponsesAssumption ==
  /\ Responses \subseteq [chunked: BOOLEAN, head: Nat \ {0}, data: Nat]
  /\ \A m \in Responses : m.chunked => m.data > 0

VARIABLES
  sockets,    \* the pool: one connection per key
  sock,       \* the socket object of each connection
  response,   \* sock.response
  call,       \* how far each http_get call has come
  key,        \* the server each call is addressed to
  closing,    \* connections whose res.close() a caller will still call
  halted,     \* an assertion or a fault inside a callback ended the process
  flights,    \* segments of the server's TLS flight not yet read
  pipe,       \* responses sent and not yet wholly read
  pos,        \* octets already read of the first response of pipe
  peer,       \* FALSE once the server has closed its end
  serving,    \* history: the call whose request the connection carries
  received,   \* history: octets passed to on_bytes since the head was parsed
  callbacks   \* history: how often the callback's on_complete of a call ran

client == <<sockets, sock, response, call, key, closing, halted>>
network == <<flights, pipe, pos, peer>>
history == <<serving, received, callbacks>>
vars == <<sockets, sock, response, call, key, closing, halted,
          flights, pipe, pos, peer, serving, received, callbacks>>

Sock == [fd: {"unused", "open", "closed"}, on: {"writable", "readable"},
         state: {"INSECURE", "SECURE"}]

Response == [headers_done: BOOLEAN, chunked: BOOLEAN, content_length: Nat,
             body_bytes: Nat, start: Nat, decoder: {"fresh", "done"}]

NewResponse == [headers_done |-> FALSE, chunked |-> FALSE, content_length |-> 0,
                body_bytes |-> 0, start |-> 0, decoder |-> "fresh"]

Init ==
  /\ sockets = [k \in Keys |-> None]
  /\ sock = [c \in Calls |-> [fd |-> "unused", on |-> "writable", state |-> "INSECURE"]]
  /\ response = [c \in Calls |-> NewResponse]
  /\ call = [c \in Calls |-> "idle"]
  /\ key \in [Calls -> Keys]
  /\ closing = {}
  /\ halted = FALSE
  /\ flights = [c \in Calls |-> 0]
  /\ pipe = [c \in Calls |-> << >>]
  /\ pos = [c \in Calls |-> 0]
  /\ peer = [c \in Calls |-> TRUE]
  /\ serving = [c \in Calls |-> None]
  /\ received = [c \in Calls |-> 0]
  /\ callbacks = [c \in Calls |-> 0]

-----------------------------------------------------------------------------
(* Responses and the chunk decoder.                                        *)

LastChunk(m) == m.head + m.data + 3
Size(m) == IF m.chunked THEN LastChunk(m) + 2 ELSE m.head + m.data

\* Data octets of a chunked body up to octet p.
DataUpTo(m, p) ==
  IF p <= m.head THEN 0 ELSE IF p > m.head + 1 + m.data THEN m.data ELSE p - m.head - 1

\* The first octet after p that ends a line of a chunked body.
NextNewline(m, p) ==
  IF p <= m.head THEN m.head + 1
  ELSE IF p < LastChunk(m) - 1 THEN LastChunk(m) - 1
  ELSE IF p < LastChunk(m) THEN LastChunk(m)
  ELSE Size(m)

\* pico.decode_chunked on the octets from + 1 .. to of m.  It stops behind the
\* last-chunk line and returns the octets left behind it.  A decoder that has
\* finished one body and was not cleared still waits for the end of that line,
\* so that it stops at the first end of line it is given.
DecodeChunked(decoder, m, from, to) ==
  LET stop == IF decoder = "fresh" THEN LastChunk(m) ELSE NextNewline(m, from)
  IN  [finished |-> stop <= to, left |-> to - stop,
       sz |-> IF decoder = "fresh" THEN DataUpTo(m, to) - DataUpTo(m, from) ELSE 0]

\* Faulty variant: on_bytes is given what was read, not what was decoded.
FeedRaw(r, m, from, to) ==
  LET d == DecodeChunked(r.decoder, m, from, to) IN
  IF d.finished /\ d.left = 0
  THEN [response |-> [r EXCEPT !.decoder = "done"], on_bytes |-> 0, outcome |-> "error"]
  ELSE [response |-> [r EXCEPT !.body_bytes = @ + d.sz,
                               !.decoder = IF d.finished THEN "done" ELSE @],
        on_bytes |-> to - from,
        outcome |-> IF d.finished THEN "complete" ELSE "more"]

\* Body octets from + 1 .. to of m, read into a response r whose head is parsed.
\* A decoder that finishes with nothing left behind it returns 0, which
\* handle_response takes for an error.
FeedChunked(r, m, from, to) ==
  LET d == DecodeChunked(r.decoder, m, from, to) IN
  IF d.finished /\ d.left = 0
  THEN [response |-> [r EXCEPT !.decoder = "done"], on_bytes |-> 0, outcome |-> "error"]
  ELSE [response |-> [r EXCEPT !.body_bytes = @ + d.sz,
                               !.decoder = IF d.finished THEN "done" ELSE @],
        on_bytes |-> d.sz,
        outcome |-> IF d.finished THEN "complete" ELSE "more"]

\* Faulty variant: the response counts as complete whatever its length.
FeedAnyLength(r, m, from, to) ==
  [response |-> [r EXCEPT !.body_bytes = @ + (to - from)],
   on_bytes |-> to - from,
   outcome |-> IF to > from THEN "complete" ELSE "more"]

FeedLength(r, m, from, to) ==
  [response |-> [r EXCEPT !.body_bytes = @ + (to - from)],
   on_bytes |-> to - from,
   outcome |-> IF to > from /\ r.body_bytes + (to - from) = r.content_length
               THEN "complete" ELSE "more"]

Feed(r, m, from, to) ==
  IF r.chunked THEN FeedChunked(r, m, from, to) ELSE FeedLength(r, m, from, to)

\* What handle_response makes of n more octets on connection c.  A head is
\* parsed from `start`.  Octets left of an earlier body do not parse, but its
\* last CR and LF are too few to tell: the parser waits for more behind them.
HandleBytes(c, n) ==
  LET m == Head(pipe[c])
      r == response[c]
      to == pos[c] + n
      parsed == [r EXCEPT !.headers_done = TRUE, !.start = 0, !.chunked = m.chunked,
                          !.content_length = IF m.chunked THEN @ ELSE m.data]
  IN  IF r.headers_done THEN Feed(r, m, pos[c], to)
      ELSE IF pos[c] # r.start /\ pos[c] < LastChunk(m)
      THEN [response |-> r, on_bytes |-> 0, outcome |-> "error"]
      ELSE IF pos[c] # r.start \/ to < m.head
      THEN [response |-> [r EXCEPT !.start = @ + n], on_bytes |-> 0, outcome |-> "more"]
      ELSE Feed(parsed, m, m.head, to)

-----------------------------------------------------------------------------
(* Steps shared by the callbacks.                                          *)

\* Faulty variants of Unpool: the entry stays, or keeps the number 0.
UnpoolNothing(c) == UNCHANGED sockets
UnpoolZero(c) == sockets' = [sockets EXCEPT ![key[c]] = 0]

\* Whatever connection the key of c maps to leaves the pool.
Unpool(c) == sockets' = [sockets EXCEPT ![key[c]] = None]

\* close_socket; of a connection closed before, it still clears the pool entry.
CloseSocket(c) ==
  /\ Unpool(c)
  /\ sock' = [sock EXCEPT ![c].fd = "closed"]
  /\ flights' = [flights EXCEPT ![c] = 0]
  /\ pipe' = [pipe EXCEPT ![c] = << >>]
  /\ pos' = [pos EXCEPT ![c] = 0]
  /\ serving' = [serving EXCEPT ![c] = None]

\* sock.write of the request of call r: a live server will answer it.  The
\* result of the write is not looked at.
WriteRequest(c, r) ==
  /\ call' = [call EXCEPT ![r] = "sent"]
  /\ serving' = [serving EXCEPT ![c] = r]
  /\ IF peer[c] THEN \E m \in Responses : pipe' = [pipe EXCEPT ![c] = Append(@, m)]
                ELSE pipe' = pipe

-----------------------------------------------------------------------------
(* http_get and its resolver.                                              *)

HttpGet(r) ==
  /\ call[r] = "idle"
  /\ call' = [call EXCEPT ![r] = "lookup"]
  /\ UNCHANGED <<sockets, sock, response, key, closing, halted, network, history>>

LookupError(r) ==
  /\ "dns" \in Faults
  /\ call[r] = "lookup"
  /\ call' = [call EXCEPT ![r] = "failed"]
  /\ UNCHANGED <<sockets, sock, response, key, closing, halted, network, history>>

Connect(r) ==
  /\ call[r] = "lookup"
  /\ sockets[key[r]] = None
  /\ sock' = [sock EXCEPT ![r].fd = "open"]
  /\ call' = [call EXCEPT ![r] = "connecting"]
  /\ UNCHANGED <<sockets, response, key, closing, halted, network, history>>

\* Faulty variant: the counts of the last response are kept.
ResetHeadOnly(c) ==
  response' = [response EXCEPT ![c] = [NewResponse EXCEPT !.decoder = response[c].decoder,
                                                          !.body_bytes = response[c].body_bytes]]

\* Every field is set anew but the chunk decoder.
ResetResponse(c) ==
  response' = [response EXCEPT ![c] = [NewResponse EXCEPT !.decoder = response[c].decoder]]

\* Faulty variant: the connection stays in the pool while it is used.
LeaveInPool(r) == UNCHANGED sockets

TakeFromPool(r) == sockets' = [sockets EXCEPT ![key[r]] = None]

\* The pooled connection leaves the pool and carries the new request; its
\* handler still closes over the callback of the call that opened it.
Reuse(r) ==
  /\ call[r] = "lookup"
  /\ sockets[key[r]] # None
  /\ LET c == sockets[key[r]] IN
       /\ ResetResponse(c)
       /\ TakeFromPool(r)
       /\ WriteRequest(c, r)
  /\ UNCHANGED <<sock, key, closing, halted, flights, pos, peer, received, callbacks>>

-----------------------------------------------------------------------------
(* Events of a connection.                                                 *)

Writable(c) == ~halted /\ sock[c].fd = "open" /\ sock[c].on = "writable"
Readable(c) == ~halted /\ sock[c].fd = "open" /\ sock[c].on = "readable"

\* The connect callback: SSL_do_handshake sends the hello and wants to read.
ConnectReady(c) ==
  /\ Writable(c)
  /\ sock' = [sock EXCEPT ![c].on = "readable"]
  /\ response' = [response EXCEPT ![c] = NewResponse]
  /\ flights' = [flights EXCEPT ![c] = Flights]
  /\ UNCHANGED <<sockets, call, key, closing, halted, pipe, pos, peer, history>>

\* A handshake that fails there closes the socket; loop.modify of the closed
\* descriptor then fails the assertion at 279.
ConnectFail(c) ==
  /\ "tls" \in Faults
  /\ Writable(c)
  /\ CloseSocket(c)
  /\ response' = [response EXCEPT ![c] = NewResponse]
  /\ halted' = TRUE
  /\ UNCHANGED <<call, key, closing, peer, received, callbacks>>

\* handle_response before the handshake is done.  The handshake reads n
\* segments; if they are the last ones the request is written, otherwise
\* SSL_read reads what arrived meanwhile, which may be the rest of the flight:
\* the handshake is then done, but the request is written only when something
\* more makes the descriptor readable, such as the server's tickets.
Handshake(c, n) ==
  /\ Readable(c)
  /\ sock[c].state = "INSECURE"
  /\ \/ n \in 1..flights[c]
     \/ Tickets /\ peer[c] /\ n = 0 /\ flights[c] = 0
  /\ \/ /\ n = flights[c]
        /\ sock' = [sock EXCEPT ![c].state = "SECURE"]
        /\ flights' = [flights EXCEPT ![c] = 0]
        /\ WriteRequest(c, c)
     \/ /\ n < flights[c]
        /\ \E left \in 0..(flights[c] - n) : flights' = [flights EXCEPT ![c] = left]
        /\ UNCHANGED <<sock, call, pipe, serving>>
  /\ UNCHANGED <<sockets, response, key, closing, halted, pos, peer, received, callbacks>>

\* A failed handshake closes the socket and handle_response goes on to read
\* from the SSL object it has freed: nothing is read, or the process faults.
HandshakeFail(c) ==
  /\ "tls" \in Faults \/ ~peer[c]
  /\ Readable(c)
  /\ sock[c].state = "INSECURE"
  /\ CloseSocket(c)
  /\ halted' \in BOOLEAN
  /\ UNCHANGED <<response, call, key, closing, peer, received, callbacks>>

\* n octets are there to be read from connection c.
CanRead(c, n) ==
  /\ Readable(c)
  /\ sock[c].state = "SECURE"
  /\ pipe[c] # << >>
  /\ n \in 1..(Size(Head(pipe[c])) - pos[c])

Advance(c, n) ==
  IF pos[c] + n = Size(Head(pipe[c]))
  THEN /\ pipe' = [pipe EXCEPT ![c] = Tail(@)]
       /\ pos' = [pos EXCEPT ![c] = 0]
  ELSE /\ pos' = [pos EXCEPT ![c] = @ + n]
       /\ pipe' = pipe

Store(c, n) ==
  LET h == HandleBytes(c, n) IN
  /\ response' = [response EXCEPT ![c] = h.response]
  /\ received' = [received EXCEPT ![c] =
                    IF response[c].headers_done THEN @ + h.on_bytes ELSE h.on_bytes]

ReadMore(c, n) ==
  /\ CanRead(c, n)
  /\ HandleBytes(c, n).outcome = "more"
  /\ Store(c, n)
  /\ Advance(c, n)
  /\ UNCHANGED <<sockets, sock, call, key, closing, halted, flights, peer, serving, callbacks>>

ReadError(c, n) ==
  /\ CanRead(c, n)
  /\ HandleBytes(c, n).outcome = "error"
  /\ Store(c, n)
  /\ CloseSocket(c)
  /\ UNCHANGED <<call, key, closing, halted, peer, callbacks>>

\* The response is complete: the connection goes to the pool and on_complete
\* of the call that opened it runs.
Completed(c, n) ==
  /\ CanRead(c, n)
  /\ HandleBytes(c, n).outcome = "complete"
  /\ Store(c, n)
  /\ callbacks' = [callbacks EXCEPT ![c] = @ + 1]
  /\ UNCHANGED <<key, halted, peer>>

Answered(c) ==
  IF serving[c] = None THEN call ELSE [call EXCEPT ![serving[c]] = "answered"]

Pooled(c, n) ==
  /\ Completed(c, n)
  /\ sockets' = [sockets EXCEPT ![key[c]] = c]
  /\ serving' = [serving EXCEPT ![c] = None]
  /\ Advance(c, n)
  /\ UNCHANGED <<sock, flights>>

\* on_complete leaves the connection in the pool,
CompleteKeep(c, n) ==
  /\ "keep" \in Reactions
  /\ Pooled(c, n)
  /\ call' = Answered(c)
  /\ UNCHANGED closing

\* or resolves a promise whose owner calls res.close() later,
CompleteLater(c, n) ==
  /\ "later" \in Reactions
  /\ Pooled(c, n)
  /\ call' = Answered(c)
  /\ closing' = closing \cup {c}

\* or starts another http_get,
CompleteAgain(c, n, r) ==
  /\ "again" \in Reactions
  /\ Pooled(c, n)
  /\ call[r] = "idle"
  /\ call' = [Answered(c) EXCEPT ![r] = "lookup"]
  /\ UNCHANGED closing

\* or closes the connection.
CompleteClose(c, n) ==
  /\ "close" \in Reactions
  /\ Completed(c, n)
  /\ CloseSocket(c)
  /\ call' = Answered(c)
  /\ UNCHANGED closing

ResClose(c) ==
  /\ c \in closing
  /\ closing' = closing \ {c}
  /\ CloseSocket(c)
  /\ UNCHANGED <<response, call, key, halted, peer, received, callbacks>>

-----------------------------------------------------------------------------
(* The network.                                                            *)

\* The loop reports an error on the descriptor: its error callback closes it.
ErrorEvent(c) ==
  /\ "reset" \in Faults
  /\ sock[c].fd = "open"
  /\ CloseSocket(c)
  /\ UNCHANGED <<response, call, key, closing, halted, peer, received, callbacks>>

\* The server closes its end; what it had not delivered is lost.  SSL_read
\* then returns 0, which handle_response ignores (216-217).
ServerClose(c) ==
  /\ "eof" \in Faults
  /\ sock[c].fd = "open" /\ sock[c].on = "readable" /\ peer[c]
  /\ peer' = [peer EXCEPT ![c] = FALSE]
  /\ flights' = [flights EXCEPT ![c] = 0]
  /\ pipe' = [pipe EXCEPT ![c] = << >>]
  /\ pos' = [pos EXCEPT ![c] = 0]
  /\ UNCHANGED <<client, history>>

-----------------------------------------------------------------------------
Lookup(r) == Connect(r) \/ Reuse(r)

Octets(c) == IF pipe[c] = << >> THEN {} ELSE 1..(Size(Head(pipe[c])) - pos[c])

Read(c) == \E n \in Octets(c) : ReadMore(c, n) \/ ReadError(c, n)

Complete(c) ==
  \E n \in Octets(c) :
    \/ CompleteKeep(c, n)
    \/ CompleteLater(c, n)
    \/ CompleteClose(c, n)
    \/ \E r \in Calls : CompleteAgain(c, n, r)

HandshakeStep(c) == \E n \in 0..flights[c] : Handshake(c, n)

\* The steps of the client that run no code of its caller.
Internal ==
  \E c \in Calls :
    \/ LookupError(c) \/ Lookup(c)
    \/ ConnectReady(c) \/ ConnectFail(c)
    \/ HandshakeStep(c) \/ HandshakeFail(c)
    \/ Read(c)
    \/ ErrorEvent(c) \/ ServerClose(c)

Next ==
  /\ ~halted
  /\ \/ Internal
     \/ \E c \in Calls : HttpGet(c) \/ Complete(c) \/ ResClose(c)

Spec == Init /\ [][Next]_vars

-----------------------------------------------------------------------------
TypeOK ==
  /\ sockets \in [Keys -> Calls \cup {None}]
  /\ sock \in [Calls -> Sock]
  /\ response \in [Calls -> Response]
  /\ call \in [Calls -> {"idle", "lookup", "failed", "connecting", "sent", "answered"}]
  /\ key \in [Calls -> Keys]
  /\ closing \subseteq Calls
  /\ halted \in BOOLEAN
  /\ flights \in [Calls -> 0..Flights]
  /\ pipe \in [Calls -> Seq(Responses)]
  /\ pos \in [Calls -> Nat]
  /\ \A c \in Calls : IF pipe[c] = << >> THEN pos[c] = 0 ELSE pos[c] < Size(Head(pipe[c]))
  /\ peer \in [Calls -> BOOLEAN]
  /\ serving \in [Calls -> Calls \cup {None}]
  /\ received \in [Calls -> Nat]
  /\ callbacks \in [Calls -> Nat]

\* A connection in the pool is open, past its handshake, listed under its own
\* server and free: http_get writes to what it finds there without a look
\* (231-245), after errors, late res.close() calls and overwritten entries.
PoolSound ==
  \A k \in Keys : sockets[k] # None =>
    LET c == sockets[k] IN
      /\ sock[c] = [fd |-> "open", on |-> "readable", state |-> "SECURE"]
      /\ key[c] = k
      /\ serving[c] = None

\* The client and the server agree on which request a connection carries: at
\* most one response is on its way, and none when no request is outstanding, so
\* that the octets read belong to the request written last.
InStep ==
  \A c \in Calls :
    /\ Len(pipe[c]) <= 1
    /\ serving[c] = None => pipe[c] = << >>

\* When a response completes, on_bytes was given exactly the body the server
\* sent, and body_bytes says so (the receiver of simple-concurrent.js:31 and
\* the buffer that fetch() cuts at `off` rely on it).
ExactBody ==
  [][\A c \in Calls :
       serving[c] # None /\ call[serving[c]] # "answered"
         /\ call'[serving[c]] = "answered"
       => /\ received'[c] = Head(pipe[c]).data
          /\ response'[c].body_bytes = received'[c]]_vars

stage == [c \in Calls |-> sock[c].fd]
sent == {r \in Calls : call[r] \in {"sent", "answered"}}
answered == {r \in Calls : call[r] = "answered"}

Promise == INSTANCE Exchange WITH carries <- serving

\* An answered call ran its own callback, and so settled the promise that
\* fetch() made for it (296-321).
OwnCallback == \A r \in Calls : call[r] = "answered" => callbacks[r] > 0

\* Pool, handshake, partial reads, failures and late closes keep the promise:
\* a request is sent once, alone on a connection to its own server, and the
\* completion that is signalled is its own.
KeepsPromise == Promise!Spec
=============================================================================
