----------------------------- MODULE WsExchange -----------------------------
(***************************************************************************)
(* websocket/client.js over websocket/websocket.js, connected to the echo  *)
(* of websocket/server.js: the handshake, a first message, its echo, a     *)
(* second message, its echo.  The handshake and the messages are two units *)
(* long, the response is cut into Parts reads, an echo is read at once.    *)
(* The last echo is the program's last event; it never closes.             *)
(***************************************************************************)
EXTENDS Integers, Sequences

CONSTANTS
  Parts,   \* reads the response to the handshake takes
  Shorts   \* how many sends may find the socket's buffer full or nearly so

PartAssumption == Parts \in Nat \ {0} /\ Shorts \in Nat

VARIABLES
  phase,     \* connecting, handshake, frames, closed: who handles an event
  pending,   \* what waits for the socket to be writable, <<>> for nothing
  sliced,    \* whether that is what a short write left
  asked,     \* the buffers given to send, one after the other
  wire,      \* what was written
  shorts,
  opened,    \* calls of onopen
  received,  \* calls of onmessage
  server,    \* open, closed
  parts,     \* parts of the response that have arrived
  read,      \* units of the wire the server has read
  inbox      \* what the client has to read: parts of the response, or echoes

clientVars == <<phase, pending, sliced, asked, wire, shorts, opened, received>>
vars == <<clientVars, server, parts, read, inbox>>

Message(n) == << <<n, 1>>, <<n, 2>> >>
Handshake == Message(0)

Init ==
  /\ phase = "connecting" /\ pending = <<>> /\ sliced = FALSE
  /\ asked = <<>> /\ wire = <<>> /\ shorts = 0 /\ opened = 0 /\ received = 0
  /\ server = "open" /\ parts = 0 /\ read = 0 /\ inbox = <<>>

-----------------------------------------------------------------------------
\* WebSocket.send: all is written; nothing, and it waits; some, and the rest
\* waits; or the connection has failed.
WriteAll(buf) ==
  /\ wire' = wire \o buf /\ pending' = <<>> /\ UNCHANGED <<sliced, shorts>>

Blocked(buf) ==
  /\ shorts < Shorts /\ shorts' = shorts + 1
  /\ pending' = buf /\ sliced' = FALSE /\ UNCHANGED wire

\* Faulty variant: the whole buffer waits again.
ShortAgain(buf) ==
  /\ shorts < Shorts /\ shorts' = shorts + 1 /\ Len(buf) > 1
  /\ wire' = Append(wire, buf[1])
  /\ pending' = buf /\ sliced' = FALSE

Short(buf) ==
  /\ shorts < Shorts /\ shorts' = shorts + 1 /\ Len(buf) > 1
  /\ wire' = Append(wire, buf[1])
  /\ pending' = Tail(buf) /\ sliced' = TRUE

\* next: who handles what is read once nothing waits.
Send(buf, next) ==
  \/ WriteAll(buf) /\ phase' = next
  \/ (Blocked(buf) \/ Short(buf)) /\ phase' = "frames"

Close == phase' = "closed" /\ pending' = <<>> /\ UNCHANGED <<sliced, wire, shorts>>

\* The socket is writable for the first time, its buffer empty.
Connected ==
  /\ phase = "connecting"
  /\ asked' = Handshake /\ WriteAll(Handshake) /\ phase' = "handshake"
  /\ UNCHANGED <<opened, received, server, parts, read, inbox>>

\* Faulty variant: what waited is forgotten when the socket is writable.
WritableForgets ==
  /\ phase = "frames" /\ pending # <<>>
  /\ pending' = <<>>
  /\ UNCHANGED <<phase, sliced, asked, wire, shorts, opened, received, server, parts, read, inbox>>

\* The socket is writable again.  What Uint8Array.slice returned has no
\* pointer: writing it fails and the connection is closed.
Writable ==
  /\ phase = "frames" /\ pending # <<>>
  /\ IF sliced THEN Close ELSE Send(pending, "frames")
  /\ UNCHANGED <<asked, opened, received, server, parts, read, inbox>>

\* Every read of the handshake begins at the start of the buffer: a response is
\* found only when one read has all of it.  client.js sends its first message.
ReadResponse ==
  /\ phase = "handshake" /\ inbox # <<>>
  /\ inbox' = <<>>
  /\ IF \A part \in 1..Parts : part \in DOMAIN inbox /\ inbox[part] = <<"r", part>>
     THEN opened' = opened + 1 /\ asked' = asked \o Message(1) /\ Send(Message(1), "frames")
     ELSE UNCHANGED <<phase, pending, sliced, asked, wire, shorts, opened>>
  /\ UNCHANGED <<received, server, parts, read>>

\* onReadable, and the onmessage of client.js; a read that holds more than one
\* frame counts as its first.
ReadFrame ==
  /\ phase = "frames" /\ pending = <<>> /\ inbox # <<>>
  /\ inbox' = <<>> /\ received' = received + 1
  /\ IF received = 0 THEN asked' = asked \o Message(2) /\ Send(Message(2), "frames")
     ELSE UNCHANGED <<phase, pending, sliced, asked, wire, shorts>>
  /\ UNCHANGED <<opened, server, parts, read>>

-----------------------------------------------------------------------------
\* The request arrives whole; the parts of its response one by one.
Respond ==
  /\ server = "open" /\ Len(wire) >= 2 /\ parts < Parts
  /\ parts' = parts + 1 /\ read' = 2
  /\ inbox' = Append(inbox, <<"r", parts + 1>>)
  /\ UNCHANGED <<clientVars, server>>

\* Faulty variant: what was read stays to be read.
EchoAgain ==
  /\ server = "open" /\ parts = Parts /\ Len(wire) > read /\ Len(inbox) < 3
  /\ inbox' = Append(inbox, <<"echo", Len(wire)>>)
  /\ UNCHANGED <<clientVars, server, parts, read>>

\* Whatever one read returns is taken for one frame and echoed.
Echo ==
  /\ server = "open" /\ parts = Parts /\ Len(wire) > read
  /\ read' = Len(wire)
  /\ inbox' = Append(inbox, <<"echo", Len(wire)>>)
  /\ UNCHANGED <<clientVars, server, parts>>

\* recv returns 0 for a client that has closed.
ServerClose ==
  /\ server = "open" /\ phase = "closed" /\ Len(wire) <= read
  /\ server' = "closed" /\ UNCHANGED <<clientVars, parts, read, inbox>>

ClientStep == Connected \/ Writable \/ ReadResponse \/ ReadFrame
ServerStep == Respond \/ Echo \/ ServerClose
Next == ClientStep \/ ServerStep
Spec == Init /\ [][Next]_vars /\ WF_vars(ClientStep) /\ WF_vars(ServerStep)

-----------------------------------------------------------------------------
\* Nothing that was given to send is lost, repeated or put out of order: it is
\* on the wire or waits, until the connection is closed.
WireInOrder ==
  IF phase = "closed" THEN \E n \in 0..Len(asked) : wire = SubSeq(asked, 1, n)
  ELSE wire \o pending = asked

\* A message is received only for one that was written whole.
EchoesOnly == received > 0 => 2 * received <= Len(wire) - 2

\* What one side has is what the other has sent, in its order.
InOrder == WireInOrder /\ EchoesOnly

\* However often a send finds the buffer full, the second echo is received,
\* unless a short write closed the connection.
Completed == received = 2 \/ phase = "closed"
Completes == <>Completed

Given == (0..2) \X {1, 2}
Event == ({"r"} \X (1..Parts)) \cup ({"echo"} \X Nat)

Typed ==
  /\ phase \in {"connecting", "handshake", "frames", "closed"}
  /\ pending \in Seq(Given) /\ asked \in Seq(Given) /\ wire \in Seq(Given)
  /\ sliced \in BOOLEAN /\ received \in Nat /\ read \in Nat
  /\ parts \in 0..Parts /\ inbox \in Seq(Event)

Before ==
  phase \in {"connecting", "handshake"} =>
    /\ pending = <<>> /\ sliced = FALSE /\ received = 0
    /\ Len(wire) = IF phase = "connecting" THEN 0 ELSE 2
    /\ read = IF parts = 0 THEN 0 ELSE 2
    /\ parts > 0 => phase = "handshake"

\* A part of the response that is there to be read has been sent.
Responded == \A i \in DOMAIN inbox : inbox[i][1] = "r" => inbox[i][2] <= parts

\* What waits is a whole message, or what a short write left.
Waiting ==
  phase = "frames" =>
    /\ parts = Parts /\ read >= 2
    /\ IF sliced THEN pending # <<>> ELSE pending # <<>> => Len(pending) = 2

\* Of each message written, the echo is received, or there to be read, or the
\* server has yet to read the message.
Coming == IF inbox = <<>> THEN 0 ELSE 1
Unread == IF Len(wire) > read THEN 1 ELSE 0
Underway == received + Coming + Unread
OnTheWay == phase = "frames" /\ ~sliced => 2 * Underway <= Len(wire) - 2

IInv == Typed /\ Before /\ Responded /\ Waiting /\ OnTheWay /\ InOrder
=============================================================================
