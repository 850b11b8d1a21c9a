------------------------------ MODULE WsAccept ------------------------------
(***************************************************************************)
(* The handshakes of websocket/server.js.  All connections read their      *)
(* requests into one buffer, from one offset.  A request is a row of Units *)
(* pieces of text, the key in one of them, the empty line in the last.     *)
(***************************************************************************)
EXTENDS Integers, Sequences

CONSTANTS
  Clients,
  Units,      \* pieces of a request
  KeyUnit,    \* the one that holds Sec-WebSocket-Key
  Size,       \* the size of the buffer
  Cuts        \* the lengths in which clients send their requests

UnitAssumption == Units \in Nat \ {0} /\ KeyUnit \in 1..Units /\ Size \in Nat \ {0}
CutAssumption == Cuts \subseteq 1..Units

VARIABLES
  conn,     \* [Clients -> {"none", "new", "open", "closed"}] as the server sees it
  sent,     \* pieces a client has sent
  inbox,    \* what the server has not read of a connection
  ended,    \* "no", "fin", "rst": how the client ended its side
  recv_buf, \* the contents of the buffer, as far as it was ever written
  off,      \* where the next bytes are read to
  alive,    \* FALSE when an exception has left the loop
  served    \* whose key a client was answered with

vars == <<conn, sent, inbox, ended, recv_buf, off, alive, served>>

None == "none"
Piece(c, u) == [client |-> c, unit |-> u]

Init ==
  /\ conn = [c \in Clients |-> "none"] /\ sent = [c \in Clients |-> 0]
  /\ inbox = [c \in Clients |-> <<>>] /\ ended = [c \in Clients |-> "no"]
  /\ recv_buf = <<>> /\ off = 0 /\ alive = TRUE
  /\ served = [c \in Clients |-> None]

-----------------------------------------------------------------------------
Send(c, n) ==
  /\ conn[c] = "new" /\ ended[c] = "no" /\ sent[c] + n <= Units
  /\ sent' = [sent EXCEPT ![c] = @ + n]
  /\ inbox' = [inbox EXCEPT ![c] = @ \o [i \in 1..n |-> Piece(c, sent[c] + i)]]
  /\ UNCHANGED <<conn, ended, recv_buf, off, alive, served>>

End(c, how) ==
  /\ conn[c] = "new" /\ ended[c] = "no"
  /\ ended' = [ended EXCEPT ![c] = how]
  /\ inbox' = [inbox EXCEPT ![c] = IF how = "rst" THEN <<>> ELSE @]
  /\ UNCHANGED <<conn, sent, recv_buf, off, alive, served>>

-----------------------------------------------------------------------------
OnConnect(c) ==
  /\ alive /\ conn[c] = "none"
  /\ conn' = [conn EXCEPT ![c] = "new"]
  /\ UNCHANGED <<sent, inbox, ended, recv_buf, off, alive, served>>

\* What the parser may say of the text in the buffer: "whole" when the request
\* ends where the text ends, "part", or "bad".  The pieces of two clients are a
\* request or none, depending on where the first one was cut.
Verdicts(text) ==
  LET last == text[Len(text)]
      OneRequest == \A i \in DOMAIN text : text[i] = Piece(last.client, i)
      ends == { i \in DOMAIN text : text[i].unit = Units }
  IN  IF OneRequest THEN IF ends = {} THEN {"part"} ELSE {"whole"}
      ELSE IF text[1].unit # 1 \/ \E i \in ends : i < Len(text) THEN {"bad"}
      ELSE {"bad", IF ends = {} THEN "part" ELSE "whole"}

\* Request is made of as many bytes as the last read returned, from the start
\* of the buffer; a key that is repeated is the last one.
KeyIn(text) ==
  LET keys == { i \in DOMAIN text : text[i].unit = KeyUnit }
  IN  IF keys = {} THEN 0 ELSE CHOOSE i \in keys : \A j \in keys : j <= i

\* Faulty variant: the offset stays behind the request.
ServeKeepsOffset(c, text, bytes) ==
  LET key == KeyIn(SubSeq(text, 1, bytes))
  IN  /\ off' = Len(text) % Size
      /\ conn' = [conn EXCEPT ![c] = IF key = 0 THEN "closed" ELSE "open"]
      /\ served' = [served EXCEPT ![c] = IF key = 0 THEN @ ELSE text[key].client]

\* serve, or its assertion that there is a key, upon which the socket is closed.
Serve(c, text, bytes) ==
  LET key == KeyIn(SubSeq(text, 1, bytes))
  IN  /\ off' = 0
      /\ conn' = [conn EXCEPT ![c] = IF key = 0 THEN "closed" ELSE "open"]
      /\ served' = [served EXCEPT ![c] = IF key = 0 THEN @ ELSE text[key].client]

Close(c) == off' = 0 /\ conn' = [conn EXCEPT ![c] = "closed"] /\ UNCHANGED served

Bytes(c) == IF Len(inbox[c]) < Size - off THEN Len(inbox[c]) ELSE Size - off

Read(c) ==
  /\ alive /\ conn[c] = "new" /\ inbox[c] # <<>> /\ off < Size
  /\ LET bytes == Bytes(c)
         text == SubSeq(recv_buf, 1, off) \o SubSeq(inbox[c], 1, bytes)
     IN  /\ recv_buf' = text \o SubSeq(recv_buf, off + bytes + 1, Len(recv_buf))
         /\ inbox' = [inbox EXCEPT ![c] = SubSeq(@, bytes + 1, Len(@))]
         /\ \E verdict \in Verdicts(text) :
              \/ verdict = "whole" /\ Serve(c, text, bytes)
              \/ verdict = "part" /\ off' = off + bytes /\ UNCHANGED <<conn, served>>
              \/ verdict = "bad" /\ Close(c)
  /\ UNCHANGED <<sent, ended, alive>>

\* Faulty variant: what was read of the request stays in the buffer.
ReadEndKeepsOffset(c) ==
  /\ alive /\ conn[c] = "new" /\ inbox[c] = <<>> /\ ended[c] = "fin"
  /\ conn' = [conn EXCEPT ![c] = "closed"]
  /\ UNCHANGED <<sent, inbox, ended, recv_buf, off, alive, served>>

\* No bytes: the client has ended, or there is no room in the buffer.
ReadEnd(c) ==
  /\ alive /\ conn[c] = "new"
  /\ IF inbox[c] = <<>> THEN ended[c] = "fin" ELSE off = Size
  /\ Close(c)
  /\ UNCHANGED <<sent, inbox, ended, recv_buf, alive>>

\* `spin.errno`: there is no spin.  The exception leaves the callback.
ReadError(c) ==
  /\ alive /\ conn[c] = "new" /\ ended[c] = "rst"
  /\ off' = 0 /\ alive' = FALSE
  /\ UNCHANGED <<conn, sent, inbox, ended, recv_buf, served>>

-----------------------------------------------------------------------------
ServerStep(c) == OnConnect(c) \/ Read(c) \/ ReadEnd(c) \/ ReadError(c)
ClientStep(c) == (\E n \in Cuts : Send(c, n)) \/ (\E how \in {"fin", "rst"} : End(c, how))
Next == \E c \in Clients : ServerStep(c) \/ ClientStep(c)

\* The loop is level-triggered: whatever stays readable is handled.
Spec == Init /\ [][Next]_vars /\ \A c \in Clients : WF_vars(ServerStep(c))

-----------------------------------------------------------------------------
TypeOK ==
  /\ conn \in [Clients -> {"none", "new", "open", "closed"}]
  /\ sent \in [Clients -> 0..Units] /\ off \in 0..Size /\ Len(recv_buf) <= Size
  /\ served \in [Clients -> Clients \cup {None}] /\ alive \in BOOLEAN

\* Whatever waits in the buffer is of clients that are still in their handshake:
\* no piece of a client that is gone, or was answered, is taken for the start of
\* another's request.
Leftover == \A i \in 1..off : conn[recv_buf[i].client] = "new"

\* Clients that send their requests at once are answered, each with its own
\* key, whatever others do, unless they leave or an exception ends the server.
Sent(c) == sent[c] = Units
Settled(c) == served[c] = c \/ ended[c] # "no" \/ ~alive
Answered == \A c \in Clients : Sent(c) ~> Settled(c)

\* What has not been read of a connection is of its own client.
Own == \A c \in Clients : \A i \in DOMAIN inbox[c] : inbox[c][i].client = c

Pieces == [client: Clients, unit: Int]

Waiting ==
  /\ conn \in [Clients -> {"none", "new", "open", "closed"}]
  /\ sent \in [Clients -> 0..Units] /\ off \in 0..Size
  /\ inbox \in [Clients -> Seq(Pieces)]
  /\ Own

\* The offset is within what was written to the buffer.
Buffered ==
  /\ recv_buf \in Seq(Pieces) /\ off <= Len(recv_buf) /\ Len(recv_buf) <= Size
  /\ served \in [Clients -> Clients \cup {None}] /\ alive \in BOOLEAN

IInv == Waiting /\ Buffered /\ Leftover
=============================================================================
