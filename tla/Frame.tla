-------------------------------- MODULE Frame -------------------------------
(***************************************************************************)
(* The frames of websocket/socket.js, websocket/websocket.js and the mask  *)
(* of websocket/sws.c: how the server reads, unmasks and echoes one, how   *)
(* the client writes and reads one.  Frames are sequences of bytes,        *)
(* indexed from 1.  A byte of the payload is a set of the key bytes it is  *)
(* masked with, so that masking twice is the identity.                     *)
(***************************************************************************)
EXTENDS Integers, Sequences

CONSTANTS
  Sizes,    \* sizes of payloads
  Behind    \* bytes that may lie behind a frame in the buffer

SizeAssumption == (\A n \in Sizes : n \in Nat /\ n <= 2147483647) /\ Behind \subseteq Nat

VARIABLES size, masked, behind

\* The sizes that are written in the second byte, and in two bytes behind it.
Short(n) == n < 126
Medium(n) == 126 <= n /\ n < 65536

\* Numbers of two and of four bytes at place i.
BigEndian2(n) == <<n \div 256, n % 256>>
BigEndian4(n) == <<n \div 16777216, (n \div 65536) % 256, (n \div 256) % 256, n % 256>>
FromBigEndian2(b, i) == 256 * b[i] + b[i + 1]
FromBigEndian4(b, i) == 65536 * FromBigEndian2(b, i) + FromBigEndian2(b, i + 2)
FromLittleEndian2(b, i) == b[i] + 256 * b[i + 1]
FromLittleEndian4(b, i) == FromLittleEndian2(b, i) + 65536 * FromLittleEndian2(b, i + 2)
Zeros == <<0, 0, 0, 0>>

Key == [k \in 1..4 |-> {k}]
Toggle(byte, k) == (byte \ {k}) \cup ({k} \ byte)

-----------------------------------------------------------------------------
\* WebSocket.message: what the header of a frame says; start is the number of
\* bytes before the payload.
Message(b) ==
  LET code == b[2] % 128
      start == (CASE code = 126 -> 4 [] code = 127 -> 10 [] OTHER -> 2)
  IN  [op |-> b[1] % 16, mask |-> b[2] \div 128, start |-> start + 4 * (b[2] \div 128),
       len |-> CASE code = 126 -> FromLittleEndian2(b, 3)
                 [] code = 127 -> FromLittleEndian4(b, 3)
                 [] OTHER -> code]

\* Faulty variant: bytes are masked one by one, the last four are left out.
MaskWhole(b, start, len) ==
  [i \in DOMAIN b |-> IF i - start \in 1..4 * (len \div 4)
                      THEN Toggle(b[i], 1 + ((i - start - 1) % 4)) ELSE b[i]]

\* mask: four bytes at a time, up to three of them behind the payload.
Mask(b, start, len) ==
  [i \in DOMAIN b |-> IF i - start \in 1..4 * ((len + 3) \div 4)
                      THEN Toggle(b[i], 1 + ((i - start - 1) % 4)) ELSE b[i]]

\* WebSocket.unmask and the bytes that are sent back: the payload is moved over
\* the key, the header loses its mask bit.
Echo(b) ==
  LET m == Message(b)
      unmasked == Mask(b, m.start, m.len)
  IN  IF m.mask = 0 THEN SubSeq(b, 1, m.start + m.len)
      ELSE SubSeq([b EXCEPT ![2] = @ % 128], 1, m.start - 4)
             \o SubSeq(unmasked, m.start + 1, m.start + m.len)

-----------------------------------------------------------------------------
\* Faulty variant: a length of two bytes is written last byte first.
HeaderSwapped(n, mask) ==
  CASE Short(n) -> <<130, n + 128 * mask>>
    [] Medium(n) -> <<130, 126 + 16 * mask, n % 256, n \div 256>>
    [] OTHER -> <<130, 127 + 16 * mask>> \o Zeros \o BigEndian4(n) \o Zeros

\* createMessage: its header, and the size of its buffer.
Header(n, mask) ==
  CASE Short(n) -> <<130, n + 128 * mask>>
    [] Medium(n) -> <<130, 126 + 16 * mask, n \div 256, n % 256>>
    [] OTHER -> <<130, 127 + 16 * mask>> \o Zeros \o BigEndian4(n) \o Zeros

Length(n, mask) ==
  n + (CASE Short(n) -> 2 [] Medium(n) -> 4 [] OTHER -> 10) + 4 * mask

\* off, behind which the payload is put, and whether it fits in there.
Offset(n, mask) == Len(Header(n, mask))
Fits(n, mask) == Offset(n, mask) + n <= Length(n, mask)

\* Byte i of what the client sends: the payload as it is, put over the key, and
\* that over the header.
WrittenByte(n, mask, i) ==
  LET place == i - Offset(n, mask)
  IN  IF place \in 1..n THEN {100 + place}
      ELSE IF mask = 1 /\ i \in 3..6 THEN Key[i - 2]
      ELSE IF i <= Offset(n, mask) THEN Header(n, mask)[i]
      ELSE 0

\* Faulty variant: the length of two bytes is read as the server reads it.
ClientLengthSwapped(b) ==
  LET code == b[2] % 128
  IN  CASE code = 126 -> FromLittleEndian2(b, 3)
        [] code = 127 -> FromBigEndian4(b, 3) + FromBigEndian4(b, 7)
        [] OTHER -> code

\* The length onReadable takes from a frame; `l1 << 32` is l1.
ClientLength(b) ==
  LET code == b[2] % 128
  IN  CASE code = 126 -> FromBigEndian2(b, 3)
        [] code = 127 -> FromBigEndian4(b, 3) + FromBigEndian4(b, 7)
        [] OTHER -> code

-----------------------------------------------------------------------------
Init == size \in Sizes /\ masked \in {0, 1} /\ behind \in Behind
Next == UNCHANGED <<size, masked, behind>>
Spec == Init /\ [][Next]_<<size, masked, behind>>

Typed == size \in Sizes /\ masked \in {0, 1} /\ behind \in Behind

\* The format the head of socket.js draws, with its lengths in network order.
FormatHeader(n, mask) ==
  CASE Short(n) -> <<130, n + 128 * mask>>
    [] Medium(n) -> <<130, 126 + 128 * mask>> \o BigEndian2(n)
    [] OTHER -> <<130, 127 + 128 * mask>> \o Zeros \o BigEndian4(n)

Payload(n, mask) == [i \in 1..n |-> IF mask = 1 THEN {100 + i, 1 + ((i - 1) % 4)} ELSE {100 + i}]
Format(n, mask) ==
  FormatHeader(n, mask) \o (IF mask = 1 THEN Key ELSE <<>>) \o Payload(n, mask)

\* A frame of less than 126 bytes comes back unmasked, byte for byte, whatever
\* lies behind it in the buffer.
EchoesShort ==
  Short(size) =>
    Echo(Format(size, masked) \o [i \in 1..behind |-> {-i}]) = Format(size, 0)

\* What the client makes of a payload is a frame of the format.
IsFrame(n, mask) ==
  LET head == FormatHeader(n, mask)
      start == Len(head) + 4 * mask
  IN  /\ Fits(n, mask) /\ Length(n, mask) = start + n
      /\ \A i \in 1..Len(head) : WrittenByte(n, mask, i) = head[i]
      /\ \A k \in 1..4 * mask : WrittenByte(n, mask, Len(head) + k) = Key[k]
      /\ \A j \in 1..n : WrittenByte(n, mask, start + j) = Payload(n, mask)[j]

\* It is one for the unmasked payloads below 65536 bytes and for the empty masked
\* one, which client.js sends, and for no other: a payload that is masked lies
\* over its key, unmasked, or behind a wrong header, and a large one that is not
\* has no room.
ClientWrites ==
  IsFrame(size, masked) <=> IF masked = 1 THEN size = 0 ELSE size < 65536

\* The client reads the length of every unmasked frame below 2^31 bytes.
ClientReads == ClientLength(FormatHeader(size, 0)) = size

\* Server and client agree with the format, within their limits.
Agrees == EchoesShort /\ ClientWrites /\ ClientReads
=============================================================================
