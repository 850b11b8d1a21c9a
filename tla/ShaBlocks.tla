------------------------------ MODULE ShaBlocks -----------------------------
(***************************************************************************)
(* shacalc of websocket/sws.c: the blocks of 64 bytes it gives to          *)
(* innerHash for a text of each length.  innerHash, the compression of one *)
(* block, is left abstract: what it is given decides what it computes.     *)
(***************************************************************************)
EXTENDS Integers, Sequences

CONSTANT MaxLength   \* the longest text that is looked at

\* bytelength << 3 is within an int.
LengthAssumption == MaxLength \in Nat /\ MaxLength < 268435456

VARIABLE bytelength

\* The bytes of a text stand for themselves: byte i is 255 + i.
sarray(n) == [i \in 1..n |-> 255 + i]

\* Words of a block after clearWBuffert.
Clear == [i \in 1..64 |-> 0]

\* bytelength << 3 as the four bytes of the last word.
LastWord(n) == [i \in 1..4 |-> ((8 * n) \div 256 ^ (4 - i)) % 256]
SetLastWord(w, n) == [i \in 1..64 |-> IF i > 60 THEN LastWord(n)[i - 60] ELSE w[i]]

FullBlocks(n) ==
  LET count == IF n < 64 THEN 0 ELSE (n - 64) \div 64 + 1
  IN  [b \in 1..count |-> SubSeq(sarray(n), 64 * b - 63, 64 * b)]

\* Faulty variant: a rest of 56 bytes leaves no room for the length.
LastBlocksTight(n) ==
  LET current == 64 * Len(FullBlocks(n))
      rest == n - current
      w == [i \in 1..64 |-> IF i <= rest THEN sarray(n)[current + i]
                            ELSE IF i = rest + 1 THEN 128 ELSE Clear[i]]
  IN  IF rest > 56 THEN <<w, SetLastWord(Clear, n)>> ELSE <<SetLastWord(w, n)>>

\* The rest of the text and the bit 1; the length follows in a block of its own
\* when it finds no room behind them.
LastBlocks(n) ==
  LET current == 64 * Len(FullBlocks(n))
      rest == n - current
      w == [i \in 1..64 |-> IF i <= rest THEN sarray(n)[current + i]
                            ELSE IF i = rest + 1 THEN 128 ELSE Clear[i]]
  IN  IF rest >= 56 THEN <<w, SetLastWord(Clear, n)>> ELSE <<SetLastWord(w, n)>>

shacalc(n) == FullBlocks(n) \o LastBlocks(n)

Init == bytelength = 0
Next == bytelength < MaxLength /\ bytelength' = bytelength + 1
Spec == Init /\ [][Next]_bytelength

-----------------------------------------------------------------------------
\* What SHA-1 hashes (FIPS 180): the text, a bit 1, zeros up to eight bytes
\* before the end of a block, and the length in bits in those eight bytes.
Padded(n) ==
  LET zeros == CHOOSE k \in 0..63 : (n + 1 + k) % 64 = 56
  IN  sarray(n) \o <<128>> \o [i \in 1..zeros + 4 |-> 0] \o LastWord(n)

Typed == bytelength \in 0..MaxLength

\* For a text of any length the blocks are those of SHA-1, one behind the other.
Agrees ==
  LET blocks == shacalc(bytelength)
      padded == Padded(bytelength)
  IN  /\ Len(padded) = 64 * Len(blocks)
      /\ \A b \in DOMAIN blocks : blocks[b] = SubSeq(padded, 64 * b - 63, 64 * b)
=============================================================================
