-------------------------------- MODULE Utf8 --------------------------------
(***************************************************************************)
(* is_valid of websocket/sws.c against the table of well-formed UTF-8.     *)
(* The state machine writes a text, byte by byte or a run of ASCII at once.*)
(***************************************************************************)
EXTENDS Integers, Sequences, FiniteSetsExt

CONSTANTS
  Pieces,   \* what a text is put together from, each a sequence of bytes
  Most      \* how many pieces

PieceAssumption == \A piece \in Pieces : piece \in Seq(0..255)
MostAssumption == Most \in Nat

VARIABLES text, pieces

Ascii(b) == b < 128
Follows(b) == b \div 64 = 2                 \* (b & 0xc0) == 0x80

\* How many bytes the character at i has, 0 when it is none.  s[i] is not ASCII.
\* Faulty variant: the second byte of a character of three may be any.
CharacterLoose(s, i) ==
  LET Has(n) == i + n <= Len(s) /\ \A k \in 1..n : Follows(s[i + k])
  IN  CASE s[i] \div 32 = 6 -> IF Has(1) /\ s[i] \div 2 # 96 THEN 2 ELSE 0
        [] s[i] \div 16 = 14 -> IF Has(2) THEN 3 ELSE 0
        [] s[i] \div 8 = 30 ->
             IF Has(3) /\ ~(s[i] = 240 /\ s[i + 1] \div 16 = 8)
                       /\ ~(s[i] = 244 /\ s[i + 1] > 143) /\ s[i] <= 244 THEN 4 ELSE 0
        [] OTHER -> 0

Character(s, i) ==
  LET Has(n) == i + n <= Len(s) /\ \A k \in 1..n : Follows(s[i + k])
  IN  CASE s[i] \div 32 = 6 -> IF Has(1) /\ s[i] \div 2 # 96 THEN 2 ELSE 0
        [] s[i] \div 16 = 14 ->
             IF Has(2) /\ ~(s[i] = 224 /\ s[i + 1] \div 32 = 4)
                       /\ ~(s[i] = 237 /\ s[i + 1] \div 32 = 5) THEN 3 ELSE 0
        [] s[i] \div 8 = 30 ->
             IF Has(3) /\ ~(s[i] = 240 /\ s[i + 1] \div 16 = 8)
                       /\ ~(s[i] = 244 /\ s[i + 1] > 143) /\ s[i] <= 244 THEN 4 ELSE 0
        [] OTHER -> 0

\* Where the loop goes on after place i, 0 when the text is not valid: behind four
\* ASCII bytes at once, or behind the ASCII before the next character and that
\* character.
goes_on(s, i) ==
  IF i + 3 <= Len(s) /\ \A k \in 0..3 : Ascii(s[i + k]) THEN i + 4
  ELSE LET rest == { k \in i..Len(s) : ~Ascii(s[k]) }
       IN  IF rest = {} THEN Len(s) + 1
           ELSE IF Character(s, Min(rest)) = 0 THEN 0
           ELSE Min(rest) + Character(s, Min(rest))

is_valid(s) ==
  LET valid[i \in 1..Len(s) + 1] ==
        IF i > Len(s) THEN 1
        ELSE IF goes_on(s, i) = 0 THEN 0 ELSE valid[goes_on(s, i)]
  IN  valid[1]

Init == text = <<>> /\ pieces = 0
Write(piece) == pieces < Most /\ pieces' = pieces + 1 /\ text' = text \o piece
Next == \E piece \in Pieces : Write(piece)
Spec == Init /\ [][Next]_<<text, pieces>>

-----------------------------------------------------------------------------
Tail4 == 128..191

\* The well-formed byte sequences of the Unicode standard, by first byte.
WellFormed(c) ==
  \/ Len(c) = 1 /\ c[1] \in 0..127
  \/ Len(c) = 2 /\ c[1] \in 194..223 /\ c[2] \in Tail4
  \/ Len(c) = 3 /\ c[3] \in Tail4
       /\ c[2] \in CASE c[1] = 224 -> 160..191 [] c[1] = 237 -> 128..159
                     [] c[1] \in 225..239 \ {237} -> Tail4 [] OTHER -> {}
  \/ Len(c) = 4 /\ c[3] \in Tail4 /\ c[4] \in Tail4
       /\ c[2] \in CASE c[1] = 240 -> 144..191 [] c[1] = 244 -> 128..143
                     [] c[1] \in 241..243 -> Tail4 [] OTHER -> {}

\* A text is accepted if and only if it is a row of well-formed characters.
IsRow(s) ==
  LET row[i \in 1..Len(s) + 1] ==
        \/ i > Len(s)
        \/ \E k \in 1..4 :
             i + k - 1 <= Len(s) /\ WellFormed(SubSeq(s, i, i + k - 1)) /\ row[i + k]
  IN  row[1]

Typed == text \in Seq(0..255) /\ pieces \in Nat
Agrees == (is_valid(text) = 1) <=> IsRow(text)
=============================================================================
