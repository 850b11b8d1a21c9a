--------------------------- MODULE MCSimpleConcurrent ---------------------------
(* Small instances of SimpleConcurrent: chains, servers and failures.          *)
EXTENDS SimpleConcurrent

CONSTANTS c1, c2, c3, c4, k1

ThreeCalls == {c1, c2, c3}
FourCalls == {c1, c2, c3, c4}
OneKey == {k1}

ShortLength == {[chunked |-> FALSE, head |-> 2, data |-> 2]}
LengthResponses ==
  {[chunked |-> FALSE, head |-> 2, data |-> 1],
   [chunked |-> FALSE, head |-> 2, data |-> 3]}
NoFault == {}
AgainOrClose == {"again", "close"}
=============================================================================
