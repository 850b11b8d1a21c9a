------------------------------- MODULE MCFetch -------------------------------
(* Small instances of Fetch: servers, responses, failures and callers.      *)
EXTENDS Fetch, TLC, FiniteSets

CONSTANTS c1, c2, c3, k1, k2

TwoCalls == {c1, c2}
ThreeCalls == {c1, c2, c3}
OneKey == {k1}
TwoKeys == {k1, k2}

\* Content-Length responses: an empty body, one octet, two octets.
LengthResponses ==
  {[chunked |-> FALSE, head |-> 2, data |-> 0],
   [chunked |-> FALSE, head |-> 1, data |-> 1],
   [chunked |-> FALSE, head |-> 1, data |-> 2]}

OneLength == {[chunked |-> FALSE, head |-> 1, data |-> 1]}

\* Chunked bodies of one octet and of three.
ChunkedResponses ==
  {[chunked |-> TRUE, head |-> 2, data |-> 1],
   [chunked |-> TRUE, head |-> 1, data |-> 3]}

\* Bodies of both kinds.
MixedResponses ==
  ChunkedResponses \cup {[chunked |-> FALSE, head |-> 1, data |-> 2]}

NoFault == {}
AnyFault == {"dns", "tls", "reset", "eof"}
AnyReaction == {"keep", "close", "later", "again"}
OnlyClose == {"close"}
OnlyKeep == {"keep"}

Symmetry == Permutations(Calls)
=============================================================================
