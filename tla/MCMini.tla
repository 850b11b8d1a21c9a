------------------------------- MODULE MCMini -------------------------------
(* Small instances of Mini: one server, bodies of two octets.               *)
EXTENDS Mini, TLC

CONSTANTS c1, c2, c3, k1

AllCalls == {c1, c2, c3}
TwoJobs == {c1, c2}
OneKey == {k1}
Bodies == {[chunked |-> FALSE, head |-> 1, data |-> 2]}
LookupsAndEnds == {"dns", "eof"}
OnlyKeep == {"keep"}
=============================================================================
