------------------------------- MODULE Rally --------------------------------
(***************************************************************************)
(* What a load client and its server promise together: on each connection  *)
(* they take turns, one question and one answer at a time, until the       *)
(* connection ends.                                                        *)
(***************************************************************************)

CONSTANT Conns

VARIABLE turn   \* "off", "asked", "answered" or "over", of each connection

Init == turn = [c \in Conns |-> "off"]

Move(c, from, to) ==
  /\ turn[c] \in from
  /\ turn' = [turn EXCEPT ![c] = to]

Ask(c) == Move(c, {"off", "answered"}, "asked")
Answer(c) == Move(c, {"asked"}, "answered")
End(c) == Move(c, {"off", "asked", "answered"}, "over")

Next == \E c \in Conns : Ask(c) \/ Answer(c) \/ End(c)

Spec == Init /\ [][Next]_turn
=============================================================================
