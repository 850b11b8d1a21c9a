-------------------------------- MODULE OneOf -------------------------------
(***************************************************************************)
(* The state of a run that checks several programs.  A behaviour is one of *)
(* theirs: `subject` names it from the initial state on, its variables are *)
(* s1, s2, ... in the order in which its module declares them, and those   *)
(* it does not need stay off.                                              *)
(***************************************************************************)
VARIABLES subject, s1, s2, s3, s4, s5, s6, s7, s8, s9, s10, s11, s12

Rest13 == subject
Rest12 == <<s12, Rest13>>
Rest11 == <<s11, Rest12>>
Rest10 == <<s10, Rest11>>
Rest9 == <<s9, Rest10>>
Rest8 == <<s8, Rest9>>
Rest7 == <<s7, Rest8>>
Rest6 == <<s6, Rest7>>
Rest5 == <<s5, Rest6>>
Rest4 == <<s4, Rest5>>
Rest3 == <<s3, Rest4>>
Rest2 == <<s2, Rest3>>
all == <<s1, Rest2>>

Off == "off"
Off12 == s12 = Off
Off11 == s11 = Off /\ Off12
Off10 == s10 = Off /\ Off11
Off9 == s9 = Off /\ Off10
Off8 == s8 = Off /\ Off9
Off7 == s7 = Off /\ Off8
Off6 == s6 = Off /\ Off7
Off5 == s5 = Off /\ Off6
Off4 == s4 = Off /\ Off5
Off3 == s3 = Off /\ Off4
Off2 == s2 = Off /\ Off3
=============================================================================
