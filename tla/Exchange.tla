------------------------------ MODULE Exchange ------------------------------
(***************************************************************************)
(* What the https client promises of HTTP/1.1 keep-alive, without pool,    *)
(* TLS or octets: a request is sent once, over a connection to its server  *)
(* that carries no other request, and it is answered by that connection    *)
(* before the connection carries the next one.                             *)
(***************************************************************************)

CONSTANTS Calls, Keys, None

VARIABLES
  key,        \* the server of each call
  stage,      \* "unused", "open" or "closed", of each connection
  carries,    \* the call whose request a connection carries, or None
  sent,       \* calls whose request was sent
  answered    \* calls whose response is complete

vars == <<key, stage, carries, sent, answered>>

Init ==
  /\ key \in [Calls -> Keys]
  /\ stage = [c \in Calls |-> "unused"]
  /\ carries = [c \in Calls |-> None]
  /\ sent = {}
  /\ answered = {}

Open(c) ==
  /\ stage[c] = "unused"
  /\ stage' = [stage EXCEPT ![c] = "open"]
  /\ UNCHANGED <<key, carries, sent, answered>>

Send(c, r) ==
  /\ stage[c] = "open"
  /\ carries[c] = None
  /\ r \notin sent
  /\ key[r] = key[c]
  /\ carries' = [carries EXCEPT ![c] = r]
  /\ sent' = sent \cup {r}
  /\ UNCHANGED <<key, stage, answered>>

\* The answer is complete; the connection may be closed in the same step.
Answer(c) ==
  /\ stage[c] = "open"
  /\ carries[c] # None
  /\ answered' = answered \cup {carries[c]}
  /\ carries' = [carries EXCEPT ![c] = None]
  /\ \/ stage' = stage
     \/ stage' = [stage EXCEPT ![c] = "closed"]
  /\ UNCHANGED <<key, sent>>

\* The request a closed connection carried is lost.
Close(c) ==
  /\ stage[c] = "open"
  /\ stage' = [stage EXCEPT ![c] = "closed"]
  /\ carries' = [carries EXCEPT ![c] = None]
  /\ UNCHANGED <<key, sent, answered>>

Next ==
  \E c \in Calls :
    \/ Open(c) \/ Answer(c) \/ Close(c)
    \/ \E r \in Calls : Send(c, r)

Spec == Init /\ [][Next]_vars
=============================================================================
