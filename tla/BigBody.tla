------------------------------ MODULE BigBody -------------------------------
(***************************************************************************)
(* One connection of the https server fetch/server.js and a client that    *)
(* asks it for one path after another (fetch/mini.js, fetch/simple.js).    *)
(* An answer is written by a single SSL_write on a non-blocking socket.    *)
(* SSL_write sends record after record and returns an error when one does  *)
(* not fit: that record stays half sent in the SSL object, which takes     *)
(* nothing else until the same write is repeated, and server.js never      *)
(* repeats one.                                                            *)
(***************************************************************************)
EXTENDS Integers

CONSTANTS
  Small,    \* records of the answers to "/" and to unknown paths,
  Big,      \* and of those to "/big" and "/bigstring" (1 MB)
  Room,     \* records the two sockets hold when nobody reads
  Rounds    \* requests that are followed

SizesAssumption == {Small, Big, Room} \subseteq Nat \ {0} /\ Small <= Big
RoundsAssumption == Rounds \in Nat

NoPath == "none"
Paths == {"/", "/big", "/bigstring", "/other"}

VARIABLES
  asked,    \* the path the client waits for, or NoPath
  request,  \* whether its request waits at the server
  stuck,    \* a record is half sent
  wire,     \* records on their way to the client
  got,      \* records of the answer the client has read
  served,   \* stats.rps of the server
  done      \* answers the client has completed

vars == <<asked, request, stuck, wire, got, served, done>>

Init ==
  /\ asked = NoPath /\ request = FALSE /\ stuck = FALSE
  /\ wire = 0 /\ got = 0 /\ served = 0 /\ done = 0

\* Records of an answer: a head, and a body of the length the head states.
Answer(path) == IF path \in {"/big", "/bigstring"} THEN Big ELSE Small

Ask(path) ==
  /\ asked = NoPath /\ done < Rounds
  /\ asked' = path /\ request' = TRUE /\ got' = 0
  /\ UNCHANGED <<stuck, wire, served, done>>

\* Records that SSL_write may have sent of so many: the client may read, and
\* make room, while it writes.
Sent(size) == IF stuck THEN {0} ELSE {n \in 0..size : n >= Room \/ n = size}

\* Faulty variant: the length of the head is left out of the length written.
SendBodyLength ==
  /\ request
  /\ request' = FALSE
  /\ \E n \in Sent(Answer(asked)) : wire' = wire + n - (IF n > 1 THEN 1 ELSE 0)
  /\ served' = served + 1
  /\ UNCHANGED <<asked, stuck, got, done>>

\* Faulty variant: an answer is counted as soon as it is asked for.
RespondCounted ==
  /\ request
  /\ request' = FALSE
  /\ \E n \in Sent(Answer(asked)) : wire' = wire + n /\ stuck' = (n # Answer(asked))
  /\ served' = served + 1
  /\ UNCHANGED <<asked, got, done>>

\* on_socket_event: counted when everything was written, and nothing is done
\* about it when it was not.
Respond ==
  /\ request
  /\ request' = FALSE
  /\ \E n \in Sent(Answer(asked)) :
       /\ wire' = wire + n
       /\ IF n = Answer(asked) THEN served' = served + 1 /\ stuck' = FALSE
                              ELSE stuck' = TRUE /\ UNCHANGED served
  /\ UNCHANGED <<asked, got, done>>

Read ==
  /\ wire > 0
  /\ wire' = wire - 1
  /\ IF got + 1 = Answer(asked)
     THEN asked' = NoPath /\ got' = 0 /\ done' = done + 1
     ELSE got' = got + 1 /\ UNCHANGED <<asked, done>>
  /\ UNCHANGED <<request, stuck, served>>

Next == Respond \/ Read \/ \E path \in Paths : Ask(path)

Spec == Init /\ [][Next]_vars
FairSpec == Spec /\ WF_vars(Respond) /\ WF_vars(Read)

-----------------------------------------------------------------------------
TypeOK ==
  /\ asked \in Paths \union {NoPath} /\ request \in BOOLEAN /\ stuck \in BOOLEAN
  /\ wire \in 0..Big /\ got \in 0..Big /\ served \in 0..Rounds /\ done \in 0..Rounds

\* The server's rate is the client's: a completed answer was counted, and a
\* counted answer is complete or will be by what is on its way.
Figures ==
  \/ served = done
  \/ served = done + 1 /\ ~request /\ asked # NoPath /\ got + wire = Answer(asked)

\* Why: what was sent and read never is more than the answer, and only an answer
\* sent whole was counted.
OneAnswer ==
  IF asked = NoPath THEN ~request /\ wire = 0 /\ got = 0 /\ served = done
  ELSE /\ done < Rounds /\ got < Answer(asked)
       /\ request => wire = 0 /\ got = 0 /\ served = done
       /\ got + wire <= Answer(asked)
       /\ served = done + 1 <=> got + wire = Answer(asked)

IInv == TypeOK /\ Figures /\ OneAnswer

\* A request gets the whole answer that its head announces
\* (`assert(body.length === 1048576)`, fetch/mini.js:14).
Waiting == asked # NoPath
Delivered == Waiting ~> ~Waiting
=============================================================================
