-------------------------------- MODULE Echo --------------------------------
(***************************************************************************)
(* The echo benchmarks: a client sends one payload and both sides send     *)
(* back whatever they read.  Kind is the pair of programs: "tcp" is        *)
(* net/echo-server.js and echo-client.js, which throw at a short write;    *)
(* "unix" is echo-server-unix.js and echo-client-unix.js, which ignore it; *)
(* "bp" is echo-server-bp.js, which keeps the rest but ends when it is to  *)
(* send it, and echo-client.js.                                            *)
(* A stream is the set of the places, counted from its reader, at which    *)
(* the writes end that are not read: a socket has room for so much, and    *)
(* each write may cost extra.                                              *)
(***************************************************************************)
EXTENDS Integers, FiniteSets

CONSTANTS
  Conns,
  Kind,
  Payload,    \* octets the client starts with (BUFSIZE)
  Room,       \* what a stream holds
  Overhead,   \* what a write takes of the room beyond its octets
  Faults      \* what may fail: "reset"

\* What waits in a unix socket is counted in octets.
SizesAssumption ==
  /\ {Payload, Room} \subseteq Nat \ {0} /\ Overhead \in Nat
  /\ Kind \in {"tcp", "unix", "bp"} /\ (Kind = "unix" => Overhead = 0)

VARIABLES
  client,     \* none, connecting, open, closed
  server,     \* none, backlog, open, draining, closed
  toServer, toClient,
  first,      \* octets the first write of the client took
  kept,       \* `pending` of echo-server-bp.js: octets to be written
  down        \* the programs that an exception ended: "client", "server"

vars == <<client, server, toServer, toClient, first, kept, down>>

Init ==
  /\ client = [c \in Conns |-> "none"] /\ server = [c \in Conns |-> "none"]
  /\ toServer = [c \in Conns |-> {}] /\ toClient = [c \in Conns |-> {}]
  /\ first = [c \in Conns |-> 0] /\ kept = [c \in Conns |-> 0]
  /\ down = {}

-----------------------------------------------------------------------------
(* Streams.                                                                *)

\* Where the last write ends.
Octets(stream) ==
  IF stream = {} THEN 0 ELSE CHOOSE e \in stream : \A o \in stream : o <= e

\* Octets of n that a write into the stream takes: 0 is Blocked.
Taken(stream, n) ==
  LET free == Room - Octets(stream) - Overhead * (Cardinality(stream) + 1)
  IN IF free <= 0 THEN 0 ELSE IF free < n THEN free ELSE n

\* The stream when n octets were read: a read may end inside a write.
Rest(stream, n) == {e - n : e \in {o \in stream : o > n}}

Put(stream, n) == IF n = 0 THEN stream ELSE stream \cup {Octets(stream) + n}

ClientGone(c) == client[c] = "closed" \/ "client" \in down
ServerGone(c) == server[c] = "closed" \/ "server" \in down

\* A write to a peer that is gone fails, or its octets are lost.
Written(gone, stream, n) == IF gone THEN {0, n} ELSE {Taken(stream, n)}
After(gone, stream, n) == IF gone THEN {} ELSE Put(stream, n)

-----------------------------------------------------------------------------
(* The client.                                                             *)

StartClient(c) ==
  /\ client[c] = "none"
  /\ client' = [client EXCEPT ![c] = "connecting"]
  /\ server' = [server EXCEPT ![c] = "backlog"]
  /\ UNCHANGED <<toServer, toClient, first, kept, down>>

\* Faulty variant: the client waits for the server to begin.
ConnectSilent(c) ==
  /\ client[c] = "connecting"
  /\ client' = [client EXCEPT ![c] = "open"]
  /\ UNCHANGED <<server, toServer, toClient, first, kept, down>>

\* The result of the first write is not looked at.
ClientConnect(c) ==
  /\ client[c] = "connecting"
  /\ client' = [client EXCEPT ![c] = "open"]
  /\ \E w \in Written(ServerGone(c), toServer[c], Payload) :
       /\ toServer' = [toServer EXCEPT ![c] = After(ServerGone(c), @, w)]
       /\ first' = [first EXCEPT ![c] = w]
  /\ UNCHANGED <<server, toClient, kept, down>>

\* n octets have arrived and are read.
ClientEcho(c, n) ==
  /\ client[c] = "open"
  /\ \E w \in Written(ServerGone(c), toServer[c], n) :
       /\ toServer' = [toServer EXCEPT ![c] = After(ServerGone(c), @, w)]
       /\ down' = IF Kind # "unix" /\ w # n THEN down \union {"client"} ELSE down
  /\ toClient' = [toClient EXCEPT ![c] = Rest(@, n)]
  /\ UNCHANGED <<client, server, first, kept>>

ClientEnd(c) ==
  /\ client[c] = "open"
  /\ (ServerGone(c) /\ toClient[c] = {}) \/ "reset" \in Faults
  /\ client' = [client EXCEPT ![c] = "closed"]
  /\ toClient' = [toClient EXCEPT ![c] = {}]
  /\ UNCHANGED <<server, toServer, first, kept, down>>

-----------------------------------------------------------------------------
(* The server.                                                             *)

Accept(c) ==
  /\ server[c] = "backlog"
  /\ server' = [server EXCEPT ![c] = "open"]
  /\ UNCHANGED <<client, toServer, toClient, first, kept, down>>

ServerClose(c) ==
  /\ server' = [server EXCEPT ![c] = "closed"]
  /\ UNCHANGED kept

\* Faulty variant: the slice that is kept starts at 0.
KeepAll(c, n, w) ==
  IF w = n THEN UNCHANGED <<server, kept>>
  ELSE IF w > 0 THEN /\ kept' = [kept EXCEPT ![c] = n]
                     /\ server' = [server EXCEPT ![c] = "draining"]
  ELSE UNCHANGED <<server, kept>>

\* Faulty variant: the difference is taken the wrong way round.
KeepSwapped(c, n, w) ==
  IF w = n THEN UNCHANGED <<server, kept>>
  ELSE IF w > 0 THEN /\ kept' = [kept EXCEPT ![c] = w - n]
                     /\ server' = [server EXCEPT ![c] = "draining"]
  ELSE UNCHANGED <<server, kept>>

\* Faulty variant: the rest is kept, but nobody watches for room.
KeepUnwatched(c, n, w) ==
  IF w = n THEN UNCHANGED <<server, kept>>
  ELSE IF w > 0 THEN kept' = [kept EXCEPT ![c] = n - w] /\ UNCHANGED server
  ELSE IF ClientGone(c) THEN ServerClose(c)
  ELSE UNCHANGED <<server, kept>>

\* write_buffer and handle_backpressure, of w octets written out of n: a short
\* write keeps the rest and waits for room, a write that is Blocked keeps
\* nothing, and any other error closes.
KeepRest(c, n, w) ==
  IF w = n THEN UNCHANGED <<server, kept>>
  ELSE IF w > 0 THEN /\ kept' = [kept EXCEPT ![c] = n - w]
                     /\ server' = [server EXCEPT ![c] = "draining"]
  ELSE IF ClientGone(c) THEN ServerClose(c)
  ELSE UNCHANGED <<server, kept>>

\* Faulty variant: a short write is like any other.
ServerIgnores(c, n) ==
  /\ server[c] = "open"
  /\ \E w \in Written(ClientGone(c), toClient[c], n) :
       toClient' = [toClient EXCEPT ![c] = After(ClientGone(c), @, w)]
  /\ toServer' = [toServer EXCEPT ![c] = Rest(@, n)]
  /\ UNCHANGED <<client, server, first, kept, down>>

ServerEcho(c, n) ==
  /\ server[c] = "open"
  /\ \E w \in Written(ClientGone(c), toClient[c], n) :
       /\ toClient' = [toClient EXCEPT ![c] = After(ClientGone(c), @, w)]
       /\ IF Kind = "bp" THEN KeepRest(c, n, w) ELSE UNCHANGED <<server, kept>>
       /\ down' = IF Kind = "tcp" /\ w # n THEN down \union {"server"} ELSE down
  /\ toServer' = [toServer EXCEPT ![c] = Rest(@, n)]
  /\ UNCHANGED <<client, first>>

\* on_socket_drain: what is pending is a slice, which has no `ptr`, so that send2
\* is given no address and writes nothing of it; it is deleted all the same, and
\* then `eventLoop`, which is not defined, throws.
Drain(c) ==
  /\ server[c] = "draining"
  /\ Taken(toClient[c], 1) = 1
  /\ kept' = [kept EXCEPT ![c] = 0]
  /\ down' = down \union {"server"}
  /\ UNCHANGED <<client, server, toServer, toClient, first>>

ServerEnd(c) ==
  /\ server[c] = "open"
  /\ (ClientGone(c) /\ toServer[c] = {}) \/ "reset" \in Faults
  /\ ServerClose(c)
  /\ toServer' = [toServer EXCEPT ![c] = {}]
  /\ UNCHANGED <<client, toClient, first, down>>

-----------------------------------------------------------------------------
OnClient(c) ==
  /\ "client" \notin down
  /\ \/ StartClient(c) \/ ClientConnect(c) \/ ClientEnd(c)
     \/ \E n \in 1..Octets(toClient[c]) : ClientEcho(c, n)

OnServer(c) ==
  /\ "server" \notin down
  /\ \/ Accept(c) \/ Drain(c) \/ ServerEnd(c)
     \/ \E n \in 1..Octets(toServer[c]) : ServerEcho(c, n)

Next == \E c \in Conns : OnClient(c) \/ OnServer(c)

Spec == Init /\ [][Next]_vars

\* Both loops poll for ever, and a descriptor that stays ready is served.
FairSpec == Spec /\ \A c \in Conns : WF_vars(OnClient(c)) /\ WF_vars(OnServer(c))

-----------------------------------------------------------------------------
Live(c) ==
  /\ client[c] = "open" /\ server[c] \in {"backlog", "open", "draining"}
  /\ down = {}

Around(c) == Octets(toServer[c]) + Octets(toClient[c]) + kept[c]

TypeOK ==
  /\ client \in [Conns -> {"none", "connecting", "open", "closed"}]
  /\ server \in [Conns -> {"none", "backlog", "open", "draining", "closed"}]
  /\ {toServer, toClient} \subseteq [Conns -> SUBSET (1..Room)]
  /\ {first, kept} \subseteq [Conns -> 0..Payload]
  /\ down \subseteq {"client", "server"}

\* What the client sent first goes round whole for as long as both run: nothing
\* that was read is forgotten.  Without overhead this needs no handling of short
\* writes, since the first write bounds all others.  echo-server-bp.js, which
\* handles them, forgets what it cannot write at all.
Whole(c) == Kind # "bp" /\ Live(c) => Around(c) >= first[c]
NoneLost == \A c \in Conns : Whole(c)

\* Nothing is sent twice, whatever was kept.
NoDuplicates == \A c \in Conns : Live(c) => Around(c) <= first[c]

\* Octets are pending exactly while the loop watches for room to write them
\* (handle_backpressure); with that room the program ends (on_socket_drain).
KeptArmed == \A c \in Conns : Live(c) => (kept[c] > 0 <=> server[c] = "draining")

\* The octets going round are conserved.
Conserved == NoneLost /\ NoDuplicates /\ KeptArmed

\* The exchange never dries up.
Coming(c) == toClient[c] # {}
KeepsEchoing == \A c \in Conns : []<>Coming(c)

-----------------------------------------------------------------------------
(* The invariant behind Conserved: what holds of each connection, also of   *)
(* one that no longer runs.                                                *)

NoMore(c) == Around(c) <= first[c]
Unsent(c) == client[c] \in {"none", "connecting"} => first[c] = 0
Fitted(c) == Live(c) => first[c] <= Room
Pending(c) ==
  /\ kept[c] > 0 => server[c] = "draining"
  /\ server[c] = "draining" => Kind = "bp" /\ (kept[c] > 0 \/ "server" \in down)

Sound(c) == NoMore(c) /\ Unsent(c) /\ Fitted(c) /\ Pending(c) /\ Whole(c)
IInv == TypeOK /\ \A c \in Conns : Sound(c)
=============================================================================
