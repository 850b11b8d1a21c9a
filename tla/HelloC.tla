------------------------------- MODULE HelloC -------------------------------
(***************************************************************************)
(* http/hello-c.c: an epoll server in one thread.  A batch of events is    *)
(* fetched and handled one by one; a new connection takes the lowest free  *)
(* descriptor, which may be one that was closed earlier in the batch.      *)
(* Connections are registered for reading and for writing, so that they    *)
(* are reported whenever there is room to write, and whatever one recv     *)
(* returns gets one response.                                              *)
(***************************************************************************)
EXTENDS Integers, FiniteSets

CONSTANTS
  Conn,        \* connections of clients
  None,        \* no connection
  Fds,         \* descriptors the process may have: 1..Fds
  MaxEvents,   \* MAXEVENTS
  Requests,    \* that a client sends over a connection
  Depth,       \* requests a client sends without having read a response
  Room         \* responses that fit into a socket

HelloAssumption ==
  /\ IsFiniteSet(Conn) /\ None \notin Conn
  /\ {Fds, MaxEvents, Requests, Depth, Room} \subseteq Nat \ {0}

Fd == 1..Fds

VARIABLES
  table,       \* connection behind each descriptor, or None
  backlog,     \* connections that wait for accept
  batch,       \* events to handle: descriptor, whether it is an error, connection
  listening,   \* whether the batch holds an event of server_fd
  sent, taken, \* requests sent by each client; those that were read
  answers,     \* responses sent on each connection
  unread,      \* those the client has not read yet
  cut,         \* connections on which a response was cut short
  gone         \* none, closed or reset: what the client has done

vars == <<table, backlog, batch, listening, sent, taken, answers, unread, cut, gone>>
net == <<sent, gone>>

Init ==
  /\ table = [f \in Fd |-> None] /\ backlog = {} /\ batch = {} /\ listening = FALSE
  /\ sent = [c \in Conn |-> 0] /\ taken = sent /\ answers = sent /\ unread = sent
  /\ cut = {} /\ gone = [c \in Conn |-> "none"]

Busy == batch # {} \/ listening
Open(c) == \E f \in Fd : table[f] = c

-----------------------------------------------------------------------------
\* The clients.
Connect(c) ==
  /\ c \notin backlog /\ ~Open(c) /\ sent[c] = 0 /\ gone[c] = "none"
  /\ backlog' = backlog \cup {c}
  /\ UNCHANGED <<table, batch, listening, taken, answers, unread, cut, net>>

Send(c) ==
  /\ c \in backlog \/ Open(c)
  /\ gone[c] = "none" /\ sent[c] < Requests /\ sent[c] - answers[c] + unread[c] < Depth
  /\ sent' = [sent EXCEPT ![c] = @ + 1]
  /\ UNCHANGED <<table, backlog, batch, listening, taken, answers, unread, cut, gone>>

Read(c) ==
  /\ unread[c] > 0 /\ unread' = [unread EXCEPT ![c] = @ - 1]
  /\ UNCHANGED <<table, backlog, batch, listening, taken, answers, cut, net>>

\* A client may leave before it is accepted, and is accepted all the same.  That
\* the response to one that has left may raise SIGPIPE is left out.
Leave(c) ==
  /\ c \in backlog \/ Open(c)
  /\ gone[c] = "none"
  /\ \E how \in {"closed", "reset"} : gone' = [gone EXCEPT ![c] = how]
  /\ UNCHANGED <<table, backlog, batch, listening, sent, taken, answers, unread, cut>>

-----------------------------------------------------------------------------
\* EPOLLERR and EPOLLHUP for a reset, EPOLLIN for data and for the end of file,
\* EPOLLOUT while there is room.
Failed(c) == gone[c] = "reset"
Ready(c) == Failed(c) \/ gone[c] = "closed" \/ sent[c] > taken[c] \/ unread[c] < Room
Events == { [fd |-> f, failed |-> Failed(table[f]), conn |-> table[f]] : f \in { f \in Fd : table[f] # None /\ Ready(table[f]) } }

\* Faulty variant: an error and the readiness of a descriptor are two events.
WaitSplits ==
  /\ ~Busy
  /\ batch' = Events \cup { [e EXCEPT !.failed = FALSE] : e \in Events } /\ listening' = (backlog # {})
  /\ batch' # {} \/ listening'
  /\ UNCHANGED <<table, backlog, taken, answers, unread, cut, net>>

\* epoll_wait: some of what is ready, at most MAXEVENTS; who is left is next.
Wait ==
  /\ ~Busy
  /\ \E l \in {b \in BOOLEAN : b => backlog # {}}, B \in SUBSET Events :
       /\ l \/ B # {}
       /\ LET n == Cardinality(B) + IF l THEN 1 ELSE 0
              all == Cardinality(Events) + IF backlog # {} THEN 1 ELSE 0
          IN  n = IF all < MaxEvents THEN all ELSE MaxEvents
       /\ batch' = B /\ listening' = l
  /\ UNCHANGED <<table, backlog, taken, answers, unread, cut, net>>

Free == { f \in Fd : table[f] = None }

\* Faulty variant: the connection is accepted and not added.
AcceptOnly ==
  /\ listening /\ backlog # {}
  /\ \E c \in backlog, f \in Free : backlog' = backlog \ {c} /\ UNCHANGED table
  /\ UNCHANGED <<batch, listening, taken, answers, unread, cut, net>>

\* accept_and_add_new accepts until accept4 fails: the backlog is empty, or the
\* process has no descriptor left.
AcceptOne ==
  /\ listening /\ backlog # {}
  /\ \E c \in backlog, f \in Free :
       /\ \A g \in Free : f <= g
       /\ table' = [table EXCEPT ![f] = c] /\ backlog' = backlog \ {c}
  /\ UNCHANGED <<batch, listening, taken, answers, unread, cut, net>>

AcceptEnds ==
  /\ listening /\ (backlog = {} \/ Free = {})
  /\ listening' = FALSE
  /\ UNCHANGED <<table, backlog, batch, taken, answers, unread, cut, net>>

Close(e) == table' = [table EXCEPT ![e.fd] = None]

\* send: the response, or what there is room for.
Respond(c) ==
  /\ answers' = [answers EXCEPT ![c] = @ + 1]
  /\ IF unread[c] < Room THEN unread' = [unread EXCEPT ![c] = @ + 1] /\ UNCHANGED cut
                         ELSE cut' = cut \cup {c} /\ UNCHANGED unread

\* Faulty variant: no look at errno.
ProcessAgain(e) ==
  LET c == table[e.fd]
  IN  IF c = None THEN UNCHANGED <<table, taken, answers, unread, cut>>
      ELSE IF gone[c] # "reset" /\ (sent[c] > taken[c] \/ gone[c] = "none")
      THEN taken' = [taken EXCEPT ![c] = sent[c]] /\ Respond(c) /\ UNCHANGED table
      ELSE Close(e) /\ UNCHANGED <<taken, answers, unread, cut>>

\* Faulty variant: the end of file is taken for nothing to read.
ProcessStays(e) ==
  LET c == table[e.fd]
  IN  IF c # None /\ gone[c] # "reset" /\ sent[c] > taken[c]
      THEN taken' = [taken EXCEPT ![c] = sent[c]] /\ Respond(c) /\ UNCHANGED table
      ELSE UNCHANGED <<table, taken, answers, unread, cut>>

\* process_new_data: recv takes all that has been sent.
Process(e) ==
  LET c == table[e.fd]
  IN  IF c = None THEN UNCHANGED <<table, taken, answers, unread, cut>>
      ELSE IF gone[c] # "reset" /\ sent[c] > taken[c]
      THEN taken' = [taken EXCEPT ![c] = sent[c]] /\ Respond(c) /\ UNCHANGED table
      ELSE IF gone[c] = "none" THEN UNCHANGED <<table, taken, answers, unread, cut>>
      ELSE Close(e) /\ UNCHANGED <<taken, answers, unread, cut>>

Handle ==
  /\ \E e \in batch :
       /\ batch' = batch \ {e}
       /\ IF e.failed THEN Close(e) /\ UNCHANGED <<taken, answers, unread, cut>> ELSE Process(e)
  /\ UNCHANGED <<backlog, listening, net>>

ServerStep == Wait \/ AcceptOne \/ AcceptEnds \/ Handle
ClientStep(c) == Connect(c) \/ Send(c) \/ Read(c) \/ Leave(c)
Next == ServerStep \/ \E c \in Conn : ClientStep(c)

\* The server runs; a connection that stays in the list of ready ones is
\* reported; clients read what they are sent.
Handled(c) == Handle /\ \E e \in batch : e.conn = c /\ e \notin batch'
Accepted(c) == AcceptOne /\ c \in backlog /\ c \notin backlog'
Spec ==
  /\ Init /\ [][Next]_vars /\ WF_vars(ServerStep)
  /\ \A c \in Conn : SF_vars(Handled(c)) /\ WF_vars(Read(c)) /\ SF_vars(Accepted(c))

-----------------------------------------------------------------------------
TypeOK ==
  /\ table \in [Fd -> Conn \cup {None}] /\ backlog \subseteq Conn
  /\ batch \subseteq [fd : Fd, failed : BOOLEAN, conn : Conn] /\ listening \in BOOLEAN
  /\ sent \in [Conn -> Nat] /\ taken \in [Conn -> Nat]
  /\ answers \in [Conn -> Nat] /\ unread \in [Conn -> Nat]
  /\ cut \subseteq Conn /\ gone \in [Conn -> {"none", "closed", "reset"}]

\* An event is handled on the connection it was reported for, although its
\* descriptor's number may be given away while the batch is handled.
OwnEvent == \A e \in batch : table[e.fd] = e.conn

\* The wakeups of a socket that has room to write send nothing: there are no more
\* responses than requests.
Answers == \A c \in Conn : answers[c] <= taken[c] /\ taken[c] <= sent[c]

\* Events meet their own connection, and requests no more than one response.
Matched == OwnEvent /\ Answers

\* Why: a descriptor is reported once in a batch, so that closing one leaves the
\* connection of every other event alone.
OnceReported == \A d, e \in batch : d.fd = e.fd => d = e

IInv == TypeOK /\ Matched /\ OnceReported

\* A client that waits for each response gets it whole, unless it leaves.
Asked(c, n) == sent[c] = n
Whole(c, n) == (answers[c] >= n /\ c \notin cut) \/ gone[c] # "none"
Answered == \A c \in Conn : \A n \in 1..Requests : Asked(c, n) ~> Whole(c, n)

\* What a client has left is closed.
Left(c) == gone[c] # "none"
Freed == \A c \in Conn : Left(c) ~> ~Open(c)
=============================================================================
