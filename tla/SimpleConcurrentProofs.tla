------------------------ MODULE SimpleConcurrentProofs ------------------------
(***************************************************************************)
(* The assertion with which fetch/simple-concurrent.js ends, for every     *)
(* number of clients and requests, with servers that state a               *)
(* Content-Length and a network that loses nothing.  Its counters agree    *)
(* with the calls that were made and with those that were answered, and an *)
(* unanswered call keeps a connection or its resolver in the loop.         *)
(***************************************************************************)
EXTENDS SimpleConcurrent, FetchProofs, FiniteSetTheorems

NoFaults == Faults = {} /\ IsFiniteSet(Calls)

made == {r \in Calls : call[r] # "idle"}

\* The counters are what they count.
Counted ==
  /\ requests = Cardinality(made)
  /\ responses = Cardinality(answered)

\* What has yet to be answered is in the loop: its resolver, or its connection.
Registered(r) ==
  /\ call[r] # "failed"
  /\ sock[r].fd = "unused" => sock[r].state = "INSECURE"
  /\ call[r] = "connecting" => sock[r].fd = "open" /\ sock[r].state = "INSECURE"
  /\ call[r] = "sent" => \E c \in Calls : serving[c] = r
  /\ peer[r]

IInv ==
  /\ ReaderInv
  /\ launched < Clients => ~halted
  /\ Counted
  /\ \A r \in Calls : Registered(r)

-----------------------------------------------------------------------------
(* What a step may do to the calls, the sockets and who carries whom.       *)

\* No call is made or answered.
SameCounts == made' = made /\ answered' = answered

LEMMA CountsKept ==
  ASSUME Counted, SameCounts, UNCHANGED driver
  PROVE  Counted'
BY DEF Counted, SameCounts, driver

LEMMA FiniteCalls ==
  ASSUME NoFaults
  PROVE  IsFiniteSet(made) /\ IsFiniteSet(answered)
BY FS_Subset DEF NoFaults, made, answered

\* A call is made: one request more.
LEMMA OneMade ==
  ASSUME NoFaults, Counted, NEW r \in Calls, r \notin made, made' = made \cup {r},
         requests' = requests + 1
  PROVE  requests' = Cardinality(made')
BY FiniteCalls, FS_AddElement DEF Counted

\* A call is answered: one response more.
LEMMA OneAnswered ==
  ASSUME NoFaults, Counted, NEW r \in Calls, r \notin answered,
         answered' = answered \cup {r}, responses' = responses + 1
  PROVE  responses' = Cardinality(answered')
BY FiniteCalls, FS_AddElement DEF Counted

LEMMA CallTypes ==
  ASSUME ReaderInv
  PROVE  /\ call \in [Calls -> {"idle", "lookup", "failed", "connecting", "sent", "answered"}]
         /\ sock \in [Calls -> Sock]
         /\ serving \in [Calls -> Calls \cup {None}]
         /\ peer \in [Calls -> BOOLEAN]
         /\ None \notin Calls
BY NoneAssumption DEF ReaderInv, TypeOK

-----------------------------------------------------------------------------
(* The steps of the client that run no code of the program.                 *)

LEMMA ConnectKeeps ==
  ASSUME IInv, NEW r \in Calls, Connect(r)
  PROVE  SameCounts /\ \A s \in Calls : Registered(s)'
<1>1. SameCounts
  BY CallTypes DEF IInv, Connect, SameCounts, made, answered
<1>2. sock[r].fd = "unused"
  BY DEF IInv, ReaderInv, ConnInv, ConnOK, Unopened, Connect
<1>3. ASSUME NEW s \in Calls PROVE Registered(s)'
  BY <1>2, CallTypes DEF IInv, Registered, Connect, network, history, Sock
<1>4. QED BY <1>1, <1>3

\* The request of call r is written to connection c, free until then.
LEMMA WriteKeeps ==
  ASSUME IInv, NEW c \in Calls, NEW r \in Calls, WriteRequest(c, r),
         call[r] \in {"lookup", "connecting"}, serving[c] = None, peer' = peer,
         sock' = sock \/ (sock' = [sock EXCEPT ![c].state = "SECURE"] /\ r = c
                            /\ sock[c].fd = "open")
  PROVE  SameCounts /\ \A s \in Calls : Registered(s)'
<1>1. /\ call' = [call EXCEPT ![r] = "sent"]
      /\ serving' = [serving EXCEPT ![c] = r]
  BY DEF WriteRequest
<1>2. SameCounts
  BY <1>1, CallTypes DEF IInv, SameCounts, made, answered
<1>3. ASSUME NEW s \in Calls PROVE Registered(s)'
  <2>1. call'[s] = "sent" => \E d \in Calls : serving'[d] = s
    <3>1. CASE s = r
      BY <1>1, <3>1, CallTypes DEF IInv
    <3>2. CASE s # r
      BY <1>1, <3>2, CallTypes DEF IInv, Registered
    <3>3. QED BY <3>1, <3>2
  <2>2. /\ call'[s] # "failed"
        /\ sock'[s].fd = "unused" => sock'[s].state = "INSECURE"
        /\ call'[s] = "connecting" => sock'[s].fd = "open" /\ sock'[s].state = "INSECURE"
        /\ peer'[s]
    BY <1>1, CallTypes DEF IInv, Registered, Sock
  <2>3. QED BY <2>1, <2>2 DEF Registered
<1>4. QED BY <1>2, <1>3

LEMMA ReuseKeeps ==
  ASSUME IInv, NEW r \in Calls, Reuse(r)
  PROVE  SameCounts /\ \A s \in Calls : Registered(s)'
<1> DEFINE c == sockets[key[r]]
<1>1. c \in Calls /\ serving[c] = None
  BY DEF IInv, ReaderInv, TypeOK, PoolSound, Reuse
<1>2. WriteRequest(c, r) /\ call[r] = "lookup" /\ peer' = peer /\ sock' = sock
  BY DEF Reuse
<1> HIDE DEF c
<1>3. QED BY <1>1, <1>2, WriteKeeps

LEMMA HandshakeKeeps ==
  ASSUME IInv, NEW c \in Calls, HandshakeStep(c)
  PROVE  SameCounts /\ \A s \in Calls : Registered(s)'
<1>1. PICK n \in 0..flights[c] : Handshake(c, n)
  BY DEF HandshakeStep
<1>2. sock[c].fd = "open" /\ sock[c].state = "INSECURE" /\ peer' = peer
  BY <1>1 DEF Handshake, Readable
<1>3. serving[c] = None /\ call[c] = "connecting"
  BY <1>2 DEF IInv, ReaderInv, ConnInv, ConnOK, Fresh
<1>4. CASE sock' = [sock EXCEPT ![c].state = "SECURE"] /\ WriteRequest(c, c)
  BY <1>2, <1>3, <1>4, WriteKeeps
<1>5. CASE UNCHANGED <<sock, call, pipe, serving>>
  BY <1>2, <1>5 DEF IInv, SameCounts, made, answered, Registered
<1>6. QED BY <1>1, <1>4, <1>5 DEF Handshake

LEMMA InternalKeeps ==
  ASSUME NoFaults, LengthOnly, IInv, Internal
  PROVE  SameCounts /\ \A s \in Calls : Registered(s)'
<1>1. PICK c \in Calls :
        \/ LookupError(c) \/ Lookup(c)
        \/ ConnectReady(c) \/ ConnectFail(c)
        \/ HandshakeStep(c) \/ HandshakeFail(c)
        \/ Read(c)
        \/ ErrorEvent(c) \/ ServerClose(c)
  BY DEF Internal
<1>2. ~LookupError(c) /\ ~ConnectFail(c) /\ ~ErrorEvent(c) /\ ~ServerClose(c)
  BY DEF NoFaults, LookupError, ConnectFail, ErrorEvent, ServerClose
<1>3. ~HandshakeFail(c)
  BY DEF NoFaults, HandshakeFail, IInv, Registered
<1>4. CASE Lookup(c)
  BY <1>4, ConnectKeeps, ReuseKeeps DEF Lookup
<1>5. CASE ConnectReady(c)
  <2>1. SameCounts
    BY <1>5 DEF ConnectReady, SameCounts, made, answered, network, history
  <2>2. ASSUME NEW s \in Calls PROVE Registered(s)'
    BY <1>5, CallTypes DEF IInv, Registered, ConnectReady, history, Sock
  <2>3. QED BY <2>1, <2>2
<1>6. CASE HandshakeStep(c)
  BY <1>6, HandshakeKeeps
<1>7. CASE Read(c)
  <2>1. PICK n \in Octets(c) : ReadMore(c, n) \/ ReadError(c, n)
    BY <1>7 DEF Read
  <2>2. CASE ReadMore(c, n)
    BY <2>2 DEF ReadMore, SameCounts, made, answered, IInv, Registered
  <2>3. CASE ReadError(c, n)
    <3>1. TypeOK /\ Aligned(c) /\ CanRead(c, n) /\ Store(c, n)
          /\ HandleBytes(c, n).outcome = "error"
      BY <2>3 DEF ReadError, IInv, ReaderInv, ConnInv, ConnOK
    <3>2. ~Head(pipe[c]).chunked
      BY <3>1, HandleBytesType DEF LengthOnly
    <3>3. QED BY <3>1, <3>2, HandleAligned
  <2>4. QED BY <2>1, <2>2, <2>3
<1>8. QED BY <1>1, <1>2, <1>3, <1>4, <1>5, <1>6, <1>7

-----------------------------------------------------------------------------
(* The callback of the program.                                             *)

\* A completed response is that of a call that was not answered before; its
\* connection carries nothing afterwards.
LEMMA CompletionKeeps ==
  ASSUME IInv, NEW c \in Calls, NEW n, Completed(c, n),
         serving' = [serving EXCEPT ![c] = None],
         sock' = sock \/ sock' = [sock EXCEPT ![c].fd = "closed"],
         \/ call' = Answered(c)
         \/ \E r \in Calls : call[r] = "idle" /\ call' = [Answered(c) EXCEPT ![r] = "lookup"]
  PROVE  /\ serving[c] \in Calls /\ call[serving[c]] = "sent"
         /\ Answered(c) = [call EXCEPT ![serving[c]] = "answered"]
         /\ \A s \in Calls : Registered(s)'
<1> DEFINE a == serving[c]
<1>1. /\ a \in Calls /\ a # None /\ call[a] = "sent"
      /\ Answered(c) = [call EXCEPT ![a] = "answered"]
  BY CompletedFacts DEF IInv, ReaderInv
<1>2. sock[c].state = "SECURE" /\ sock[c].fd = "open" /\ peer' = peer
  BY DEF Completed, CanRead, Readable
<1> HIDE DEF a
<1>3. ASSUME NEW s \in Calls PROVE Registered(s)'
  <2>1. call'[s] \in {"sent", "connecting", "failed"} => s # a /\ call'[s] = call[s]
    BY <1>1, CallTypes DEF IInv
  <2>2. call'[s] # "failed"
    BY <2>1 DEF IInv, Registered
  <2>3. call'[s] = "sent" => \E d \in Calls : serving'[d] = s
    <3> SUFFICES ASSUME call'[s] = "sent" PROVE \E d \in Calls : serving'[d] = s
      OBVIOUS
    <3>1. PICK d \in Calls : serving[d] = s
      BY <2>1 DEF IInv, Registered
    <3>2. d # c
      BY <2>1, <3>1 DEF a
    <3>3. QED BY <3>1, <3>2, CallTypes DEF IInv
  <2>4. s # c => sock'[s] = sock[s]
    BY CallTypes DEF IInv
  <2>5. call'[s] = "connecting" => s # c
    BY <1>2, <2>1 DEF IInv, Registered
  <2>6. sock'[c].fd # "unused"
    BY <1>2, CallTypes DEF IInv, Sock
  <2>7. QED BY <1>2, <2>1, <2>2, <2>3, <2>4, <2>5, <2>6 DEF IInv, Registered
<1>4. QED BY <1>1, <1>3 DEF a

LEMMA CallbackKeeps ==
  ASSUME NoFaults, IInv, NEW c \in Calls, Callback(c)
  PROVE  Counted' /\ \A s \in Calls : Registered(s)'
<1> DEFINE a == serving[c]
<1>1. PICK n \in Octets(c) : OnComplete(c, n)
  BY DEF Callback
<1>2. responses' = responses + 1
  BY <1>1 DEF OnComplete
<1>3. CASE CompleteClose(c, n) /\ requests' = requests
  <2>1. /\ Completed(c, n) /\ call' = Answered(c)
        /\ serving' = [serving EXCEPT ![c] = None]
        /\ sock' = [sock EXCEPT ![c].fd = "closed"]
    BY <1>3 DEF CompleteClose, CloseSocket
  <2>2. /\ a \in Calls /\ call[a] = "sent" /\ call' = [call EXCEPT ![a] = "answered"]
        /\ \A s \in Calls : Registered(s)'
    BY <2>1, CompletionKeeps
  <2> HIDE DEF a
  <2>3. made' = made /\ a \notin answered /\ answered' = answered \cup {a}
    BY <2>2, CallTypes DEF IInv, made, answered
  <2>4. responses' = Cardinality(answered')
    BY <1>2, <2>2, <2>3, OneAnswered DEF IInv
  <2>5. QED BY <1>3, <2>2, <2>3, <2>4 DEF IInv, Counted
<1>4. ASSUME NEW r \in Calls, CompleteAgain(c, n, r), requests' = requests + 1
      PROVE  Counted' /\ \A s \in Calls : Registered(s)'
  <2>1. /\ Completed(c, n) /\ call[r] = "idle"
        /\ call' = [Answered(c) EXCEPT ![r] = "lookup"]
        /\ serving' = [serving EXCEPT ![c] = None] /\ sock' = sock
    BY <1>4 DEF CompleteAgain, Pooled
  <2>2. /\ a \in Calls /\ call[a] = "sent"
        /\ call' = [call EXCEPT ![a] = "answered", ![r] = "lookup"]
        /\ \A s \in Calls : Registered(s)'
    BY <2>1, CompletionKeeps
  <2> HIDE DEF a
  <2>3. /\ a \notin answered /\ answered' = answered \cup {a}
        /\ r \notin made /\ made' = made \cup {r}
    BY <2>1, <2>2, CallTypes DEF IInv, made, answered
  <2>4. responses' = Cardinality(answered') /\ requests' = Cardinality(made')
    BY <1>2, <1>4, <2>2, <2>3, OneAnswered, OneMade DEF IInv
  <2>5. QED BY <2>2, <2>4 DEF Counted
<1>5. QED BY <1>1, <1>3, <1>4 DEF OnComplete

-----------------------------------------------------------------------------
LEMMA DriverInitInv ==
  ASSUME NoFaults
  PROVE  DriverInit => IInv
<1> SUFFICES ASSUME DriverInit PROVE IInv
  OBVIOUS
<1>1. ReaderInv
  BY ReaderInit DEF DriverInit
<1>2. made = {} /\ answered = {}
  BY DEF DriverInit, Init, made, answered
<1>3. Counted
  BY <1>2, FS_EmptySet DEF Counted, DriverInit
<1>4. \A r \in Calls : Registered(r)
  BY DEF DriverInit, Init, Registered
<1>5. ~halted
  BY DEF DriverInit, Init
<1>6. QED BY <1>1, <1>3, <1>4, <1>5 DEF IInv

\* Every step of the program is one of the client, or leaves the client alone.
LEMMA DriverSteps ==
  ASSUME IInv, [DriverNext]_<<vars, driver>>
  PROVE  [Next]_vars /\ (launched' < Clients => ~halted')
<1>1. ASSUME NEW r \in Calls, Launch(r)
      PROVE  Next /\ halted' = halted /\ launched < Clients
  BY <1>1 DEF Launch, HttpGet, Next, IInv
<1>2. ASSUME RunLoop, Internal, UNCHANGED driver
      PROVE  Next /\ launched' = launched
  BY <1>2 DEF RunLoop, Next, driver
<1>3. ASSUME RunLoop, NEW c \in Calls, Callback(c)
      PROVE  Next /\ launched' = launched
  <2>1. PICK n \in Octets(c) : OnComplete(c, n)
    BY <1>3 DEF Callback
  <2>2. CompleteClose(c, n) \/ \E r \in Calls : CompleteAgain(c, n, r)
    BY <2>1 DEF OnComplete
  <2>3. Complete(c)
    BY <2>2 DEF Complete
  <2>4. QED BY <1>3, <2>1, <2>3 DEF RunLoop, Next, OnComplete
<1>4. CASE UNCHANGED <<vars, driver>>
  BY <1>4 DEF vars, driver, IInv
<1>5. Clients \in Nat
  BY ClientsAssumption
<1>6. QED BY <1>1, <1>2, <1>3, <1>4, <1>5 DEF DriverNext, RunLoop, driver, IInv

LEMMA DriverNextInv ==
  ASSUME NoFaults, LengthOnly, IInv, [DriverNext]_<<vars, driver>>
  PROVE  IInv'
<1>1. [Next]_vars /\ (launched' < Clients => ~halted')
  BY DriverSteps
<1>2. ReaderInv'
  BY <1>1, ReaderNext DEF IInv, Orderly
<1>3. ASSUME NEW r \in Calls, Launch(r)
      PROVE  Counted' /\ \A s \in Calls : Registered(s)'
  <2>1. /\ HttpGet(r) /\ requests' = requests + 1 /\ responses' = responses
    BY <1>3 DEF Launch
  <2>2. r \notin made /\ made' = made \cup {r} /\ answered' = answered
    BY <2>1, CallTypes DEF IInv, HttpGet, made, answered
  <2>3. Counted'
    BY <2>1, <2>2, OneMade DEF IInv, Counted
  <2>4. ASSUME NEW s \in Calls PROVE Registered(s)'
    BY <2>1, CallTypes DEF IInv, HttpGet, Registered, network, history
  <2>5. QED BY <2>3, <2>4
<1>4. ASSUME Internal, UNCHANGED driver
      PROVE  Counted' /\ \A s \in Calls : Registered(s)'
  BY <1>4, InternalKeeps, CountsKept DEF IInv
<1>5. ASSUME NEW c \in Calls, Callback(c)
      PROVE  Counted' /\ \A s \in Calls : Registered(s)'
  BY <1>5, CallbackKeeps
<1>6. ASSUME UNCHANGED <<vars, driver>>
      PROVE  Counted' /\ \A s \in Calls : Registered(s)'
  BY <1>6 DEF IInv, Counted, Registered, made, answered, vars, driver
<1>7. Counted' /\ \A s \in Calls : Registered(s)'
  BY <1>3, <1>4, <1>5, <1>6 DEF DriverNext
<1>8. QED BY <1>1, <1>2, <1>7 DEF IInv

\* The assertion of simple-concurrent.js:52: whenever run_loop finds the loop
\* empty, as many responses have completed as requests were made, for every
\* number of clients and requests, with every response that states its length.
THEOREM Answers ==
  ASSUME NoFaults, LengthOnly
  PROVE  DriverSpec => []AllAnswered
<1>1. DriverInit => IInv
  BY DriverInitInv
<1>2. IInv /\ [DriverNext]_<<vars, driver>> => IInv'
  BY DriverNextInv
<1>3. IInv => AllAnswered
  <2> SUFFICES ASSUME IInv, LoopEmpty PROVE responses = requests
    BY DEF AllAnswered
  <2>1. ASSUME NEW r \in Calls PROVE call[r] \in {"idle", "answered"}
    <3>1. call[r] \notin {"lookup", "failed", "connecting"}
      BY DEF IInv, LoopEmpty, Registered
    <3>2. call[r] # "sent"
      <4> SUFFICES ASSUME call[r] = "sent" PROVE FALSE
        OBVIOUS
      <4>1. PICK c \in Calls : serving[c] = r
        BY DEF IInv, Registered
      <4>2. sock[c].fd = "open"
        BY <4>1, NoneAssumption DEF IInv, ReaderInv, ConnInv, ConnOK, Carried
      <4>3. QED BY <4>2 DEF LoopEmpty
    <3>3. QED BY <3>1, <3>2, CallTypes DEF IInv
  <2>2. made = answered
    BY <2>1 DEF made, answered
  <2>3. QED BY <2>2 DEF IInv, Counted
<1>4. QED BY <1>1, <1>2, <1>3, PTL DEF DriverSpec
=============================================================================
