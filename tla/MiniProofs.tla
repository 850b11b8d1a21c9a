----------------------------- MODULE MiniProofs -----------------------------
(***************************************************************************)
(* A get() of fetch/mini.js awaits the body of its own response.  One poll *)
(* calls a descriptor back once, so that it parses one head of it at most, *)
(* and microtasks run before the next poll: a get() looks at res.bytes     *)
(* before a second head on its connection can replace the promise.  The    *)
(* descriptors this poll has called back for, `seen`, are what carries the *)
(* argument from one callback to the next.                                 *)
(***************************************************************************)
EXTENDS MCMini, TLAPS

CallStates == {"idle", "lookup", "connecting", "sent", "answered", "failed"}
GetStates == {"none", "fetch", "bytes", "done", "failed"}

Typed ==
  /\ sock \in [Calls -> Sock]
  /\ call \in [Calls -> CallStates]
  /\ serving \in [Calls -> Calls \cup {None}]
  /\ get \in [Calls -> GetStates]
  /\ heads \in [Calls -> Nat]
  /\ awaited \in [Calls -> Nat]

\* A call not yet made has no get(), no connection and no head.
Fresh ==
  \A r \in Calls :
    call[r] = "idle" => get[r] = "none" /\ sock[r].fd = "unused" /\ heads[r] = 0

\* main() runs before anything is read.
Before == turn = "main" => \A r \in Calls : heads[r] = 0

\* A get() that has not seen its response has one head parsed at most, and
\* one only if this poll has called its descriptor back.
OneHead ==
  \A r \in Calls : get[r] = "fetch" =>
    /\ heads[r] <= 1
    /\ turn = "poll" /\ <<"socket", r>> \notin seen => heads[r] = 0

IInv == Typed /\ Fresh /\ Before /\ OneHead /\ OwnBody

-----------------------------------------------------------------------------
(* What a step of Fetch may do to the calls and the connections.           *)

Typing ==
  /\ sock \in [Calls -> Sock]
  /\ call \in [Calls -> CallStates]
  /\ serving \in [Calls -> Calls \cup {None}]

Opens(r) == sock[r].fd = "unused" /\ sock'[r].fd # "unused"

Moves ==
  /\ Typing'
  /\ \A r \in Calls : call'[r] = "idle" => call[r] = "idle" /\ ~Opens(r)

\* A connection is closed only if it has been opened.
LEMMA Closed ==
  ASSUME Typing, NEW c \in Calls, CloseSocket(c)
  PROVE  /\ sock' \in [Calls -> Sock] /\ serving' \in [Calls -> Calls \cup {None}]
         /\ \A r \in Calls : r # c => ~Opens(r)
         /\ sock[c].fd # "unused" => ~Opens(c)
BY DEF Typing, CloseSocket, Sock, Opens

LEMMA Written ==
  ASSUME Typing, NEW c \in Calls, NEW r \in Calls, WriteRequest(c, r)
  PROVE  /\ call' \in [Calls -> CallStates]
         /\ serving' \in [Calls -> Calls \cup {None}]
         /\ \A s \in Calls : call'[s] = "idle" => call[s] = "idle"
BY DEF Typing, WriteRequest, CallStates

LEMMA LookupMoves ==
  ASSUME Typing, NEW r \in Calls, Lookup(r) \/ LookupError(r)
  PROVE  Moves
<1>1. CASE Connect(r)
  BY <1>1 DEF Typing, Moves, Opens, Connect, CallStates, Sock, history
<1>2. CASE Reuse(r)
  <2> DEFINE c == sockets[key[r]]
  <2>1. WriteRequest(c, r) /\ sock' = sock
    BY <1>2 DEF Reuse
  <2>2. /\ call' \in [Calls -> CallStates]
        /\ serving' \in [Calls -> Calls \cup {None}]
        /\ \A s \in Calls : call'[s] = "idle" => call[s] = "idle"
    BY <2>1 DEF Typing, WriteRequest, CallStates
  <2>3. QED BY <2>1, <2>2 DEF Typing, Moves, Opens
<1>3. CASE LookupError(r)
  BY <1>3 DEF Typing, Moves, Opens, LookupError, CallStates, history
<1>4. QED BY <1>1, <1>2, <1>3 DEF Lookup

LEMMA HandshakeMoves ==
  ASSUME Typing, NEW c \in Calls,
         ConnectReady(c) \/ ConnectFail(c) \/ HandshakeStep(c) \/ HandshakeFail(c) \/ ErrorEvent(c)
  PROVE  Moves
<1>1. CASE ConnectReady(c)
  BY <1>1 DEF Typing, Moves, Opens, ConnectReady, Writable, Sock, history
<1>2. CASE HandshakeStep(c)
  <2>1. PICK n \in 0..flights[c] : Handshake(c, n)
    BY <1>2 DEF HandshakeStep
  <2>2. sock[c].fd = "open"
    BY <2>1 DEF Handshake, Readable
  <2>3. CASE WriteRequest(c, c) /\ sock' = [sock EXCEPT ![c].state = "SECURE"]
    <3>1. sock' \in [Calls -> Sock] /\ \A r \in Calls : ~Opens(r)
      BY <2>2, <2>3 DEF Typing, Sock, Opens
    <3>2. QED BY <2>3, <3>1, Written DEF Typing, Moves
  <2>4. CASE UNCHANGED <<sock, call, pipe, serving>>
    BY <2>4 DEF Typing, Moves, Opens
  <2>5. QED BY <2>1, <2>3, <2>4 DEF Handshake
<1>3. CASE ConnectFail(c) \/ HandshakeFail(c) \/ ErrorEvent(c)
  <2>1. CloseSocket(c) /\ sock[c].fd = "open" /\ call' = call
    BY <1>3 DEF ConnectFail, HandshakeFail, ErrorEvent, Writable, Readable
  <2>2. QED BY <2>1, Closed DEF Typing, Moves
<1>4. QED BY <1>1, <1>2, <1>3

LEMMA ReadMoves ==
  ASSUME Typing, NEW c \in Calls, Read(c) \/ \E n \in Octets(c) : CompleteKeep(c, n)
  PROVE  Moves /\ sock[c].fd = "open"
<1>1. PICK n \in Octets(c) : ReadMore(c, n) \/ ReadError(c, n) \/ CompleteKeep(c, n)
  BY DEF Read
<1>2. sock[c].fd = "open"
  BY <1>1 DEF ReadMore, ReadError, CompleteKeep, Pooled, Completed, CanRead, Readable
<1>3. CASE ReadMore(c, n)
  BY <1>2, <1>3 DEF Typing, Moves, Opens, ReadMore
<1>4. CASE ReadError(c, n)
  <2>1. CloseSocket(c) /\ call' = call
    BY <1>4 DEF ReadError
  <2>2. QED BY <1>2, <2>1, Closed DEF Typing, Moves
<1>5. CASE CompleteKeep(c, n)
  <2>1. /\ sock' = sock /\ call' = Answered(c)
        /\ serving' = [serving EXCEPT ![c] = None]
    BY <1>5 DEF CompleteKeep, Pooled
  <2>2. /\ Answered(c) \in [Calls -> CallStates]
        /\ \A r \in Calls : Answered(c)[r] = "idle" => call[r] = "idle"
    BY DEF Typing, Answered, CallStates
  <2>3. QED BY <1>2, <2>1, <2>2 DEF Typing, Moves, Opens
<1>6. QED BY <1>1, <1>2, <1>3, <1>4, <1>5

LEMMA CloseMoves ==
  ASSUME Typing, NEW c \in Calls, ServerClose(c)
  PROVE  Moves
BY DEF Typing, Moves, Opens, ServerClose, client, history

-----------------------------------------------------------------------------
(* The invariant is inductive.                                             *)

LEMMA HeadsOf ==
  ASSUME heads \in [Calls -> Nat], NEW c \in Calls, HeadParsed(c)
  PROVE  /\ heads' \in [Calls -> Nat]
         /\ \A r \in Calls : r # c => heads'[r] = heads[r]
         /\ heads'[c] <= heads[c] + 1
BY DEF HeadParsed

\* A callback on descriptor c that may parse a head of it.
LEMMA CallbackKeeps ==
  ASSUME IInv, Moves, NEW c \in Calls, Once(<<"socket", c>>),
         turn' = turn, get' = get, awaited' = awaited,
         heads' = heads \/ (HeadParsed(c) /\ sock[c].fd = "open")
  PROVE  IInv'
<1>1. /\ heads' \in [Calls -> Nat]
      /\ \A r \in Calls : r # c => heads'[r] = heads[r]
      /\ heads'[c] <= heads[c] + 1
      /\ sock[c].fd = "unused" => heads'[c] = heads[c]
  BY HeadsOf DEF IInv, Typed
<1>2. /\ turn = "poll" /\ seen' = seen \cup {<<"socket", c>>}
      /\ <<"socket", c>> \notin seen
  BY DEF Once
<1>3. Typed'
  BY <1>1 DEF IInv, Typed, Moves, Typing
<1>4. Fresh'
  BY <1>1 DEF IInv, Fresh, Moves, Opens
<1>5. Before'
  BY <1>2 DEF Before
<1>6. OneHead'
  <2> SUFFICES ASSUME NEW r \in Calls, get[r] = "fetch"
               PROVE  /\ heads'[r] <= 1
                      /\ <<"socket", r>> \notin seen' => heads'[r] = 0
    BY DEF OneHead
  <2>1. heads[r] \in Nat /\ heads'[r] \in Nat
    BY <1>1 DEF IInv, Typed
  <2>2. CASE r = c
    <3>1. heads[c] = 0
      BY <1>2, <2>2 DEF IInv, OneHead
    <3>2. QED BY <1>1, <1>2, <2>1, <2>2, <3>1
  <2>3. CASE r # c
    BY <1>1, <1>2, <2>3 DEF IInv, OneHead
  <2>4. QED BY <2>2, <2>3
<1>7. OwnBody'
  BY DEF IInv, OwnBody
<1>8. QED BY <1>3, <1>4, <1>5, <1>6, <1>7 DEF IInv

\* A step that neither parses a head nor ends a poll.
LEMMA OthersKeep ==
  ASSUME IInv, Moves, turn' = turn, get' = get, heads' = heads, awaited' = awaited,
         seen \subseteq seen'
  PROVE  IInv'
<1>1. Typed'
  BY DEF IInv, Typed, Moves, Typing
<1>2. Fresh'
  BY DEF IInv, Fresh, Moves, Opens
<1>3. Before' /\ OneHead' /\ OwnBody'
  BY DEF IInv, Before, OneHead, OwnBody
<1>4. QED BY <1>1, <1>2, <1>3 DEF IInv

LEMMA PollKeeps ==
  ASSUME IInv, Poll
  PROVE  IInv'
<1> USE DEF IInv, Typed, Typing
<1>1. CASE EndPoll
  <2>1. /\ turn' = "tasks"
        /\ UNCHANGED <<sock, call, serving, get, heads, awaited>>
    BY <1>1 DEF EndPoll, vars
  <2>2. Typed' /\ Fresh'
    BY <2>1 DEF Fresh
  <2>3. Before' /\ OneHead' /\ OwnBody'
    BY <2>1 DEF Before, OneHead, OwnBody
  <2>4. QED BY <2>2, <2>3
<1>2. ASSUME NEW c \in Calls, OnLookup(c)
      PROVE  IInv'
  <2>1. Typing
    BY DEF Typing
  <2>2. Moves
    BY <1>2, <2>1, LookupMoves DEF OnLookup
  <2>3. /\ turn' = turn /\ get' = get /\ heads' = heads /\ awaited' = awaited
        /\ seen \subseteq seen'
    BY <1>2 DEF OnLookup, Once
  <2>4. QED BY <2>2, <2>3, OthersKeep
<1>3. ASSUME NEW c \in Calls, OnHandshake(c)
      PROVE  IInv'
  <2>1. Moves
    BY <1>3, HandshakeMoves DEF OnHandshake
  <2>2. QED BY <1>3, <2>1, CallbackKeeps DEF OnHandshake
<1>4. ASSUME NEW c \in Calls, OnRead(c) \/ OnComplete(c)
      PROVE  IInv'
  <2>1. Moves /\ sock[c].fd = "open"
    <3>1. Read(c) \/ \E n \in Octets(c) : CompleteKeep(c, n)
      BY <1>4 DEF OnRead, OnComplete
    <3>2. QED BY <3>1, ReadMoves
  <2>2. /\ Once(<<"socket", c>>) /\ HeadParsed(c)
        /\ turn' = turn /\ get' = get /\ awaited' = awaited
    BY <1>4 DEF OnRead, OnComplete
  <2>3. QED BY <2>1, <2>2, CallbackKeeps
<1>5. QED BY <1>1, <1>2, <1>3, <1>4 DEF Poll

LEMMA MicrotaskKeeps ==
  ASSUME IInv, Microtask
  PROVE  IInv'
<1>1. PICK r \in Calls : AfterFetch(r) \/ Reject(r) \/ AfterBytes(r)
  BY DEF Microtask
<1>2. turn = "tasks" /\ turn' = "tasks" /\ seen' = seen /\ heads' = heads
  BY <1>1 DEF Microtask, AfterFetch, Reject, AfterBytes
<1>3. Before'
  BY <1>2 DEF Before
<1>4. CASE AfterFetch(r) \/ Reject(r)
  <2>1. /\ UNCHANGED <<sock, call, serving>> /\ get[r] = "fetch"
        /\ get' = [get EXCEPT ![r] = "bytes"] \/ get' = [get EXCEPT ![r] = "failed"]
        /\ awaited' = awaited \/ awaited' = [awaited EXCEPT ![r] = heads[r]]
    BY <1>4 DEF AfterFetch, Reject, AwaitBytes, Fetched, Rejected, vars
  <2>2. Typed'
    BY <1>2, <2>1 DEF IInv, Typed, GetStates
  <2>3. Fresh'
    BY <1>2, <2>1 DEF IInv, Typed, Fresh
  <2>4. OneHead'
    BY <1>2, <2>1 DEF IInv, Typed, OneHead
  <2>5. OwnBody'
    BY <2>1 DEF IInv, Typed, OneHead, OwnBody
  <2>6. QED BY <1>3, <2>2, <2>3, <2>4, <2>5 DEF IInv
<1>5. CASE AfterBytes(r)
  <2> DEFINE idle == {s \in Calls : call[s] = "idle"}
  <2>1. /\ CloseSocket(r) /\ awaited' = awaited
        /\ get[r] = "bytes"
    BY <1>5 DEF AfterBytes, Resolved
  <2>2. /\ sock' \in [Calls -> Sock] /\ serving' \in [Calls -> Calls \cup {None}]
        /\ \A s \in Calls : s # r => ~Opens(s)
    BY <2>1, Closed DEF IInv, Typed, Typing
  <2>3. \/ get' = [get EXCEPT ![r] = "done"] /\ call' = call /\ idle = {}
        \/ \E s \in idle : /\ get' = [get EXCEPT ![r] = "done", ![s] = "fetch"]
                           /\ call' = [call EXCEPT ![s] = "lookup"]
    BY <1>5 DEF AfterBytes
  <2>4. Typed'
    BY <1>2, <2>1, <2>2, <2>3 DEF IInv, Typed, GetStates, CallStates
  <2>5. Fresh'
    <3>1. /\ call[r] # "idle"
          /\ \A s \in Calls : call'[s] = "idle" =>
               call[s] = "idle" /\ get'[s] = get[s] /\ s # r
      BY <2>1, <2>3 DEF IInv, Typed, Fresh
    <3>2. SUFFICES ASSUME NEW s \in Calls, call'[s] = "idle"
                   PROVE  get'[s] = "none" /\ sock'[s].fd = "unused" /\ heads'[s] = 0
      BY DEF Fresh
    <3>3. get[s] = "none" /\ sock[s].fd = "unused" /\ heads[s] = 0
      BY <3>1, <3>2 DEF IInv, Fresh
    <3>4. ~Opens(s)
      BY <2>2, <3>1, <3>2
    <3>5. QED BY <1>2, <3>1, <3>2, <3>3, <3>4 DEF Opens
  <2>6. OneHead'
    BY <1>2, <2>3 DEF IInv, Typed, Fresh, OneHead
  <2>7. OwnBody'
    BY <2>1 DEF IInv, OwnBody
  <2>8. QED BY <1>3, <2>4, <2>5, <2>6, <2>7 DEF IInv
<1>6. QED BY <1>1, <1>4, <1>5

LEMMA Started == MiniInit => IInv
<1> SUFFICES ASSUME MiniInit
             PROVE  IInv
  OBVIOUS
<1>1. Typed
  BY DEF Typed, MiniInit, Init, Sock, CallStates, GetStates
<1>2. Fresh /\ Before /\ OneHead /\ OwnBody
  BY DEF Fresh, Before, OneHead, OwnBody, MiniInit, Init
<1>3. QED BY <1>1, <1>2 DEF IInv

LEMMA Preserved == IInv /\ [MiniNext]_all => IInv'
<1> SUFFICES ASSUME IInv, [MiniNext]_all
             PROVE  IInv'
  OBVIOUS
<1>1. CASE Main
  <2>1. /\ UNCHANGED <<sock, serving, seen, heads, awaited>>
        /\ turn = "main" /\ turn' = "poll"
        /\ get' = [r \in Calls |-> IF r \in Jobs THEN "fetch" ELSE "none"]
        /\ call' = [r \in Calls |-> IF r \in Jobs THEN "lookup" ELSE call[r]]
    BY <1>1 DEF Main, history
  <2>2. Typed'
    BY <2>1 DEF IInv, Typed, CallStates, GetStates
  <2>3. Fresh' /\ Before'
    BY <2>1 DEF IInv, Fresh, Before
  <2>4. OneHead' /\ OwnBody'
    BY <2>1 DEF IInv, Before, OneHead, OwnBody
  <2>5. QED BY <2>2, <2>3, <2>4 DEF IInv
<1>2. CASE Poll
  BY <1>2, PollKeeps
<1>3. CASE Microtask
  BY <1>3, MicrotaskKeeps
<1>4. CASE NextPoll
  <2>1. /\ turn' = "poll"
        /\ UNCHANGED <<sock, call, serving, get, heads, awaited>>
        /\ \A r \in Calls : ~(get[r] = "fetch" /\ heads[r] > 0)
    BY <1>4 DEF NextPoll, Fetched, vars
  <2>2. Typed' /\ Fresh' /\ Before' /\ OwnBody'
    BY <2>1 DEF IInv, Typed, Fresh, Before, OwnBody
  <2>3. OneHead'
    BY <2>1 DEF IInv, Typed, OneHead
  <2>4. QED BY <2>2, <2>3 DEF IInv
<1>5. ASSUME NEW c \in Calls, ServerClose(c), UNCHANGED program
      PROVE  IInv'
  <2>1. Moves
    BY <1>5, CloseMoves DEF IInv, Typed, Typing
  <2>2. QED BY <1>5, <2>1, OthersKeep DEF program
<1>6. CASE UNCHANGED all
  BY <1>6 DEF IInv, Typed, Fresh, Before, OneHead, OwnBody, all, vars, program
<1>7. QED BY <1>1, <1>2, <1>3, <1>4, <1>5, <1>6 DEF MiniNext

\* Every get() of fetch/mini.js takes from res.bytes() the promise of the first
\* head parsed on the connection it opened, its own response: whatever is
\* batched into one poll, and although every head parsed later on a connection
\* that is used again replaces res.bytes (fetch.js 284-312).
THEOREM OwnBodies == MiniSpec => []OwnBody
<1>1. MiniInit => IInv
  BY Started
<1>2. IInv /\ [MiniNext]_all => IInv'
  BY Preserved
<1>3. IInv => OwnBody
  BY DEF IInv
<1>4. QED BY <1>1, <1>2, <1>3, PTL DEF MiniSpec
=============================================================================
