-------------------------------- MODULE Mini --------------------------------
(***************************************************************************)
(* fetch/mini.js over fetch() of fetch/lib/fetch.js: chains of get(), each *)
(* of which awaits a response, then its body, closes the connection and    *)
(* starts the next get().  What is awaited goes on as a microtask, and     *)
(* microtasks run between two polls of the loop: a poll calls back for a   *)
(* whole batch of descriptors, each at most once.                          *)
(*                                                                         *)
(* fetch() gives http_get a callback that makes, for each head parsed on   *)
(* the connection the call opened, a new buffer and a new deferred promise *)
(* for res.bytes().  The promises of a connection are numbered from 1.     *)
(***************************************************************************)
EXTENDS Fetch

CONSTANT Jobs    \* the calls main() starts with

ASSUME JobsAssumption == Jobs \subseteq Calls

VARIABLES
  turn,      \* "main", or whether a poll is calling back or microtasks run
  seen,      \* the resolvers and descriptors this poll has called back for
  get,       \* how far the get() of each call has come
  heads,     \* heads parsed on each connection: deferred promises made
  bodies,    \* lengths of the bodies those promises were resolved with
  awaited    \* the promise that each get() got from res.bytes()

program == <<turn, seen, get, heads, bodies, awaited>>
all == <<vars, program>>

MiniInit ==
  /\ Init
  /\ turn = "main" /\ seen = {}
  /\ get = [r \in Calls |-> "none"]
  /\ heads = [c \in Calls |-> 0]
  /\ bodies = [c \in Calls |-> << >>]
  /\ awaited = [r \in Calls |-> 0]

\* main() starts all jobs before the loop is first polled.
Main ==
  /\ turn = "main" /\ turn' = "poll"
  /\ get' = [r \in Calls |-> IF r \in Jobs THEN "fetch" ELSE "none"]
  /\ call' = [r \in Calls |-> IF r \in Jobs THEN "lookup" ELSE call[r]]
  /\ UNCHANGED <<sockets, sock, response, key, closing, halted, network, history>>
  /\ UNCHANGED <<seen, heads, bodies, awaited>>

-----------------------------------------------------------------------------
(* A poll.                                                                 *)

Once(event) == turn = "poll" /\ event \notin seen /\ seen' = seen \cup {event}

OnLookup(r) ==
  /\ Once(<<"resolver", r>>)
  /\ Lookup(r) \/ LookupError(r)
  /\ UNCHANGED <<turn, get, heads, bodies, awaited>>

\* The callback that fetch() gave to http_get runs when a head is parsed.
HeadParsed(c) ==
  heads' = [heads EXCEPT ![c] = IF ~response[c].headers_done /\ response'[c].headers_done
                                THEN @ + 1 ELSE @]

OnHandshake(c) ==
  /\ Once(<<"socket", c>>)
  /\ ConnectReady(c) \/ ConnectFail(c) \/ HandshakeStep(c) \/ HandshakeFail(c) \/ ErrorEvent(c)
  /\ UNCHANGED <<turn, get, heads, bodies, awaited>>

OnRead(c) ==
  /\ Once(<<"socket", c>>)
  /\ Read(c)
  /\ HeadParsed(c)
  /\ UNCHANGED <<turn, get, bodies, awaited>>

\* on_complete resolves the promise with what on_bytes has put together.
OnComplete(c) ==
  /\ Once(<<"socket", c>>)
  /\ \E n \in Octets(c) : CompleteKeep(c, n)
  /\ HeadParsed(c)
  /\ bodies' = [bodies EXCEPT ![c] = Append(@, received'[c])]
  /\ UNCHANGED <<turn, get, awaited>>

EndPoll ==
  /\ turn = "poll" /\ turn' = "tasks"
  /\ UNCHANGED <<vars, seen, get, heads, bodies, awaited>>

Poll == EndPoll \/ \E c \in Calls : OnLookup(c) \/ OnHandshake(c) \/ OnRead(c) \/ OnComplete(c)

-----------------------------------------------------------------------------
(* The microtasks.                                                         *)

\* The promise of fetch() was resolved with the response of the call's own
\* connection when the first head was parsed there, or rejected.
Fetched(r) == get[r] = "fetch" /\ heads[r] > 0
Rejected(r) == get[r] = "fetch" /\ call[r] = "failed"
Resolved(r) == get[r] = "bytes" /\ Len(bodies[r]) >= awaited[r]

\* Faulty variant: res.bytes() makes a promise for the next completion.
AwaitNext(r) == awaited' = [awaited EXCEPT ![r] = Len(bodies[r]) + 1]

\* res.bytes() returns the promise made for the head parsed last.
AwaitBytes(r) == awaited' = [awaited EXCEPT ![r] = heads[r]]

AfterFetch(r) ==
  /\ Fetched(r)
  /\ get' = [get EXCEPT ![r] = "bytes"]
  /\ AwaitBytes(r)
  /\ UNCHANGED <<vars, turn, seen, heads, bodies>>

Reject(r) ==
  /\ Rejected(r)
  /\ get' = [get EXCEPT ![r] = "failed"]
  /\ UNCHANGED <<vars, turn, seen, heads, bodies, awaited>>

\* res.close(), and the next get() of the chain, as long as there are calls.
AfterBytes(r) ==
  /\ Resolved(r)
  /\ CloseSocket(r)
  /\ LET idle == {s \in Calls : call[s] = "idle"} IN
       IF idle = {}
       THEN get' = [get EXCEPT ![r] = "done"] /\ UNCHANGED call
       ELSE \E s \in idle : /\ get' = [get EXCEPT ![r] = "done", ![s] = "fetch"]
                            /\ call' = [call EXCEPT ![s] = "lookup"]
  /\ UNCHANGED <<response, key, closing, halted, peer, received, callbacks>>
  /\ UNCHANGED <<turn, seen, heads, bodies, awaited>>

Microtask == turn = "tasks" /\ \E r \in Calls : AfterFetch(r) \/ Reject(r) \/ AfterBytes(r)

\* Faulty variant: the loop is polled again with microtasks left.
NextPollAtOnce ==
  /\ turn = "tasks" /\ turn' = "poll" /\ seen' = {}
  /\ UNCHANGED <<vars, get, heads, bodies, awaited>>

NextPoll ==
  /\ turn = "tasks" /\ turn' = "poll" /\ seen' = {}
  /\ \A r \in Calls : ~Fetched(r) /\ ~Rejected(r) /\ ~Resolved(r)
  /\ UNCHANGED <<vars, get, heads, bodies, awaited>>

-----------------------------------------------------------------------------
MiniNext ==
  /\ ~halted
  /\ \/ Main \/ Poll \/ Microtask \/ NextPoll
     \/ \E c \in Calls : ServerClose(c) /\ UNCHANGED program

\* The timer keeps the loop polling; each poll reports what is ready.
MiniSpec ==
  /\ MiniInit /\ [][MiniNext]_all
  /\ WF_all(Main) /\ WF_all(EndPoll) /\ WF_all(Microtask) /\ WF_all(NextPoll)
  /\ \A c \in Calls : SF_all(OnLookup(c)) /\ SF_all(OnHandshake(c)) /\ SF_all(OnRead(c) \/ OnComplete(c))

-----------------------------------------------------------------------------
\* A get() awaits the body of its own response, the first on the connection it
\* opened, although res.bytes is replaced by every head parsed there and the
\* connection may be used again in the very poll in which it was completed.
OwnBody == \A r \in Calls : awaited[r] <= 1

\* The one thing that keeps a get() from its body, or from failing, is that its
\* request went out on a connection another call had opened (246), or that its
\* own connection ended; the res.close() of other chains and pool entries that
\* are overwritten or deleted do not.
Settled(r) ==
  \/ get[r] \in {"done", "failed"} \/ halted
  \/ call[r] \in {"sent", "answered"} /\ sock[r].fd = "unused"
  \/ sock[r].fd = "closed" \/ ~peer[r]

OnlyReuseHangs == \A r \in Calls : get[r] = "fetch" ~> Settled(r)
=============================================================================
