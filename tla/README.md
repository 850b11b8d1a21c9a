# lo-bench in TLA+

This directory specifies lo-bench, the benchmark programs of the `lo` JavaScript
runtime, in TLA+. The programs are small, but most of them are event-driven or
multi-threaded, and what goes wrong in them goes wrong in an order of events
that a benchmark on an idle machine seldom produces.

The runtime's own libraries (`lib/loop.js`, `lib/net.js`, `lib/libssl.js`,
`lib/pico.js`, `lib/dns.js`, `lib/worker.js`, `lib/proc.js`) are not in the
repository. They are modelled from how the programs use them, and their
definitions are marked external in `PROJECT.json`, as are the kernel, the
network and clients the repository does not contain.

## 1. Inventory

### The https client, `fetch/lib/fetch.js`, and its programs, `fetch/*.js`

* State: the pool `sockets` (one connection per `protocol:address:port`); for
  each connection its descriptor, its SSL object, INSECURE or SECURE, its
  `response` object with the counts of the response being read; the callback
  its read handler closes over; what the loop watches the descriptor for.
* Operations: `http_get` (look up the name, then reuse a pooled connection or
  open one), the connect callback, `set_secure`, `handle_response`,
  `close_socket`, and the promise wrapper `fetch`.
* Interactions: the loop calls back on readiness and on error; the caller's
  `on_bytes` and `on_complete` run inside the read handler and may call
  `http_get` or `res.close()`. `simple-concurrent.js` keeps chains of requests
  going until the loop is empty and asserts its counts; `mini.js` awaits a
  response, then its body, and calls `res.close()` in a later microtask.
* Hard: reads cut responses anywhere; failures come between any two steps; a
  close may hit a connection that another call has taken from the pool.
* Correct when: what is in the pool can carry a request; the client reads the
  response of the request it wrote; a completed body is exact; each request
  is sent once and completes or fails to its own caller.

### Threads and processes, `threads/*.js`, `workers/*.js`, `http/spawn*.js`, `http/threads.js`, `http/isolates.js`

* State: a few words of a SharedArrayBuffer or an eventfd, and a counter in
  each thread; the tids, contexts and socket pairs of workers; the pids, timers
  and promises of children.
* Operations: plain stores and loads, `Atomics.add`, `wait` and `notify`;
  start, poll, join and destroy; fork, `waitpid`, kill, the monitor's timer.
* Hard: the start of a worker races with the main thread's stores; a store may
  overwrite the other thread's; shared buffers are reused; a sweep meets a
  thread that ends in the middle of it.
* Correct when: the asserted counts hold, nothing is joined twice or freed
  early, no child is left, and the program ends.

### http servers and load clients, `http/*.js`, `http/hello-c.c`, `fetch/server.js`, `ssr/lo-ssr*.js`

* State: `sockets` by descriptor, a parser and buffer per connection, TLS state,
  `stats.conn` and `stats.rps`; in C the batch of events and the descriptors.
* Hard: heads cut by reads, pipelined requests, descriptor numbers used again,
  writes that do not complete, errors between accept and close.
* Correct when: client and server take turns, their figures agree, and each
  request gets its response.

### Echo and datagrams, `net/*.js`

* State: `sockets`, the `pending` rest of a partial write, what the loop
  watches; the four counts of a second and the timer that resets them.
* Hard: partial writes, writes that would block, loss of the one datagram.
* Correct when: no octet is lost or sent twice; figures of a second agree.

### WebSocket, `websocket/*.js` and `websocket/sws.c`

* State: on the server one receive buffer and one offset for all handshakes; on
  the client a receive buffer and the continuation of a partial write.
* Pure functions: the frame format, the text check, the blocks of the digest.
* Hard: interleaved handshakes, frames cut by reads, writes that do not complete.
* Correct when: a client is answered with its own key; messages arrive whole
  and in order; the functions agree with the formats they implement.

### Templates, paths, files, digests and meters

* `ssr/lib/html.js` and `path.js`: a tokenizer, a code generator and path
  functions. `fs/readdir*.js`: recursive walks with one buffer per depth.
  `crypto/hash-*`: contexts shared by several functions. `lib/bench.mjs`:
  meters that share the last reading of the processor time.
* Correct when: they agree with a reference definition; every entry is found
  once; every digest is that of its own text; a report is of
  the time it took, but for what its own calls use.

### The rest

The micro-benchmarks of `runtime/`, `sqlite/`, `base64/`, `buffers/` and `url/`
are straight-line loops around native calls that are not in the repository.

`PROJECT.json` lists each component with its status, and under "hazards" the
places where the code is hard to test, with the properties that cover them.

## 2. Modules

| module | what it is |
| --- | --- |
| `Fetch` | the https client: pool, handshake, response reader, network |
| `Exchange` | what the client promises of keep-alive, without pool, TLS or octets |
| `SimpleConcurrent` | `simple-concurrent.js` composed with `Fetch` |
| `Mini` | `mini.js` and the promises of `fetch()` composed with `Fetch` |
| `FetchProofs`, `SimpleConcurrentProofs`, `MiniProofs` | theorems about these three |
| `Notify`, `NotifyProofs` | `threads/notify.js`, both threads, and theorems about it |
| `Events` | `events.js` and `events4.js`: wakeups through a word of shared memory |
| `EventCount` | `events3.js`: signals through a non-blocking eventfd |
| `EventBuffer` | `events2.js`: numbers through one buffer and a blocking eventfd |
| `Atomics` | `atomics.js`: additions of several threads to one word |
| `Workers` | `joinmany.js`, `joinmany2.js`, `threads.js`, `isolates.js`, `test.js` |
| `PairWorker` | `lo-worker.js`, `lo-worker-async.js`: a socket pair that outlives its workers |
| `Launch` | `launch.js`: processes and their pipes, looked at in rounds |
| `Supervisor` | `spawn.js`, `spawn2.js` and `monitor.js` |
| `Rally` | what a load client and its server promise: question and answer in turn |
| `HttpLoad` | `wrk.js` against `hello-lo.js`, `ssr.js`, `lo-ssr.js`, `lo-ssr2.js` |
| `HttpsLoad` | `http/fetch.js` against `https-lo.js` and `fetch/server.js` |
| `BigBody` | one connection of `fetch/server.js` and the answer that is written once |
| `HelloC` | `hello-c.c`: batches of events, descriptors given out again |
| `Echo` | the three pairs of echo servers and clients |
| `PingPong` | `udp-ping-pong.js` |
| `WsAccept` | the handshakes of `websocket/server.js` over their one buffer |
| `WsExchange` | `client.js` over `websocket.js`, with the server's echo |
| `Frame`, `Utf8`, `ShaBlocks` | the pure functions of the WebSocket programs |
| `Paths` | `ssr/lib/path.js` |
| `Template` | `ssr/lib/html.js` |
| `Walk` | `readdir-linux-lo.js`, `readdir-lo.js` |
| `Digests` | `hash-lo-lo.js`, `hash-lo-mbedtls.js`, `hash-c.c`, `hash-node.mjs` |
| `BenchMeter` | `lib/bench.mjs`, `fs/lib/bench.mjs` |
| `MCFetch`, `MCSimpleConcurrent`, `MCMini` | small instances for TLC |
| `MCThreads`, `MCServers`, `MCSockets`, `MCTools` | several components in one run |
| `ThreadsProofs`, `ServersProofs`, `SocketsProofs`, `ToolsProofs` | theorems about the specifications of these four |
| `OneOf` | the variables of such a run |

**Several components in one run.** The last four MC modules instantiate their
components over the same twelve variables of `OneOf`; `subject` names the
component a behaviour is of and never changes, so that the states of such a run
are the disjoint union of those of its components. A component that is there with
several constants is one instance with a parameter (`Ev(p)`, `Ht(p)`, `Eo(k)`,
`Ac(p)`, ...): its parameter is the `subject`, so a program that shares the
structure of another, or a copy that suffers failures and one that does not, is
the same module with other constants. A property of such a run says
`subject = "x" => X!P` for the `P` of component `X`; its `IInv` is such a
conjunction too, over the components' own inductive invariants, which is what the
proofs about the run show. Assumptions on constants are
definitions of the components (`MaxAssumption`, ...) and an `ASSUME` of the MC
module. Each variable of a component is a slot in the order of its declaration.

In the components several definitions named "Faulty variant" precede the action
they differ from. They are used by no specification: the mutants of
`PROJECT.json` put them in its place to show that a property notices.

### How Fetch corresponds to the code

One step is one callback of the loop or one event of the network: JavaScript runs
a callback to its end. A connection is named by the `http_get` call that opened
it, because its read handler (279) closes over the callback of that call; who
receives a response follows from the name.

| code | action |
| --- | --- |
| `http_get` up to the lookup, 225-228 | `HttpGet` |
| resolver callback: error, 229 | `LookupError` |
| resolver callback: pooled connection, 230-247 | `Reuse` |
| resolver callback: new connection, 248-280 | `Connect` |
| connect callback, 252-279 | `ConnectReady`, `ConnectFail` |
| `handle_response` before the handshake is done, 127-133 | `Handshake`, `HandshakeFail` |
| `handle_response`, no completion, 134-214 | `ReadMore`, `ReadError` |
| completion, 146, 157, 188, 200, with the caller's `on_complete` | `CompleteKeep`, `CompleteLater`, `CompleteAgain`, `CompleteClose` |
| a caller's `res.close()` in a later turn | `ResClose` |
| the loop's error callback, `sock.close` | `ErrorEvent` |

`sockets`, `sock` and `response` are the objects of the code; `call` is the state
of each `http_get`; `network` is the server's TLS flight, its tickets, the
responses under way and whether it still listens; `history` guards nothing.
A response is three numbers: is it chunked, how many octets has its head, how
many its body. `HandleBytes` says what `handle_response` makes of the next `n`
of them, for every `n`, so a response is cut into reads in every way. The chunk
decoder of pico is external: it stops behind the last-chunk line, returns how
much is left behind it, and, when it is not cleared between two bodies, stops at
the first end of line of the second. Two simplifications are visible: one
`SSL_read` carries octets of one response only, since a TLS record does, and a
body has one data chunk. When `SSL_read` ends the handshake (127-133) nothing
calls the handler again unless the server sends something more: `Tickets` says
that it sends session tickets, as OpenSSL's servers do by default.

`SimpleConcurrent` takes the steps of `Fetch` and fixes what the caller does in
them: `Launch` is the loop at line 48, `OnComplete` the callback of lines 25-40
with its closure's `repeat`, `RunLoop` the condition under which the loop is
polled; `LoopEmpty` is `loop.size === 0`. `Mini` does the same for `mini.js`: a
turn is `main`, a poll that calls back for each ready descriptor at most once, or
the microtasks that run before the next poll. What a `get()` awaits is the
promise that `res.bytes` had for it, counted per connection: `heads` of them are
made (fetch.js 304-319) and `bodies` of them resolved.

### How the other components correspond to the code

* `Notify`, `Events`, `EventCount`, `EventBuffer`, `Atomics`: one step is one
  access to shared memory with the thread's local work up to the next access;
  plain loads and stores are as atomic as an aligned word is. `main`, `worker`
  and `pc` are program counters. `Bound` ends the count of a worker that missed
  the limit, which would go on for ever. In `EventBuffer` encoding and decoding
  take a step per digit, since nothing orders them.
* `Workers`: `phase` and `cursor` are the loop the main thread is in and its
  index, `thread` what the kernel knows, `live` the tids or the Set that are
  kept. `PairWorker`: `host` and `worker` are program counters, the two ends of
  the pair are sequences of the rounds their messages were sent in. `Launch`:
  `Poll`, `Dump`, `Round` are the body and the condition of the loop.
* `Supervisor`: `phase` "main" is the module's synchronous part, in which
  `spawn.js` forks all and then waits for all while `spawn2.js` does both child
  by child; `Poll` and `Sample` are the two timers of a child, `Tick` the
  program's own; `Exit` is the child's, `ignored` whether SIGCHLD is ignored.
* `HttpLoad`, `HttpsLoad`, `Echo`, `PingPong`, `WsAccept`: one step is one
  callback of either loop or one event of the network. A stream of `HttpLoad` is
  a number of octets and whether its first one starts a message, which is all
  that a parser reading from offset 0 can tell; that of `HttpsLoad` a sequence
  of records; that of `Echo` the set of the places, counted from the
  reader, where writes not yet read end, since a socket has room for octets and
  for a cost per write.
* `BigBody` follows one connection record by record: `SSL_write` stops at the
  first record that does not fit and nobody repeats it.
* `HelloC`: `Wait` is `epoll_wait` (any of the ready events, in any order),
  `Handle` the body of its loop, split where `accept4` is called again;
  `table` maps descriptors to connections, the lowest free one is taken.
* `WsExchange`: `phase` is the handler the client's loop calls, `pending` the
  continuation of a short write (116-131), `asked` and `wire` what was given to
  `send` and what was written.
* `Frame`, `Utf8`, `ShaBlocks`, `Paths`, `Template`: the functions of the code as
  operators; the state machine only writes their input piece by piece, and the
  properties are compared with a definition of their own (the frame format, the
  Unicode table, FIPS 180, the place a path names, the scopes of loops).
* `Walk`: the recursion as a stack (`path`), the buffers by depth, in the Linux
  variant with what an earlier directory left in them; `Refuse` is a failing
  assertion on what the system returns. `Digests`: what a context
  has absorbed instead of a hash. `BenchMeter`: one step is one reading of the clock or of the processor
  time, in the order the calls make them, with `Work` of any thread between any
  two. A reading of the clock is kept as the processor time used until then, since
  all that is compared is what was used between readings; time spent idle, or
  shared by several threads, then does not matter.

## 3. What the runs show

| run | instance | properties |
| --- | --- | --- |
| `FetchPool` | 3 calls, 2 servers, Content-Length bodies of 0, 1 and 2 octets, flights of 2 segments, every failure, every reaction | `TypeOK`, `PoolSound`, `InStep`, `ExactBody`, `KeepsPromise` (refinement of `Exchange`) |
| `FetchChunked` | 2 calls, 1 server, chunked and Content-Length bodies, every failure, each response closed | `ExactBody` |
| `ScOneChain` | 1 chain of 3 requests, no failure, flight in 2 segments, tickets | `AllAnswered`, `Ends` |
| `Mini` | 2 chains, 3 calls, names not found, servers that close | `OwnBody`, `OnlyReuseHangs` |
| `NotifyCounts` | 12 wakeups, counts to 15 | `TypeOK`, `CallsMatch`, `AllOrNothing`, `Finishes` |
| `Threads` | the programs that start threads or processes, each with constants of its own | `TypeOK`, `Signals`, `Sums`, `JoinedOnce`, `Reaped`, `Finishes`, `Ends` |
| `Servers` | http, https, big bodies and the C server, each with its clients, two connections | `TypeOK`, `Figures`, `Matched`, `TakesTurns` (refinement of `Rally`), `Answered`, `Freed` |
| `Sockets` | the echo pairs, datagrams, handshakes of up to three clients, the WebSocket client | `TypeOK`, `Conserved`, `FiguresAgree`, `Leftover`, `InOrder`, `Completes` |
| `Tools` | walks, digests, meters, paths, templates, text, hash blocks, frames | `Walked`, `Hashed`, `Metered`, `Named`, `Compiled`, `Agrees`, `Ends` |
| `FetchOne` | 2 calls, 1 server | `OwnCallback` fails: a reused connection answers the wrong callback |
| `ScTwoChains` | 2 chains of 2 requests | `Ends` fails: an overwritten pool entry leaks its connection |
| `NotifyStart` | 3 wakeups | `ResultIsMax` fails: the worker ran ahead of the stores |

What the properties of the wide runs say, by component:

* `Signals`: no count without a call (`events4.js`), no sleep behind a known
  limit (`events.js`), no signal merged with another and the word left at 0
  (`events3.js`), a main thread at most two numbers ahead of the worker
  (`events2.js`). `Sums`: no addition lost, the limit found
  by every worker although others write to its word, and the assertions of
  `atomics.js:55-56`. `JoinedOnce`: a worker is forgotten exactly when its
  thread is joined, contexts outlive their threads, rounds over one pair do not mix.
  `Reaped`: what processes wrote is printed before the loop is left; a child is
  polled and monitored exactly while its promise is pending, and `spawn2.js`
  leaves none. `Finishes`, `Ends`: a worker that took the limit ends and so does
  its program; programs that wait end; `spawn.js` ends all it has forked, although
  waiting for them throws.
* `Figures`: connection counts are those of open connections through refused
  connects, resets, alerts and failed handshakes; rates of client and server
  differ by what is under way. `TakesTurns`: on each connection question and
  answer alternate, whatever is cut. `Matched`: an event of a batch is handled on
  its own connection though descriptors are given out again, and there is no
  response without a request. `Answered`: connections without failures go on
  being served; a body that fits is delivered; clients of `hello-c.c` that wait
  get whole responses. `Freed`: what clients left is closed.
* `Conserved`: octets going round are neither lost nor doubled, and `pending`
  is kept exactly while the loop watches for room (`echo-server-bp.js` may lose
  what it could not write, and ends at its first drain). `FiguresAgree`: the four counts of a second, wherever
  the timer falls. `Leftover`: every octet in the one handshake buffer is of a
  client that is still in its handshake. `InOrder`: what was given to `send` is on the wire once
  and in order, echoes are of messages written. `Completes`: the exchanges reach
  their ends, an echo over a unix socket has none.
* `Metered`: a report leaves out nothing that was used while it took the time,
  unless another meter took it (`Covers`); that of `measure` has nothing from before
  its start was called (`OwnTime`); in `fs/lib` the processor time and the time it is
  a share of differ by what two calls of `cputime` used inside (`Shares`). That the
  share is at most one is not claimed: `lib/bench.mjs` reads the processor time
  outside of the clock (320-326), and several threads use it.
* `Compiled`: tokens are found again (`RoundTrip`), loops have variables of their own
  (`Scoped`), fields are those of the innermost loop exactly until a loop is closed
  inside of it (`FieldsOf`), and a template makes a function exactly when its loops are
  closed and none over a field is the first thing in an `#eachField` (`Compiles`).
* `Agrees`: `is_valid` is UTF-8, blocks are those of SHA-1, short frames are echoed
  byte for byte, and a message of the client is a frame, header, key, payload and
  room, exactly when it is unmasked below 65536 bytes or masked and empty, which is
  what `client.js` sends (`ClientWrites`).
* `Walked`, `Hashed`, `Named`: see the comments of the parts in `Walk`, `Digests`
  and `Paths`.

**Mutants.** For each property, and for most parts of a conjunction, a mutant
puts a plausible mistake into a definition of the code and the run notices.

**Bounds.** Every number is a constant, given in a `.cfg`, or in the MC module where the
`.cfg` names a definition of it.

* Three calls are one to open a connection, one to take it from the pool and one
  to collide with either; two servers let a key be wrong; bodies of two octets
  have reads that end before, in and at the end; two segments of a flight leave
  one over. Calls are symmetric in `FetchPool`, which checks no liveness.
* Wakeups and signals: 12, 8 and 4, more than the states one passes through.
  `Atomics`: three workers and the main thread with a limit of 3 in words of 16
  values, of which the sum 12 of all threads is one. Four threads, two processes, three children:
  a sweep has one before, at and behind it. Twelve rounds of a pair.
* Two connections over each server, two descriptors or one for `HelloC` so that
  numbers are given out again (where clients wait) or run out (where they send
  ahead), two requests each. `Room` of `BigBody`
  is the size of the big answer, or half of it.
* Sockets of `Echo` hold less than, exactly, and more than a payload and the
  cost of its write. Requests of a handshake have three pieces, cut in every
  way by two clients, sent at once by three. Up to eight writes of `WsExchange`
  are short.
* All trees of four entries with three buffers of three entries (a walk that is too
  deep and a directory too wide happen); processor time to 3, so that some is used between any three of the
  readings; paths, templates and texts of up to
  four pieces, chosen at the edges of each range; hash blocks of texts of 0 to
  130 bytes, past two block ends; frames at both sides of each change of format.

**Deadlock.** The programs stop: calls run out, loops become empty, threads
end. Deadlock is therefore not checked; `Ends`, `Finishes`, `Answered`,
`Completes` and `OnlyReuseHangs` say where a program must not stop early.

**Fairness.** Programs poll their loop as long as it is not empty
(`simple-concurrent.js:62-64`, `mini.js:35-41`, `wrk.js:82`, `hello-lo.js:110`,
...), and a level-triggered loop reports a descriptor that stays ready: weak
fairness of what is done for each connection. `Mini` and `HelloC` follow the
batches of a poll, in which a descriptor may be missing for a while though it is
reported in the end: strong fairness there. Threads run and processes that are
killed end, since the operating system schedules them: weak fairness of each.
Timers fire. Nothing is assumed of failures, of clients that may leave, or of
children that may run for ever.

## 4. What is proved

TLAPS checks these for all values of the constants. Every safety invariant that
a run checks is among them but `Named` and `Compiled`. Each theorem
follows the same argument: an inductive invariant `IInv` (of the component,
beside its properties, or of the proof module where it spans several) holds at
the start, is kept by every action, and implies the property.

**The https client.**

* `FetchProofs!TypeCorrect`, `PoolSafety`: types, and the soundness of the pool,
  with no assumption on servers or callers. `PoolSound` is not about one line:
  it needs that a connection enters the pool only in a read that follows its
  handshake, that each close clears the entry of its key, and that a key in the
  pool is the key of its connection; together with the types it is inductive.
* `InStepSafety`, `BodyExact`, `PromiseKept`: under `Orderly`, servers that
  state a Content-Length (`LengthOnly`) or callers that close each response when
  it completes (`CloseEach`, as `simple.js` and the downloads do), whatever
  fails. They need the stronger `ReaderInv`: `OneCarrier` (a
  call is carried by one connection) and, for each connection, `ConnOK`. It says
  that the octets of an outstanding response and the client's counts are aligned
  (`Aligned`: before the head is parsed `start` is the position in the response
  and the decoder of a chunked one is fresh, after it `body_bytes` is what
  `on_bytes` was given: the octets behind the head, or the data the decoder has
  passed, `DataUpTo`), that a connection before its handshake carries nothing
  (`Fresh`), that what it carries was sent, to its own key (`Carried`), and that
  a connection never opened has no state (`Unopened`). Without `Aligned` nothing
  prevents a completion in the middle of a body; without `Carried` a completion
  could be that of a request answered before. `FedAt` is the one
  lemma about both kinds of body: a reader that stands somewhere in a body stands
  further on after a read, or has passed the whole body, or takes the end of a
  chunked one for an error. `EmptyPool` says that under `CloseEach` nothing is
  reused. `Orderly` is needed: the chunk decoder leaves octets behind, and is not
  cleared, on a reused connection.
* `SimpleConcurrentProofs!Answers`: the assertion of `simple-concurrent.js:52`,
  under `LengthOnly` and `NoFaults` (a refused connection is never answered, and
  the assertion then fails). `Counted` says that the two counters are the numbers
  of calls made and answered; `Registered`, that a call not yet answered is
  something the loop knows of: its lookup, or a connection that is open. So an
  empty loop means equal numbers. An overwritten pool entry, which makes `Ends`
  fail in `ScTwoChains`, does not disturb this.
* `MiniProofs!OwnBodies`: no assumption on servers or failures. A `get()` takes
  the promise of the first head of its connection although later heads replace
  it, because the microtask that takes it runs before a second head can be read:
  `OneHead` says that a `get()` still in `fetch` has seen one head at most, and
  none unless this poll has already called its descriptor back.

**Threads and processes** (`ThreadsProofs`, about the specification of the run
`Threads`).

* `NotifyProofs!TypeCorrect`, `CallsMatchSafety`, `AllOrNothingSafety`: the
  invariant `IInv` counts the wakeup in flight, `calls = counter + InFlight`, and
  says that a worker that left its loop either has its limit or never waited.
* `Typed`; `SignalsHold`: each event program needs an equation between what was
  signalled, what is in the word or the eventfd, and what was counted (`FlagIsCall`
  of `Events`, `InFlight` of `EventCount`, `Written = Taken + event` of
  `EventBuffer`).
* `SumsHold`: `Sum` says that the word is, modulo its number of values, the number
  of additions made, which is the size of a set of pairs (thread, addition); a
  step adds one pair (`AddedGrows`) and one to the word (`AddWraps`). The
  assertions at the end of the program need more: at the end the set has
  `Additions * (Cardinality(Worker) + 1)` members, and the theorem assumes that a
  word holds that many. `Worker` is any finite set.
* `ThreadsJoinedOnce`: of a pool, that behind the cursor all are joined and ahead
  of it none is forgotten (`JoinedSoFar`, `AllJoined`, with `Counted` for the
  worker count of `threads.js`); of a pair, that one message is under way and of
  this round (`OneUnderWay`).
* `ChildrenReaped`: of `launch.js`, that a round that found none running has
  printed all of the processes it passed (`DoneSoFar`); of the supervisors,
  `Watched` with `Ahead` (no child ahead of the loop exists) and `Pending` (a child
  of `spawn2.js` that lives has its timer).

**Servers and their clients** (`ServersProofs`, run `Servers`).

* `Typed` and `FiguresHold`: counts of connections are cardinalities of the sets
  of those open, through every way a connection ends; totals of client and server
  differ by what is on its way. `BigBody` has `OneAnswer`: of the answer asked for
  what is read and what is on the wire are not more than all, and all exactly when
  the server counted it.
* `EventsMatched`: `OnceReported` (a descriptor is in a batch once), so closing one
  and taking its number again leaves every other event its own connection.
* `RalliesKept`: `HttpLoad` and `HttpsLoad` implement `Rally`. `turn` maps the
  state of a connection to one of the five of `Rally`, or to "astray", and
  the invariant rules the last one out: `Asking` and `Answering` relate the octets
  of both directions to the counts (`HttpLoad`), `InTurn` the records, tickets
  included (`HttpsLoad`).

**Sockets** (`SocketsProofs`, run `Sockets`).

* `Typed`; `OctetsConserved`: per connection, `Sound` says that no more octets are
  around than the client first wrote, that they fit, that what is pending is
  watched for, and that none are missing while both sides run. The lemmas
  `PutOctets`, `RestOctets`, `TakenOf`, `WrittenOf` say what the operators on
  streams do to the number of octets.
* `FiguresTogether`: `Ahead` of `PingPong`, one figure being one more until the
  first tick; `LeftoverWaits`: `Leftover` with `Own`, the pieces on a
  client's stream are its own, so that who leaves them in the buffer is who is in its
  handshake, and both ways out of one empty the buffer; `SentInOrder`: `Waiting` (what is pending is a
  whole frame or the rest of the one sliced) and `OnTheWay` (echoes received and
  under way are no more than the messages written).

**Tools** (`ToolsProofs`, run `Tools`).

* `WalksFind`, for every tree, number of buffers and their size: `Chain` (the
  path goes down opened directories, and they are the open descriptors), `Following`, `Buffered` (what waits in a buffer is
  of the directory of that depth), `FoundOnce` and `NoneLost` (an entry of an
  opened directory is found or in its buffer). That nothing is missing at the end
  is an induction over the tree: it takes the least entry that is missing, whose
  parent has a smaller number.
* `HashesOwn`: `Kept`, `Absorbed`, `Counting`, what a context has absorbed in each
  stage of its use; `MetersOwn`: `Begun` (no call of `cputime` came between a
  meter's start and now, unless it is marked), `Called` (the call that runs, as far as
  it got) and `Inside` (where the readings of a call stand to each other).
* `WebSocketsAgree`: the invariant only says that the inputs have their types; the
  rest are facts about the functions of the code, for every input. Of the text
  check (`TextIsRow`): `Valid` and `Rows` turn the two recursive functions, the
  loop and the reference, into sets of places `V` and `R` of the text, from which
  the loop returns 1 and from which the rest is a row of characters. (The sets exist
  as the largest ones that are closed under a step, `Leads`; that is what the
  induction over the text would give.) `CharacterWhole` says that at a byte that is
  not ASCII the code takes exactly the character the table allows, `AsciiRun` that
  ASCII skipped four at a time or one at a time does not matter, and the greatest
  place in one set and not in the other contradicts both. Of the digest
  (`BlocksAgree`): `PaddedIs` gives the padded text byte by byte, and each full
  block and the one or two behind them are 64 of its bytes (`BlockAt`), for
  texts below 2^28 bytes, where `bytelength << 3` is an int. Of the
  frames (`ShortEchoed`, `ClientFrames`, `Reads`): unmasking removes the key byte each
  byte of the payload was masked with, whatever lies behind the frame; the
  lengths of two and four bytes are written and read alike (`OfBytes`), for payloads
  of up to 2^31 - 1 bytes; a message that is no frame differs from one in a byte the
  lemmas name (the first of the key of a short masked frame, the second of a longer
  masked one), or lacks the room.

**Assumptions.** Those on constants that the modules name: in `Fetch`, `Mini`,
`SimpleConcurrent` and `Notify` as `ASSUME` (`NoneAssumption`, `FlightsAssumption`,
`TicketsAssumption`, `ResponsesAssumption`, `JobsAssumption`,
`ClientsAssumption`, `MaxAssumption`, `BoundAssumption`), of the components of a
wide run as the conjuncts of its `Assumptions`. They say that sizes, limits and
rounds are numbers, mostly positive, that the big answer is no smaller than
the small one, that a unix socket has no cost per write, that sets of workers and
connections are finite and that `None` is none of them. TLC evaluates them in the runs.

**Only model-checked.** Every liveness property, which the prover's treatment of
fairness does not reach: `Ends`, `Finishes`, `OnlyReuseHangs`, `Answered`, `Freed`,
`Completes`. `Named` and `Compiled`: what the functions of `Paths` and
`Template` compute is defined by folds and by recursion that carries a state
(a path built so far, a stack of loops) over data of any length, and the induction
over that data is beyond the prover. The three runs that show a violation have of
course no theorem.

## 5. What the code does that a reader may not expect

Three disagreements of the code with its own text are runs (`FetchOne`,
`ScTwoChains`, `NotifyStart`) and stated under "findings". The models follow the
code in the following too, and the properties are stated around it:

* `fetch.js`: with a server that sends no tickets, a handshake that `SSL_read`
  ends is never followed by a request (127-133); a body of length 0 never
  completes (179); a chunked body whose last-chunk line ends a read is taken for a
  decoding error (184); the decoder is not cleared on a reused connection (168);
  a reset reaches no caller (275). In `mini.js` a chain whose request went out
  on another's connection never goes on, and `main()` may never finish.
* `events.js` does not wait at all once the worker knows the limit, a worker
  that starts first takes the limit 0, and the numbers of `events2.js` may be
  rewritten while they are read.
* `spawn.js` misspells its constructor, so that waiting for a child that still
  runs throws; `threads/test.js` names a path that is not there.
* `echo-server-bp.js` forgets what it read while the socket had no room, keeps the
  rest of a short write as a slice without the `ptr` that is to be sent (35, 50), and
  its drain and error paths name things that do not exist, so the first drain ends
  it; a client that leaves can end
  `echo-server.js`.
* `fetch/server.js` and `hello-c.c` never continue a short write; a head in two
  reads is never answered by `hello-lo.js`; pipelined requests get one response.
* `websocket.js` sets no correct mask bit for extended lengths (48, 53), places the
  payload of a masked frame over its key and does not mask it (64), and has no room for
  an unmasked one of 65536 bytes (51, 59); all of `client.js`'s frames are masked (9,
  16), but empty. `socket.js:145` reads extended
  lengths in the wrong byte order. Handshakes in pieces are mixed by `server.js`.
* `html.js` drops a text of one byte before a directive and forgets the outer
  loop behind an inner one; a loop over a field directly inside `#eachField` makes
  `of .field` (142, 157), which is no JavaScript (213).

## 6. Not modelled, and why

* The plain-http branch of `fetch.js` (85-101): it never reuses a connection and
  has no state beyond what the https path has.
* `ws.js`, `echo-server-socket.js` and `threads/join.js` rest on library classes
  that are not in the repository and whose behaviour decides everything.
* Frames that a read cuts or joins: the readers take a read for one frame, so
  there is no property to state. `innerHash` (80 rounds of 32-bit arithmetic),
  `sanitize` and the text of `/proc/<pid>/stat` are data without control.
* Inodes whose low 32 bits are 0, at which `readdir-linux-lo.js:41` would end a
  directory; SIGPIPE in `hello-c.c` when a client left before its response.
* The copy of itself that `spawn2.js` leaves when `execvp` fails, a second
  program with the state of the first.
* File copies, `sqlite/`, `base64/`, `buffers/`, `url/`, `runtime/`: timed calls of
  one native function each. Programs for other runtimes (deno, bun, node) except
  the node variants that share their structure with a `lo` program.
* The formatting of figures, and what is printed.
