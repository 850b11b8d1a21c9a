-------------------------- MODULE SimpleConcurrent --------------------------
(***************************************************************************)
(* fetch/simple-concurrent.js: `clients` chains of `repeat` requests over  *)
(* the client of Fetch.  It composes each step of Fetch with the code that *)
(* the program runs in it: the on_complete of the callback that the        *)
(* connection closes over, which counts its own variable `repeat` down and *)
(* either calls fetch(repeat) or closes the connection.                    *)
(***************************************************************************)
EXTENDS Fetch, FiniteSets

CONSTANTS
  Clients,    \* lo.args[2]
  Repeat      \* lo.args[3]

ASSUME ClientsAssumption == Clients \in Nat \ {0} /\ Repeat \in Nat \ {0}

VARIABLES
  launched,   \* iterations done of the loop at 48
  repeat,     \* the variable `repeat` of each call's closure
  requests,   \* calls of fetch
  responses   \* calls of on_complete

driver == <<launched, repeat, requests, responses>>

DriverInit ==
  /\ Init
  /\ launched = 0
  /\ repeat = [c \in Calls |-> 0]
  /\ requests = 0 /\ responses = 0

\* fetch(repeat) in the loop at 48, before the event loop first runs.
Launch(r) ==
  /\ launched < Clients
  /\ HttpGet(r)
  /\ launched' = launched + 1
  /\ repeat' = [repeat EXCEPT ![r] = Repeat]
  /\ requests' = requests + 1 /\ UNCHANGED responses

\* The on_complete of call c, 25-40.
OnComplete(c, n) ==
  /\ UNCHANGED launched
  /\ responses' = responses + 1
  /\ IF repeat[c] > 1
     THEN \E r \in Calls :
            /\ CompleteAgain(c, n, r)
            /\ repeat' = [repeat EXCEPT ![c] = @ - 1, ![r] = repeat[c] - 1]
            /\ requests' = requests + 1
     ELSE /\ CompleteClose(c, n)
          /\ repeat' = [repeat EXCEPT ![c] = @ - 1]
          /\ UNCHANGED requests

Callback(c) == \E n \in Octets(c) : OnComplete(c, n)

\* run_loop: one poll, which runs callbacks of the loop.
RunLoop == launched = Clients /\ ~halted

DriverNext ==
  \/ \E r \in Calls : Launch(r)
  \/ RunLoop /\ Internal /\ UNCHANGED driver
  \/ RunLoop /\ \E c \in Calls : Callback(c)

\* run_loop polls again and again (62-64), so each ready descriptor is served
\* and each resolver answers.
Fairness ==
  \A c \in Calls :
    /\ WF_<<vars, driver>>(Launch(c))
    /\ WF_<<vars, driver>>(RunLoop /\ Lookup(c) /\ UNCHANGED driver)
    /\ WF_<<vars, driver>>(RunLoop /\ ConnectReady(c) /\ UNCHANGED driver)
    /\ WF_<<vars, driver>>(RunLoop /\ HandshakeStep(c) /\ UNCHANGED driver)
    /\ WF_<<vars, driver>>(RunLoop /\ ((Read(c) /\ UNCHANGED driver) \/ Callback(c)))

DriverSpec == DriverInit /\ [][DriverNext]_<<vars, driver>> /\ Fairness

-----------------------------------------------------------------------------
\* loop.size === 0: no socket and no resolver is registered.
LoopEmpty ==
  /\ launched = Clients
  /\ \A c \in Calls : sock[c].fd # "open" /\ call[c] # "lookup"

\* Whenever run_loop finds the loop empty, every request was answered
\* (simple-concurrent.js:50-52, `assert(responses === requests)`).
AllAnswered == LoopEmpty /\ ~halted => responses = requests

\* The program ends: the chains run to their last res.close() and no socket
\* stays behind in the loop (simple-concurrent.js:39, 51-60).
Ends == <>LoopEmpty
=============================================================================
