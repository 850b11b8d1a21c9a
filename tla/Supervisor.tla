----------------------------- MODULE Supervisor -----------------------------
(***************************************************************************)
(* http/spawn.js and http/spawn2.js with http/monitor.js: a process starts *)
(* Count children and polls each one with waitpid(WNOHANG), from a timer,  *)
(* while a monitor reads /proc/<pid>/stat from a timer of its own.         *)
(*                                                                         *)
(* spawn2.js forks and first polls one child after the other.  spawn.js    *)
(* forks them all, polls them all, has a timer of its own and, at its      *)
(* sixth tick, kills the children; its class spells `contructor`, so that  *)
(* a Process has no loop to give to the timers.                            *)
(***************************************************************************)
EXTENDS Integers, FiniteSets

CONSTANTS
  Count,     \* children
  Program    \* "spawn" or "spawn2"

CountAssumption == Count \in Nat \ {0} /\ Program \in {"spawn", "spawn2"}

Child == 1..Count

VARIABLES
  proc,      \* none, running, zombie, gone: what the kernel has of a child
  ignored,   \* whether SIGCHLD is ignored: children then leave no zombie
  forked,    \* children that fork was called for
  waited,    \* children waitfor was called for
  promise,   \* none, pending, resolved, rejected
  timers,    \* children whose poll timer is open
  monitors,  \* children whose monitor is open
  samples,   \* children the monitor has an entry of
  phase,     \* main, loop, ended
  iter,      \* ticks of the timer of spawn.js, up to 6
  killed     \* children that were sent SIGTERM

vars == <<proc, ignored, forked, waited, promise, timers, monitors, samples, phase, iter, killed>>

Init ==
  /\ proc = [i \in Child |-> "none"] /\ ignored \in BOOLEAN
  /\ forked = 0 /\ waited = 0 /\ promise = [i \in Child |-> "none"]
  /\ timers = {} /\ monitors = {} /\ samples = {}
  /\ phase = "main" /\ iter = 0 /\ killed = {}

Alive == { i \in Child : proc[i] = "running" }

\* waitpid(pid, state, WNOHANG): 1 reaps the child, -1 when there is none.
Waitpid(i) == CASE proc[i] = "running" -> 0 [] proc[i] = "zombie" -> 1 [] OTHER -> -1
Reap(i) == proc' = [proc EXCEPT ![i] = IF @ = "zombie" THEN "gone" ELSE @]

Settle(i, how) == promise' = [promise EXCEPT ![i] = how]

-----------------------------------------------------------------------------
\* spawn: the fork, which may fail.  What throws in spawn.js ends its main.
Fork ==
  /\ phase = "main" /\ forked < Count
  /\ Program = "spawn2" => waited = forked
  /\ forked' = forked + 1
  /\ \/ /\ proc' = [proc EXCEPT ![forked'] = "running"]
        /\ UNCHANGED <<promise, waited, phase>>
     \/ /\ Settle(forked', "rejected")
        /\ IF Program = "spawn" THEN phase' = "loop" /\ UNCHANGED waited
                                ELSE waited' = forked' /\ UNCHANGED phase
        /\ UNCHANGED proc
  /\ UNCHANGED <<ignored, timers, monitors, samples, iter, killed>>

\* The first poll, and for a child that runs the monitor and the timer.  In
\* spawn.js the monitor has opened its file when its timer finds no loop.
Watch(i) ==
  IF Program = "spawn2"
  THEN timers' = timers \cup {i} /\ monitors' = monitors \cup {i} /\ Settle(i, "pending")
       /\ UNCHANGED phase
  ELSE phase' = "loop" /\ UNCHANGED <<timers, monitors, promise>>

Polled(i) ==
  /\ waited' = i /\ Reap(i)
  /\ IF Waitpid(i) = 0 THEN Watch(i)
     ELSE /\ Settle(i, IF Waitpid(i) = 1 THEN "resolved" ELSE "rejected")
          /\ UNCHANGED <<timers, monitors, phase>>
  /\ UNCHANGED <<ignored, forked, samples, iter, killed>>

Wait ==
  /\ phase = "main" /\ waited < forked
  /\ Program = "spawn" => forked = Count
  /\ Polled(waited + 1)

\* A child that leaves no zombie may be gone between its first poll and the
\* opening of its file, and what Monitor.open throws ends main.
OpenFails ==
  /\ phase = "main" /\ waited < forked /\ ignored
  /\ Program = "spawn" => forked = Count
  /\ proc[waited + 1] = "running" /\ proc' = [proc EXCEPT ![waited + 1] = "gone"]
  /\ waited' = waited + 1 /\ phase' = "loop"
  /\ UNCHANGED <<ignored, forked, promise, timers, monitors, samples, iter, killed>>

Start ==
  /\ phase = "main" /\ waited = Count
  /\ phase' = "loop"
  /\ UNCHANGED <<proc, ignored, forked, waited, promise, timers, monitors, samples, iter, killed>>

\* Faulty variants: the monitor is left open; 0 is taken for the child's end;
\* a child that is not there is polled for ever.
PollLeavesMonitor(i) ==
  /\ phase = "loop" /\ i \in timers
  /\ Reap(i)
  /\ IF Waitpid(i) = 0 THEN UNCHANGED <<timers, promise>>
     ELSE /\ timers' = timers \ {i}
          /\ Settle(i, IF Waitpid(i) = 1 THEN "resolved" ELSE "rejected")
  /\ UNCHANGED <<ignored, forked, waited, monitors, samples, phase, iter, killed>>

PollTakesRunning(i) ==
  /\ phase = "loop" /\ i \in timers
  /\ Reap(i)
  /\ timers' = timers \ {i} /\ monitors' = monitors \ {i}
  /\ Settle(i, IF Waitpid(i) >= 0 THEN "resolved" ELSE "rejected")
  /\ UNCHANGED <<ignored, forked, waited, samples, phase, iter, killed>>

PollNoError(i) ==
  /\ phase = "loop" /\ i \in timers
  /\ Reap(i)
  /\ IF Waitpid(i) # 1 THEN UNCHANGED <<timers, monitors, promise>>
     ELSE /\ timers' = timers \ {i} /\ monitors' = monitors \ {i}
          /\ Settle(i, "resolved")
  /\ UNCHANGED <<ignored, forked, waited, samples, phase, iter, killed>>

Poll(i) ==
  /\ phase = "loop" /\ i \in timers
  /\ Reap(i)
  /\ IF Waitpid(i) = 0 THEN UNCHANGED <<timers, monitors, promise>>
     ELSE /\ timers' = timers \ {i} /\ monitors' = monitors \ {i}
          /\ Settle(i, IF Waitpid(i) = 1 THEN "resolved" ELSE "rejected")
  /\ UNCHANGED <<ignored, forked, waited, samples, phase, iter, killed>>

\* Monitor.read: an entry of the fields of /proc/<pid>/stat; when the child is
\* gone, of fields that are undefined.
Sample(i) ==
  /\ phase = "loop" /\ i \in monitors
  /\ samples' = samples \cup {i}
  /\ UNCHANGED <<proc, ignored, forked, waited, promise, timers, monitors, phase, iter, killed>>

\* Faulty variant: the last child is not killed.
TickKillsFirst ==
  /\ phase = "loop" /\ Program = "spawn"
  /\ iter' = IF iter < 6 THEN iter + 1 ELSE iter
  /\ killed' = IF iter = 5 THEN 1..forked - 1 ELSE killed
  /\ UNCHANGED <<proc, ignored, forked, waited, promise, timers, monitors, samples, phase>>

\* The timer of spawn.js, which knows the children that were forked.
Tick ==
  /\ phase = "loop" /\ Program = "spawn"
  /\ iter' = IF iter < 6 THEN iter + 1 ELSE iter
  /\ killed' = IF iter = 5 THEN 1..forked ELSE killed
  /\ UNCHANGED <<proc, ignored, forked, waited, promise, timers, monitors, samples, phase>>

\* The loop ends when nothing is registered with it; the timer of spawn.js is
\* closed only after that.
End ==
  /\ phase = "loop" /\ Program = "spawn2" /\ timers = {} /\ monitors = {}
  /\ phase' = "ended"
  /\ UNCHANGED <<proc, ignored, forked, waited, promise, timers, monitors, samples, iter, killed>>

Exit(i) ==
  /\ proc[i] = "running"
  /\ proc' = [proc EXCEPT ![i] = IF ignored THEN "gone" ELSE "zombie"]
  /\ UNCHANGED <<ignored, forked, waited, promise, timers, monitors, samples, phase, iter, killed>>

MainStep == Fork \/ Wait \/ Start \/ Tick \/ End
Killed(i) == i \in killed /\ Exit(i)
ChildStep(i) == Poll(i) \/ Sample(i) \/ Exit(i)
Next == OpenFails \/ MainStep \/ \E i \in Child : ChildStep(i)

\* Every timer fires again and again; a child that is killed ends.
Spec ==
  /\ Init /\ [][Next]_vars
  /\ WF_vars(MainStep)
  /\ \A i \in Child : WF_vars(Poll(i)) /\ WF_vars(Killed(i))

-----------------------------------------------------------------------------
TypeOK ==
  /\ proc \in [Child -> {"none", "running", "zombie", "gone"}] /\ ignored \in BOOLEAN
  /\ forked \in 0..Count /\ waited \in 0..forked /\ iter \in 0..6
  /\ promise \in [Child -> {"none", "pending", "resolved", "rejected"}]
  /\ timers \subseteq Child /\ monitors \subseteq Child
  /\ samples \subseteq Child /\ killed \subseteq Child
  /\ phase \in {"main", "loop", "ended"}

\* A child is polled and monitored for as long as its promise is pending, and no
\* promise is resolved but by reaping its child.
Watched ==
  /\ timers = { i \in Child : promise[i] = "pending" } /\ monitors = timers
  /\ \A i \in Child : promise[i] = "resolved" => proc[i] = "gone" /\ ~ignored
  /\ \A i \in timers : proc[i] = "gone" => ignored

\* spawn2.js leaves no child behind, running or dead.
NoneLeft == phase = "ended" => \A i \in Child : proc[i] \in {"none", "gone"}

\* No child is lost, polled without need or left behind.
Reaped == Watched /\ (Program = "spawn2" => NoneLeft)

\* Why: a child beyond those waited for has no promise yet, one beyond those
\* forked does not exist, and spawn2.js polls what it has left behind.
Ahead ==
  /\ \A i \in Child : i > forked => proc[i] = "none" /\ promise[i] = "none"
  /\ \A i \in Child : i > waited /\ phase = "main" => promise[i] = "none"
  /\ \A i \in Child : proc[i] = "zombie" => ~ignored
Pending ==
  Program = "spawn2" =>
    /\ forked <= waited + 1 /\ (phase # "main" => forked = waited)
    /\ \A i \in 1..waited : proc[i] \in {"running", "zombie"} => i \in timers
IInv == TypeOK /\ Watched /\ Ahead /\ Pending /\ (Program = "spawn2" => NoneLeft)

\* When the children have ended, so does spawn2.js, also when it may not wait.
NoneLives == phase = "loop" /\ Alive = {}
Ended == phase = "ended"
Ends == NoneLives ~> Ended

\* spawn.js ends every child it has forked, whatever became of waiting for it.
Looping == phase = "loop"
NoneRuns == Looping ~> (Alive = {})
=============================================================================
