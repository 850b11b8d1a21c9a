----------------------------- MODULE BenchMeter -----------------------------
(***************************************************************************)
(* The meters of lib/bench.mjs and fs/lib/bench.mjs on Linux: Bench and    *)
(* measure take the time at their start and report, at their end, the      *)
(* processor time since the last call of cputime(), which they and         *)
(* Stats.log share.  Their calls read the clock and the processor time one *)
(* after the other, and all threads of the process run on in between.      *)
(*                                                                         *)
(* What is compared is the processor time used between two readings, so a  *)
(* reading of the clock is the processor time used until then.             *)
(***************************************************************************)
EXTENDS Integers

CONSTANTS
  Timed,     \* fs/lib/bench.mjs, whose cputime() reads the clock as well
  MaxCpu     \* bound of the processor time

MeterAssumption == Timed \in BOOLEAN /\ MaxCpu \in Nat

VARIABLES
  cpu,                 \* the processor time the process has used
  lastcpu, last_time,  \* of the last call of cputime
  caller, next,        \* who is being called, "none" at other times, and its next reading
  start,               \* the reading of the clock that Bench and measure began with
  called,              \* the processor time when measure.start was called
  taken,               \* whether cputime was called since their start
  before, inside,      \* processor time used inside the last two calls of cputime
  report

vars == <<cpu, lastcpu, last_time, caller, next, start, called, taken, before, inside, report>>

Timers == {"bench", "measure"}

\* Of a call: the processor time it gives, that used within its own readings of
\* the clock, within those of cputime, and until its end since measure.start was
\* called; whether another call has taken part of the first.
NoReport == [by |-> "none", used |-> 0, own |-> 0, of |-> 0, whole |-> 0, taken |-> TRUE]

\* The module is being loaded: fs/lib and lo call cputime then, lib has a lastusr
\* of 0 elsewhere.
Init ==
  /\ cpu \in 0..1 /\ lastcpu \in 0..cpu
  /\ last_time \in IF Timed THEN lastcpu..cpu ELSE {lastcpu}
  /\ caller = "none" /\ next = "none" /\ called = 0
  /\ start = [m \in Timers |-> -1] /\ taken = [m \in Timers |-> TRUE]
  /\ before = 0 /\ inside = last_time - lastcpu /\ report = NoReport

\* Any thread of the process runs, between any two readings.
Work ==
  /\ cpu < MaxCpu /\ cpu' = cpu + 1
  /\ inside' = IF next \in {"elapsed", "last"} THEN inside + 1 ELSE inside
  /\ UNCHANGED <<lastcpu, last_time, caller, next, start, called, taken, before, report>>

-----------------------------------------------------------------------------
(* cputime.                                                                *)

\* Faulty variant: the processor time of this call is not kept for the next.
StatLost ==
  /\ next = "stat" /\ next' = IF Timed THEN "elapsed" ELSE "return"
  /\ report' = [NoReport EXCEPT !.used = cpu - lastcpu, !.own = report.own,
                                !.taken = caller \in Timers => taken[caller]]
  /\ taken' = [m \in Timers |-> TRUE] /\ before' = inside /\ inside' = 0
  /\ UNCHANGED <<cpu, lastcpu, last_time, caller, start, called>>

\* /proc/self/stat is read.
Stat ==
  /\ next = "stat" /\ next' = IF Timed THEN "elapsed" ELSE "return"
  /\ lastcpu' = cpu
  /\ report' = [NoReport EXCEPT !.used = cpu - lastcpu, !.own = report.own,
                                !.taken = caller \in Timers => taken[caller]]
  /\ taken' = [m \in Timers |-> TRUE] /\ before' = inside /\ inside' = 0
  /\ UNCHANGED <<cpu, last_time, caller, start, called>>

\* The clock is read for the time that the processor time is a share of ...
Elapsed ==
  /\ next = "elapsed" /\ next' = "last"
  /\ report' = [report EXCEPT !.of = cpu - last_time]
  /\ UNCHANGED <<cpu, lastcpu, last_time, caller, start, called, taken, before, inside>>

\* Faulty variant: the time stays that of the call before.
LastTimeKept ==
  /\ next = "last" /\ next' = "return"
  /\ UNCHANGED <<cpu, lastcpu, last_time, caller, start, called, taken, before, inside, report>>

\* ... and once more, for the next call.
LastTime ==
  /\ next = "last" /\ next' = "return" /\ last_time' = cpu
  /\ UNCHANGED <<cpu, lastcpu, caller, start, called, taken, before, inside, report>>

-----------------------------------------------------------------------------
(* Its callers, which do not interrupt one another.                        *)

BenchStart ==
  /\ caller = "none"
  /\ start' = [start EXCEPT !["bench"] = cpu] /\ taken' = [taken EXCEPT !["bench"] = FALSE]
  /\ UNCHANGED <<cpu, lastcpu, last_time, caller, next, called, before, inside, report>>

\* Faulty variant: the processor time is not taken at the start.
StartLate == caller' = "start" /\ next' = "return" /\ called' = cpu

\* measure.start
Start == caller' = "start" /\ next' = "stat" /\ called' = cpu

MeasureStart ==
  /\ caller = "none" /\ Start
  /\ UNCHANGED <<cpu, lastcpu, last_time, start, taken, before, inside, report>>

\* Bench.end and measure.log read the clock first.
End(m) ==
  /\ caller = "none" /\ start[m] # -1
  /\ caller' = m /\ next' = "stat"
  /\ report' = [NoReport EXCEPT !.own = cpu - start[m]]
  /\ UNCHANGED <<cpu, lastcpu, last_time, start, called, taken, before, inside>>

StatsLog ==
  /\ caller = "none" /\ caller' = "stats" /\ next' = "stat"
  /\ UNCHANGED <<cpu, lastcpu, last_time, start, called, taken, before, inside, report>>

\* measure.start reads the clock last; measure.log begins the next measurement.
Return ==
  /\ next = "return"
  /\ report' = [report EXCEPT !.by = caller, !.whole = cpu - called]
  /\ IF caller = "measure" THEN Start ELSE caller' = "none" /\ next' = "none" /\ UNCHANGED called
  /\ IF caller = "start"
     THEN /\ start' = [start EXCEPT !["measure"] = cpu]
          /\ taken' = [taken EXCEPT !["measure"] = FALSE]
     ELSE UNCHANGED <<start, taken>>
  /\ UNCHANGED <<cpu, lastcpu, last_time, before, inside>>

Next ==
  \/ Work \/ Stat \/ Elapsed \/ LastTime \/ BenchStart \/ MeasureStart \/ StatsLog \/ Return
  \/ \E m \in Timers : End(m)
Spec == Init /\ [][Next]_vars

-----------------------------------------------------------------------------
\* A report leaves out nothing that was used while it took the time, unless
\* another call of cputime has taken a part of it.
Covers == report.by \in Timers /\ ~report.taken => report.own <= report.used

\* What measure reports was used after its start was called.
OwnTime == report.by = "measure" /\ ~report.taken => report.used <= report.whole

\* In fs/lib, whoever calls: the processor time and the time it is a share of
\* differ by what was used inside of this call of cputime and the last one.
Shares == Timed /\ report.by # "none" => report.used - report.of \in (-inside)..before

Metered == Covers /\ OwnTime /\ Shares

-----------------------------------------------------------------------------
(* The invariant behind Metered.                                           *)

Callers == Timers \cup {"start", "stats", "none"}
Reading == next \in {"elapsed", "last", "return"}

Typed ==
  /\ {cpu, lastcpu, last_time, called, before, inside} \subseteq Nat
  /\ lastcpu <= cpu /\ last_time <= cpu /\ called <= cpu
  /\ start \in [Timers -> Nat \cup {-1}] /\ taken \in [Timers -> BOOLEAN]
  /\ report \in [by: Callers, used: Nat, own: Int, of: Int, whole: Int, taken: BOOLEAN]
  /\ caller \in Callers
  /\ caller = "none" <=> next = "none"
  /\ next # "none" => next = "stat" \/ Reading

\* Since a meter was started no call of cputime has taken its time away.
Begun ==
  /\ \A m \in Timers : ~taken[m] => lastcpu <= start[m] /\ start[m] <= cpu
  /\ caller \in Timers => start[caller] # -1
  /\ ~taken["measure"] /\ caller # "start" => called <= lastcpu
  /\ caller = "start" /\ Reading => called <= lastcpu

\* The call of cputime, as far as it got.
Called ==
  /\ caller \in Timers /\ next = "stat" => report.own <= cpu - start[caller]
  /\ caller \in Timers /\ Reading /\ ~report.taken => report.own <= report.used
  /\ caller = "measure" /\ Reading /\ ~report.taken => report.used <= lastcpu - called

\* What was used inside of the call, and of the one before.
Inside ==
  Timed =>
    /\ inside = (IF next \in {"elapsed", "last"} THEN cpu ELSE last_time) - lastcpu
    /\ next = "elapsed" => report.used = lastcpu - last_time + before
    /\ next \in {"last", "return"} => report.used - report.of \in (-inside)..before

IInv == Typed /\ Begun /\ Called /\ Inside /\ Metered
=============================================================================
