------------------------------- MODULE JobTimer -------------------------------
(***************************************************************************)
(* When an account's delta sync ticks: the timer of its scheduler loop     *)
(* (worker/internal/schedule, loop) together with the job's own due        *)
(* decision (worker/internal/deltasync, job; core/deltasync/due, Decide).  *)
(*                                                                         *)
(* Time counts from the loop's anchor.  A timer may fire late, a slot of   *)
(* the kind's limit may be waited for, and a run may take any time.  What  *)
(* ends the loop and what wakes it are left to Scheduler: nothing wakes an *)
(* account's delta sync.                                                   *)
(***************************************************************************)
EXTENDS Naturals

CONSTANTS
    Interval,    \* the sync interval
    Base, Most,  \* the backoff's first delay and its longest
    MaxTime,     \* bound: the latest instant
    MaxFailures  \* bound: the consecutive failures told apart

ASSUME IntervalAssumption == Interval \in Nat \ {0}
ASSUME BackoffAssumption == Base \in Nat \ {0} /\ Most \in Nat \ {0}
ASSUME BoundAssumption == MaxTime \in Nat /\ MaxFailures \in Nat \ {0}

VARIABLES
    now,        \* the time
    place,      \* where the loop is: in its select, taking a slot, or in a run
    point,      \* the latest time on the phase the timer has answered
    due,        \* when the timer next fires
    failures,   \* the consecutive failed runs
    backingOff, \* the timer is at the end of a backoff
    ask,        \* the ask the loop is making
    ticked,     \* the job has ticked since the process started
    last,       \* the time on the phase its latest tick is recorded at
    started,    \* when its latest tick started
    busy,       \* history: the latest instant a run or a wait for a slot has reached
    punctual    \* history: no timer the loop waits on has fired late so far

timer == <<point, due, failures, backingOff>>
job   == <<ticked, last, started>>
vars  == <<now, place, timer, ask, job, busy, punctual>>

OnPhase(t) == (t \div Interval) * Interval
Lesser(a, b) == IF a < b THEN a ELSE b

\* Backoff.after: Base doubled with each failure after the first, up to Most.
After(n) == IF Base * 2^(n - 1) \in 1..Most THEN Base * 2^(n - 1) ELSE Most

Instant == 0..(MaxTime + IF Most > Interval THEN Most ELSE Interval)

TypeOK ==
    /\ now \in 0..MaxTime
    /\ place \in {"idle", "asking", "running"}
    /\ point \in Instant /\ due \in Instant /\ failures \in 0..MaxFailures
    /\ backingOff \in BOOLEAN
    /\ ask \in [at: Instant, phase: Instant]
    /\ ticked \in BOOLEAN /\ last \in Instant
    /\ started \in 0..MaxTime /\ busy \in 0..MaxTime
    /\ punctual \in BOOLEAN

Init ==
    /\ now = 0 /\ place = "idle"
    /\ point = 0 /\ due = 0 /\ failures = 0 /\ backingOff = FALSE
    /\ ask = [at |-> 0, phase |-> 0]
    /\ ticked = FALSE /\ last = 0 /\ started = 0 /\ busy = 0
    /\ punctual = TRUE

Pass ==
    /\ now < MaxTime
    /\ now' = now + 1
    /\ punctual' = (punctual /\ (place = "idle" => now < due))
    /\ busy' = IF place = "idle" THEN busy ELSE now'
    /\ UNCHANGED <<place, timer, ask, job>>

\* The timer fires, and the ask is made at the time it was due. One on the phase
\* answers the latest time on it that has passed.
Fire ==
    /\ place = "idle" /\ now >= due
    /\ place' = "asking"
    /\ ask' = [at |-> due, phase |-> OnPhase(due)]
    /\ backingOff' = FALSE
    /\ point' = IF backingOff THEN point ELSE OnPhase(now)
    /\ UNCHANGED <<now, due, failures, job, busy, punctual>>

\* Mutants: a failed tick is made again before its interval has passed, and one
\* that is due is not made until an instant later.
DecideRetrying(at) == ticked /\ failures = 0 => at >= last + Interval
DecideLater(at) == ticked => at > last + Interval

\* due.Decide: an interval has passed since the time the last tick is recorded at.
Decide(at) == ticked => at >= last + Interval

\* The job's run ticks, recorded at its ask's time on the phase.
Tick ==
    /\ place = "asking" /\ Decide(ask.at)
    /\ place' = "running"
    /\ ticked' = TRUE /\ last' = ask.phase /\ started' = now
    /\ UNCHANGED <<now, timer, ask, busy, punctual>>

\* Mutant: the interval is counted from the run's end.
RearmFromNow == due' = now + Interval

\* The loop sets its timer for the time on the phase after the one it answered.
Rearm == due' = point + Interval

\* A run that is not due keeps the failures.
NotDue ==
    /\ place = "asking" /\ ~Decide(ask.at)
    /\ place' = "idle"
    /\ Rearm
    /\ UNCHANGED <<now, point, failures, backingOff, ask, job, busy, punctual>>

Succeed ==
    /\ place = "running"
    /\ place' = "idle"
    /\ failures' = 0
    /\ Rearm
    /\ UNCHANGED <<now, point, backingOff, ask, job, busy, punctual>>

Fail ==
    /\ place = "running"
    /\ place' = "idle"
    /\ failures' = Lesser(failures + 1, MaxFailures)
    /\ backingOff' = TRUE
    /\ due' = now + After(failures')
    /\ UNCHANGED <<now, point, ask, job, busy, punctual>>

Next == Pass \/ Fire \/ Tick \/ NotDue \/ Succeed \/ Fail

Spec == Init /\ [][Next]_vars

-----------------------------------------------------------------------------
\* The phase never moves: out of a backoff the timer is set for a time on it, and
\* for no later one than the next, whatever a run, a wait or a backoff took
\* (schedule.go:332-336, 368).
PhaseKept ==
    place = "idle" /\ ~backingOff => due = OnPhase(due) /\ due <= OnPhase(now) + Interval

\* A tick that failed waits for the next interval as every tick does: no interval
\* of the phase has two ticks recorded in it, retries at a backoff's end included
\* (due.go:8-19, deltasync.go:251-259).
OneTickAnInterval ==
    [][place' = "running" /\ place # "running" /\ ticked => last' >= last + Interval]_vars

\* Between two times on the phase the job is idle, its timer waiting for the next.
BetweenTimes == place = "idle" /\ ~backingOff /\ now < due

\* No interval passes a job by: with timers that fire on time, while its timer
\* waits for the next time on the phase a tick started in the interval the time is
\* in, or a run or a wait for a slot reached into it (schedule.go:332-336, 342-373,
\* due.go:15-19).
TickedThisInterval ==
    punctual /\ BetweenTimes => started >= OnPhase(now) \/ busy >= OnPhase(now)

=============================================================================
