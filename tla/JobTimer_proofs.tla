---------------------------- MODULE JobTimer_proofs ----------------------------
(***************************************************************************)
(* Proofs of JobTimer: that the phase never moves, that no interval has two *)
(* ticks, and that none passes the job by.                                 *)
(***************************************************************************)
EXTENDS JobTimer, TLAPS

\* A time on the phase.
Phased(t) == t \in Nat /\ OnPhase(t) = t

\* The point is the latest time on the phase some fire has passed, and out of a backoff the
\* timer is set for it, as at the start, or for the next one; the loop goes on after one.
PointInv ==
    /\ Phased(point) /\ point <= now
    /\ place = "idle" /\ ~backingOff => due = point \/ due = point + Interval
    /\ place # "idle" => ~backingOff

\* An ask is made at a time that has passed, and a tick is recorded at a time on the phase
\* before it started.
AskInv ==
    /\ place = "asking" => ask.at <= now /\ ask.phase = OnPhase(ask.at)
    /\ Phased(last) /\ last <= started /\ started <= now

\* A tick started, or a run or a wait reached into, t or later.
Since(t) == started >= t \/ busy >= t

\* With timers that fire on time: what is idle has ticked since its point, a timer already
\* due was set by what has just ended, and a backoff's is not passed by.
PunctualInv ==
    punctual =>
        /\ place = "idle" /\ ~backingOff => Since(point) /\ (now > due => Since(OnPhase(now)))
        /\ place = "idle" /\ backingOff => started >= point /\ now <= due
        /\ place = "asking" => Since(point) \/ ask.at = point
        /\ place = "asking" => busy = now \/ OnPhase(now) = point \/ ask.at = now
        /\ place = "running" => started >= point /\ (busy = now \/ started = now)

Inv == TypeOK /\ PointInv /\ AskInv /\ PunctualInv

-----------------------------------------------------------------------------
\* Times on the phase are an interval apart (schedule.go:335, 347).
LEMMA OnPhaseBounds ==
    ASSUME NEW t \in Nat
    PROVE  /\ OnPhase(t) \in Nat /\ OnPhase(t) <= t /\ t < OnPhase(t) + Interval
           /\ t \div Interval \in Nat /\ OnPhase(t) = (t \div Interval) * Interval
BY IntervalAssumption DEF OnPhase

\* A multiple of the interval less than an interval past another is not past it.
LEMMA Multiples ==
    ASSUME NEW j \in Nat, NEW k \in Nat, j * Interval < k * Interval + Interval
    PROVE  j * Interval <= k * Interval
<1>1. CASE j <= k
  BY <1>1, IntervalAssumption
<1>2. CASE j >= k + 1
  <2>1. (k + 1) * Interval <= j * Interval
    BY <1>2, IntervalAssumption
  <2>2. (k + 1) * Interval = k * Interval + Interval
    BY IntervalAssumption
  <2> QED BY <2>1, <2>2, IntervalAssumption
<1> QED BY <1>1, <1>2

\* So with times on the phase.
LEMMA Apart ==
    ASSUME NEW a, NEW b, Phased(a), Phased(b), a < b + Interval
    PROVE  a <= b
<1>1. a = (a \div Interval) * Interval /\ a \div Interval \in Nat
      /\ b = (b \div Interval) * Interval /\ b \div Interval \in Nat
  BY OnPhaseBounds DEF Phased
<1> DEFINE j == a \div Interval
           k == b \div Interval
<1>2. a = j * Interval /\ b = k * Interval /\ j \in Nat /\ k \in Nat
  BY <1>1
<1> HIDE DEF j, k
<1> QED BY <1>2, Multiples

\* The latest time on the phase is one.
LEMMA OnPhasePhased == ASSUME NEW t \in Nat PROVE Phased(OnPhase(t))
<1> DEFINE p == OnPhase(t)
<1>1. p \in Nat /\ p = (t \div Interval) * Interval /\ t \div Interval \in Nat
  BY OnPhaseBounds
<1>2. OnPhase(p) \in Nat /\ OnPhase(p) <= p /\ p < OnPhase(p) + Interval
      /\ OnPhase(p) = (p \div Interval) * Interval /\ p \div Interval \in Nat
  BY <1>1, OnPhaseBounds
<1> DEFINE j == t \div Interval
           k == p \div Interval
<1>3. p = j * Interval /\ OnPhase(p) = k * Interval /\ j \in Nat /\ k \in Nat
  BY <1>1, <1>2
<1> HIDE DEF j, k, p
<1>4. p <= OnPhase(p)
  BY <1>2, <1>3, Multiples
<1>5. OnPhase(p) = p
  BY <1>1, <1>2, <1>4
<1> QED BY <1>1, <1>5 DEF Phased, p

\* The next one is one too.
LEMMA NextPhased == ASSUME NEW a, Phased(a) PROVE Phased(a + Interval)
<1>1. a = (a \div Interval) * Interval /\ a \div Interval \in Nat
  BY OnPhaseBounds DEF Phased
<1> DEFINE j == a \div Interval
           b == a + Interval
<1>2. j \in Nat /\ a = j * Interval
  BY <1>1
<1>b. b \in Nat
  BY <1>2, IntervalAssumption
<1> HIDE DEF j, b
<1>3. b \in Nat /\ OnPhase(b) \in Nat /\ OnPhase(b) <= b /\ b < OnPhase(b) + Interval
      /\ OnPhase(b) = (b \div Interval) * Interval /\ b \div Interval \in Nat
  BY <1>b, OnPhaseBounds
<1> DEFINE k == b \div Interval
<1>4. OnPhase(b) = k * Interval /\ k \in Nat
  BY <1>3
<1> HIDE DEF k
<1>5. b = (j + 1) * Interval
  BY <1>2, IntervalAssumption DEF b
<1>6. b <= OnPhase(b)
  BY <1>2, <1>3, <1>4, <1>5, Multiples
<1>7. OnPhase(b) = b
  BY <1>3, <1>6
<1> QED BY <1>3, <1>7 DEF Phased, b

\* A time on the phase that has passed is not past the latest one.
LEMMA Latest ==
    ASSUME NEW a, Phased(a), NEW t \in Nat, a <= t
    PROVE  a <= OnPhase(t) /\ (t < a + Interval => OnPhase(t) = a)
<1>1. Phased(OnPhase(t)) /\ OnPhase(t) <= t /\ t < OnPhase(t) + Interval
  BY OnPhasePhased, OnPhaseBounds
<1>2. a \in Nat /\ OnPhase(t) \in Nat
  BY <1>1 DEF Phased
<1>3. a <= OnPhase(t)
  BY <1>1, <1>2, Apart, IntervalAssumption
<1>4. t < a + Interval => OnPhase(t) <= a
  BY <1>1, <1>2, Apart, IntervalAssumption
<1> QED BY <1>2, <1>3, <1>4

-----------------------------------------------------------------------------
\* A backoff lasts an instant at least, and no longer than the longest.
LEMMA Delay == \A n : After(n) \in 1..Most
<1> SUFFICES ASSUME NEW n PROVE After(n) \in 1..Most
  OBVIOUS
<1> DEFINE d == Base * 2^(n - 1)
<1>1. After(n) = IF d \in 1..Most THEN d ELSE Most
  BY DEF After
<1> HIDE DEF d
<1> QED BY <1>1, BackoffAssumption

\* The instants, as numbers.
LEMMA Numbers ==
    ASSUME TypeOK
    PROVE  /\ now \in Nat /\ point \in Nat /\ due \in Nat /\ last \in Nat /\ started \in Nat /\ busy \in Nat
           /\ ask.at \in Nat /\ ask.phase \in Nat /\ Interval \in Nat /\ Interval >= 1
           /\ OnPhase(now) \in Nat /\ OnPhase(now) <= now /\ now < OnPhase(now) + Interval
<1>1. /\ now \in Nat /\ point \in Nat /\ due \in Nat /\ last \in Nat /\ started \in Nat /\ busy \in Nat
      /\ ask.at \in Nat /\ ask.phase \in Nat /\ Interval \in Nat /\ Interval >= 1
  BY IntervalAssumption, BackoffAssumption, BoundAssumption DEF TypeOK, Instant
<1> QED BY <1>1, OnPhaseBounds

\* The initial state satisfies the invariant.
LEMMA InitInv == Init => Inv
<1> SUFFICES ASSUME Init PROVE Inv
  OBVIOUS
<1>1. TypeOK
  <2>1. 0 \in Instant /\ 0 \in 0..MaxTime /\ 0 \in 0..MaxFailures
    BY IntervalAssumption, BackoffAssumption, BoundAssumption DEF Instant
  <2> QED BY <2>1 DEF Init, TypeOK
<1>2. Phased(0)
  BY OnPhaseBounds, IntervalAssumption DEF Phased
<1>3. PointInv /\ AskInv /\ PunctualInv
  BY <1>2 DEF Init, PointInv, AskInv, PunctualInv, Since
<1> QED BY <1>1, <1>3 DEF Inv

\* Time passes: a timer the loop waits on is not late yet, or is counted as late from now on.
LEMMA PassStep == ASSUME Inv, Pass PROVE Inv'
<1>0. /\ now \in Nat /\ point \in Nat /\ due \in Nat /\ last \in Nat /\ started \in Nat /\ busy \in Nat
      /\ ask.at \in Nat
  BY Numbers DEF Inv
<1>1. now' = now + 1 /\ now < MaxTime /\ busy' = (IF place = "idle" THEN busy ELSE now')
      /\ UNCHANGED <<place, point, due, failures, backingOff, ask, ticked, last, started>>
  BY DEF Pass, timer, job
<1>2. punctual' => punctual /\ (place = "idle" => now < due)
  BY Zenon DEF Pass
<1>3. TypeOK'
  <2>1. punctual' \in BOOLEAN
    BY Zenon DEF Pass
  <2>2. now' \in 0..MaxTime /\ busy' \in 0..MaxTime
    BY <1>0, <1>1, BoundAssumption DEF Inv, TypeOK
  <2> QED BY <1>1, <2>1, <2>2 DEF Inv, TypeOK
<1>4. PointInv' /\ AskInv'
  BY <1>0, <1>1 DEF Inv, PointInv, AskInv, Phased, OnPhase
<1>5. PunctualInv'
  <2> SUFFICES ASSUME punctual'
      PROVE  /\ place = "idle" /\ ~backingOff => Since(point)' /\ (now' > due => Since(OnPhase(now))')
             /\ place = "idle" /\ backingOff => started >= point /\ now' <= due
             /\ place = "asking" => Since(point)' \/ ask.at = point
             /\ place = "asking" => busy' = now' \/ OnPhase(now)' = point \/ ask.at = now'
             /\ place = "running" => started >= point /\ (busy' = now' \/ started = now')
    BY <1>1 DEF PunctualInv
  <2>1. CASE place = "idle"
    <3>1. now < due /\ punctual /\ busy' = busy
      BY <1>1, <1>2, <2>1
    <3>2. Since(point) => Since(point)'
      BY <1>1, <3>1 DEF Since
    <3> QED BY <1>0, <1>1, <2>1, <3>1, <3>2 DEF Inv, PunctualInv
  <2>2. CASE place # "idle"
    <3>1. busy' = now' /\ punctual
      BY <1>1, <1>2, <2>2
    <3>2. Since(point) => Since(point)'
      BY <1>0, <1>1, <3>1 DEF Since, Inv, PointInv
    <3> QED BY <1>0, <1>1, <2>2, <3>1, <3>2 DEF Inv, PunctualInv
  <2> QED BY <2>1, <2>2
<1> QED BY <1>3, <1>4, <1>5 DEF Inv

\* The timer fires: on the phase at the latest time on it, which is when it was due or one
\* that what has just ended reached.
LEMMA FireStep == ASSUME Inv, Fire PROVE Inv'
<1>0. /\ now \in Nat /\ point \in Nat /\ due \in Nat /\ last \in Nat /\ started \in Nat /\ busy \in Nat
      /\ Interval \in Nat /\ Interval >= 1
      /\ OnPhase(now) \in Nat /\ OnPhase(now) <= now
  BY Numbers DEF Inv
<1>1. /\ place = "idle" /\ now >= due /\ place' = "asking" /\ ask' = [at |-> due, phase |-> OnPhase(due)]
      /\ backingOff' = FALSE /\ point' = (IF backingOff THEN point ELSE OnPhase(now))
      /\ UNCHANGED <<now, due, failures, ticked, last, started, busy, punctual>>
  BY DEF Fire, job
<1>2. OnPhase(due) \in Nat /\ OnPhase(due) <= due /\ Phased(OnPhase(now))
  BY <1>0, OnPhaseBounds, OnPhasePhased
<1>3. TypeOK'
  <2>1. due \in Instant /\ point \in Instant /\ now \in 0..MaxTime
    BY DEF Inv, TypeOK
  <2>2. OnPhase(due) \in Instant /\ OnPhase(now) \in Instant
    BY <1>0, <1>2, <2>1, BackoffAssumption, BoundAssumption DEF Instant
  <2> QED BY <1>1, <2>1, <2>2 DEF Inv, TypeOK
<1>4. PointInv' /\ AskInv'
  BY <1>0, <1>1, <1>2 DEF Inv, PointInv, AskInv, Phased, OnPhase
<1>5. PunctualInv'
  <2> SUFFICES ASSUME punctual
      PROVE  /\ Since(point)' \/ ask'.at = point'
             /\ busy = now \/ OnPhase(now)' = point' \/ ask'.at = now
    BY <1>1 DEF PunctualInv
  <2>1. CASE backingOff
    <3>1. started >= point /\ now = due /\ point' = point /\ ask'.at = due
      BY <1>0, <1>1, <2>1 DEF Inv, PunctualInv
    <3> QED BY <1>0, <1>1, <3>1 DEF Since
  <2>2. CASE ~backingOff
    <3>1. point' = OnPhase(now) /\ OnPhase(now)' = OnPhase(now) /\ ask'.at = due
      BY <1>1, <2>2 DEF OnPhase
    <3>2. CASE now > due
      <4>1. Since(OnPhase(now))
        BY <1>1, <2>2, <3>2 DEF Inv, PunctualInv
      <4> QED BY <1>1, <3>1, <4>1 DEF Since
    <3>3. CASE now = due
      <4>1. Phased(due)
        BY <1>1, <2>2, NextPhased DEF Inv, PointInv
      <4>2. OnPhase(now) = due
        BY <3>3, <4>1 DEF Phased
      <4> QED BY <3>1, <4>2
    <3> QED BY <1>0, <1>1, <3>2, <3>3
  <2> QED BY <2>1, <2>2
<1> QED BY <1>3, <1>4, <1>5 DEF Inv

\* A tick starts no earlier than its ask's time on the phase, nor than the point.
LEMMA TickStep == ASSUME Inv, Tick PROVE Inv'
<1>0. /\ now \in Nat /\ point \in Nat /\ ask.at \in Nat /\ ask.phase \in Nat
  BY Numbers DEF Inv
<1>1. /\ place = "asking" /\ place' = "running" /\ ticked' = TRUE /\ last' = ask.phase /\ started' = now
      /\ UNCHANGED <<now, point, due, failures, backingOff, ask, busy, punctual>>
  BY DEF Tick, timer
<1>2. Phased(ask.phase) /\ ask.phase <= now
  BY <1>0, <1>1, OnPhasePhased, OnPhaseBounds DEF Inv, AskInv
<1>3. TypeOK'
  BY <1>1 DEF Inv, TypeOK
<1>4. PointInv' /\ AskInv' /\ PunctualInv'
  BY <1>0, <1>1, <1>2 DEF Inv, PointInv, AskInv, PunctualInv, Phased, OnPhase
<1> QED BY <1>3, <1>4 DEF Inv

\* The timer is set for the time on the phase after the point.
LEMMA Rearmed ==
    ASSUME Inv, Rearm, UNCHANGED <<now, point>>
    PROVE  due' \in Instant /\ due' = point + Interval
<1>1. point <= now /\ now \in 0..MaxTime /\ point \in Nat
  BY Numbers DEF Inv, PointInv, TypeOK
<1>2. point + Interval \in Instant
  BY <1>1, IntervalAssumption, BackoffAssumption, BoundAssumption DEF Instant
<1> QED BY <1>2 DEF Rearm

\* A run that is not due comes after a tick of the ask's interval, or of a later one.
LEMMA NotDueStep == ASSUME Inv, NotDue PROVE Inv'
<1>0. /\ now \in Nat /\ point \in Nat /\ last \in Nat /\ started \in Nat /\ busy \in Nat
      /\ ask.at \in Nat /\ Interval \in Nat /\ Interval >= 1
      /\ OnPhase(now) \in Nat /\ OnPhase(now) <= now /\ now < OnPhase(now) + Interval
  BY Numbers DEF Inv
<1>1. /\ place = "asking" /\ place' = "idle" /\ Rearm /\ ticked /\ ask.at < last + Interval
      /\ UNCHANGED <<now, point, failures, backingOff, ask, ticked, last, started, busy, punctual>>
  BY <1>0 DEF NotDue, Decide, job
<1>2. due' = point + Interval /\ due' \in Instant
  BY <1>1, Rearmed
<1>3. TypeOK'
  BY <1>1, <1>2 DEF Inv, TypeOK
<1>4. PointInv' /\ AskInv'
  BY <1>1, <1>2 DEF Inv, PointInv, AskInv, Phased, OnPhase
<1>5. PunctualInv'
  <2>1. Phased(last) /\ Phased(point) /\ Phased(OnPhase(now)) /\ last <= started /\ point <= now
    BY <1>0, OnPhasePhased DEF Inv, AskInv, PointInv
  <2>2. ASSUME punctual
        PROVE  Since(point) /\ (now > due' => Since(OnPhase(now)))
    <3>1. Since(point) \/ ask.at = point
      BY <1>1, <2>2 DEF Inv, PunctualInv
    <3>2. ask.at = point => started >= point
      <4>1. ask.at = point => point <= last
        BY <1>1, <2>1, Apart
      <4> QED BY <1>0, <2>1, <4>1
    <3>3. busy = now \/ OnPhase(now) = point \/ ask.at = now
      BY <1>1, <2>2 DEF Inv, PunctualInv
    <3>4. ask.at = now => started >= OnPhase(now)
      <4>1. ask.at = now => OnPhase(now) < last + Interval
        BY <1>0, <1>1
      <4>2. ask.at = now => OnPhase(now) <= last
        BY <2>1, <4>1, Apart
      <4> QED BY <1>0, <2>1, <4>2
    <3>5. now > due' => OnPhase(now) # point
      BY <1>0, <1>2
    <3> QED BY <1>0, <3>1, <3>2, <3>3, <3>4, <3>5 DEF Since
  <2>3. ~backingOff
    BY <1>1 DEF Inv, PointInv
  <2> QED BY <1>1, <2>2, <2>3 DEF PunctualInv, Since, OnPhase
<1> QED BY <1>3, <1>4, <1>5 DEF Inv

\* A tick succeeds.
LEMMA SucceedStep == ASSUME Inv, Succeed PROVE Inv'
<1>0. /\ now \in Nat /\ point \in Nat /\ started \in Nat /\ busy \in Nat
      /\ OnPhase(now) \in Nat /\ OnPhase(now) <= now
  BY Numbers DEF Inv
<1>1. /\ place = "running" /\ place' = "idle" /\ Rearm /\ failures' = 0
      /\ UNCHANGED <<now, point, backingOff, ask, ticked, last, started, busy, punctual>>
  BY DEF Succeed, job
<1>2. due' = point + Interval /\ due' \in Instant
  BY <1>1, Rearmed
<1>3. TypeOK'
  BY <1>1, <1>2, BoundAssumption DEF Inv, TypeOK
<1>4. PointInv' /\ AskInv'
  BY <1>1, <1>2 DEF Inv, PointInv, AskInv, Phased, OnPhase
<1>5. PunctualInv'
  <2>1. ~backingOff
    BY <1>1 DEF Inv, PointInv
  <2>2. punctual => started >= point /\ (busy = now \/ started = now)
    BY <1>1 DEF Inv, PunctualInv
  <2>3. punctual => Since(point) /\ Since(OnPhase(now))
    BY <1>0, <2>2 DEF Since
  <2> QED BY <1>1, <2>1, <2>3 DEF PunctualInv, Since, OnPhase
<1> QED BY <1>3, <1>4, <1>5 DEF Inv

\* A tick fails, and its backoff ends later.
LEMMA FailStep == ASSUME Inv, Fail PROVE Inv'
<1>0. now \in 0..MaxTime /\ point \in Nat /\ started \in Nat
  BY Numbers DEF Inv, TypeOK
<1>1. /\ place = "running" /\ place' = "idle" /\ backingOff' = TRUE
      /\ failures' = Lesser(failures + 1, MaxFailures) /\ due' = now + After(failures')
      /\ UNCHANGED <<now, point, ask, ticked, last, started, busy, punctual>>
  BY DEF Fail, job
<1>2. due' \in Instant /\ due' > now
  <2>1. After(failures') \in 1..Most
    BY Delay
  <2> QED BY <1>0, <1>1, <2>1, IntervalAssumption, BackoffAssumption, BoundAssumption DEF Instant
<1>3. TypeOK'
  <2>1. failures' \in 0..MaxFailures
    BY <1>1, BoundAssumption DEF Inv, TypeOK, Lesser
  <2> QED BY <1>1, <1>2, <2>1 DEF Inv, TypeOK
<1>4. PointInv' /\ AskInv'
  BY <1>1 DEF Inv, PointInv, AskInv, Phased, OnPhase
<1>5. PunctualInv'
  BY <1>0, <1>1, <1>2 DEF Inv, PunctualInv
<1> QED BY <1>3, <1>4, <1>5 DEF Inv

\* Every step keeps the invariant.
LEMMA StepInv == Inv /\ [Next]_vars => Inv'
<1>1. Inv /\ UNCHANGED vars => Inv'
  BY DEF vars, timer, job, Inv, TypeOK, PointInv, AskInv, PunctualInv, Since, Phased, OnPhase
<1> QED BY <1>1, PassStep, FireStep, TickStep, NotDueStep, SucceedStep, FailStep DEF Next

LEMMA Invariant == Spec => []Inv
BY InitInv, StepInv, PTL DEF Spec

-----------------------------------------------------------------------------
\* Every variable keeps its type, for any interval, backoff and bounds.
THEOREM TypeCorrect == Spec => []TypeOK
<1>1. Inv => TypeOK
  BY DEF Inv
<1> QED BY <1>1, Invariant, PTL

\* The phase never moves, however late a timer fires and however long a run, a wait or a
\* backoff takes (schedule.go:332-336, 367).
THEOREM PhaseCorrect == Spec => []PhaseKept
<1>1. Inv => PhaseKept
  <2> SUFFICES ASSUME Inv, place = "idle", ~backingOff
      PROVE  due = OnPhase(due) /\ due <= OnPhase(now) + Interval
    BY DEF PhaseKept
  <2>1. Phased(point) /\ point <= now /\ (due = point \/ due = point + Interval)
    BY DEF Inv, PointInv
  <2>2. now \in Nat /\ point \in Nat /\ OnPhase(now) \in Nat /\ Interval \in Nat
    BY Numbers DEF Inv
  <2>3. Phased(due)
    BY <2>1, NextPhased
  <2>4. point <= OnPhase(now)
    BY <2>1, <2>2, Latest
  <2> QED BY <2>1, <2>2, <2>3, <2>4 DEF Phased
<1> QED BY <1>1, Invariant, PTL

\* No interval of the phase has two ticks recorded in it (due.go:15-17, deltasync.go:251-259).
THEOREM OneTickCorrect == Spec => OneTickAnInterval
<1> DEFINE Later == place' = "running" /\ place # "running" /\ ticked => last' >= last + Interval
<1>1. Inv /\ [Next]_vars => Later
  <2> SUFFICES ASSUME Inv, [Next]_vars, place' = "running", place # "running", ticked
      PROVE  last' >= last + Interval
    OBVIOUS
  <2>1. Tick
    BY DEF Next, vars, Pass, Fire, NotDue, Succeed, Fail
  <2>2. ask.at >= last + Interval /\ last' = OnPhase(ask.at) /\ Phased(last)
    BY <2>1 DEF Tick, Decide, Inv, AskInv
  <2>3. ask.at \in Nat
    BY Numbers DEF Inv
  <2>4. Phased(last + Interval)
    BY <2>2, NextPhased
  <2>5. last + Interval <= OnPhase(ask.at)
    BY <2>2, <2>3, <2>4, Latest
  <2>6. last \in Nat /\ Interval \in Nat /\ OnPhase(ask.at) \in Nat
    BY <2>2, <2>3, OnPhaseBounds, IntervalAssumption DEF Phased
  <2> QED BY <2>2, <2>5, <2>6
<1> QED BY <1>1, Invariant, PTL DEF Spec, OneTickAnInterval

\* With timers that fire on time, no interval passes in which no tick started and into which
\* no run and no wait for a slot reached (schedule.go:332-336, 342-373, due.go:15-17).
THEOREM TickedCorrect == Spec => []TickedThisInterval
<1>1. Inv => TickedThisInterval
  <2> SUFFICES ASSUME Inv, punctual, place = "idle", ~backingOff, now < due
      PROVE  Since(OnPhase(now))
    BY DEF TickedThisInterval, BetweenTimes, Since
  <2>1. now \in Nat /\ point \in Nat /\ due \in Nat /\ Interval \in Nat
    BY Numbers DEF Inv
  <2>2. Phased(point) /\ point <= now /\ (due = point \/ due = point + Interval)
    BY DEF Inv, PointInv
  <2>3. OnPhase(now) = point
    BY <2>1, <2>2, Latest
  <2> QED BY <2>3 DEF Inv, PunctualInv
<1> QED BY <1>1, Invariant, PTL

=============================================================================
