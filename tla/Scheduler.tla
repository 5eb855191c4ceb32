------------------------------ MODULE Scheduler ------------------------------
(***************************************************************************)
(* The worker's scheduler (worker/internal/schedule): the loops it runs,   *)
(* one for each time a job was ensured, the goroutines that call Ensure,   *)
(* Remove, Wake and Stop, and the series its observer keeps.               *)
(*                                                                         *)
(* An action is what a goroutine does between two points where another can *)
(* come between with an effect.  Time is left out: an armed timer fires at *)
(* any moment.  The callers of Ensure and Remove are the reloads' runs, as *)
(* in the worker, so Stop's WaitGroup counts each of them too.             *)
(***************************************************************************)
EXTENDS Naturals, FiniteSets

CONSTANTS
    Key,      \* the jobs' keys
    Kind,     \* the job kinds
    KindOf,   \* each key's job kind
    SlotsOf,  \* each kind's limit of runs at once
    Limited,  \* the keys whose runs hold their kind's limit
    Timed,    \* the keys whose jobs have an interval
    Caller,   \* the runs that ensure and remove jobs
    Waker,    \* the goroutines that wake jobs
    Nobody,   \* the holder of the scheduler's lock when it is free
    MaxLoops  \* bound: loops ever started

ASSUME KeyAssumption == KindOf \in [Key -> Kind] /\ Limited \subseteq Key /\ Timed \subseteq Key
ASSUME SlotAssumption == IsFiniteSet(Kind) /\ SlotsOf \in [Kind -> Nat \ {0}]
ASSUME CallerAssumption == Nobody \notin Caller \cup Key /\ Caller \cap Waker = {}
ASSUME LoopBound == MaxLoops \in Nat

VARIABLES
    ended,    \* the scheduler's context has ended
    stop,     \* the worker's one call of Stop
    holder,   \* who holds the scheduler's lock between two steps
    call,     \* the call each caller and waker is inside
    jobs,     \* the state each key maps to, named by its loop, and 0 for none
    made,     \* the loops started so far, numbered from 1
    keyOf,    \* the key each loop runs
    previous, \* the loop each one waits for before it begins, and 0 for none
    at,       \* where each loop is
    loop,     \* the rest of each loop's state
    held,     \* the slots of each kind's limit that are taken
    shown     \* each key's series: the loop that last set them and two of their gauges

calls  == <<ended, stop, holder, call>>
states == <<jobs, made, keyOf, previous>>
vars   == <<calls, states, at, loop, held, shown>>

Loop == 1..MaxLoops
Places == {"none", "starting", "idle", "fired", "queueing", "ready", "running", "returned"}

\* token is the wake channel's one element, and owed, which no code reads,
\* that a wake was sent and no run has started since.
LoopState == [removing: BOOLEAN, cancelled: BOOLEAN, token: BOOLEAN,
              armed: BOOLEAN, backingOff: BOOLEAN, owed: BOOLEAN]
Calls == [op: {"none", "ensure", "cancel", "await", "send", "over"},
          key: Key \cup {Nobody}, loop: 0..MaxLoops]
NoCall == [op |-> "none", key |-> Nobody, loop |-> 0]
Series == [by: 0..MaxLoops, waiting: BOOLEAN, backoff: BOOLEAN]
SeriesBy(l) == [by |-> l, waiting |-> FALSE, backoff |-> FALSE]
NoSeries == SeriesBy(0)

TypeOK ==
    /\ ended \in BOOLEAN /\ stop \in {"no", "waiting", "returned"}
    /\ holder \in Caller \cup {Nobody}
    /\ call \in [Caller \cup Waker -> Calls]
    /\ jobs \in [Key -> 0..MaxLoops]
    /\ made \in 0..MaxLoops
    /\ keyOf \in [Loop -> Key \cup {Nobody}]
    /\ previous \in [Loop -> 0..MaxLoops]
    /\ at \in [Loop -> Places]
    /\ loop \in [Loop -> LoopState]
    /\ held \in [Kind -> Nat]
    /\ shown \in [Key -> Series]

Init ==
    /\ ended = FALSE /\ stop = "no" /\ holder = Nobody
    /\ call = [c \in Caller \cup Waker |-> NoCall]
    /\ jobs = [k \in Key |-> 0] /\ made = 0
    /\ keyOf = [l \in Loop |-> Nobody] /\ previous = [l \in Loop |-> 0]
    /\ at = [l \in Loop |-> "none"]
    /\ loop = [l \in Loop |-> [removing |-> FALSE, cancelled |-> FALSE, token |-> FALSE,
                               armed |-> FALSE, backingOff |-> FALSE, owed |-> FALSE]]
    /\ held = [d \in Kind |-> 0]
    /\ shown = [k \in Key |-> NoSeries]

-----------------------------------------------------------------------------
(* Ensure, Remove, Wake and Stop. *)

Free == holder = Nobody
Idle(c) == call[c].op = "none"
Enter(c, op, k, l) == call' = [call EXCEPT ![c] = [op |-> op, key |-> k, loop |-> l]]
Leave(c) == call' = [call EXCEPT ![c] = NoCall]

\* Ensure takes the lock and sees the context alive and the key free, or its
\* state being removed. Otherwise it changes nothing.
EnsureChecked(c, k) ==
    /\ Idle(c) /\ Free /\ ~ended /\ made < MaxLoops
    /\ jobs[k] # 0 => loop[jobs[k]].removing
    /\ holder' = c
    /\ Enter(c, "ensure", k, 0)
    /\ UNCHANGED <<ended, stop, states, at, loop, held, shown>>

\* It gives the key a state, starts its loop, and lets the lock go.
EnsureStarted(c) ==
    LET k == call[c].key  l == made + 1 IN
    /\ call[c].op = "ensure"
    /\ made' = l
    /\ jobs' = [jobs EXCEPT ![k] = l]
    /\ keyOf' = [keyOf EXCEPT ![l] = k]
    /\ previous' = [previous EXCEPT ![l] = jobs[k]]
    /\ at' = [at EXCEPT ![l] = "starting"]
    /\ shown' = [shown EXCEPT ![k] = SeriesBy(l)]
    /\ holder' = Nobody
    /\ Leave(c)
    /\ UNCHANGED <<ended, stop, loop, held>>

\* Remove marks the key's state under the lock.
RemoveMarked(c, k) ==
    /\ Idle(c) /\ Free /\ jobs[k] # 0
    /\ loop' = [loop EXCEPT ![jobs[k]].removing = TRUE]
    /\ Enter(c, "cancel", k, jobs[k])
    /\ UNCHANGED <<ended, stop, holder, states, at, held, shown>>

\* Mutant: the loop's context is left alone.
RemoveUncancelled(c) ==
    /\ call[c].op = "cancel"
    /\ Enter(c, "await", call[c].key, call[c].loop)
    /\ UNCHANGED <<ended, stop, holder, states, at, loop, held, shown>>

\* It cancels the loop's context.
RemoveCancelled(c) ==
    /\ call[c].op = "cancel"
    /\ loop' = [loop EXCEPT ![call[c].loop].cancelled = TRUE]
    /\ Enter(c, "await", call[c].key, call[c].loop)
    /\ UNCHANGED <<ended, stop, holder, states, at, held, shown>>

\* Once the loop has returned, it takes the key and its series away, unless a
\* job ensured meanwhile holds the key.
RemoveReturned(c) ==
    LET k == call[c].key  l == call[c].loop IN
    /\ call[c].op = "await" /\ at[l] = "returned" /\ Free
    /\ IF jobs[k] = l
       THEN /\ jobs' = [jobs EXCEPT ![k] = 0]
            /\ shown' = [shown EXCEPT ![k] = NoSeries]
       ELSE UNCHANGED <<jobs, shown>>
    /\ Leave(c)
    /\ UNCHANGED <<ended, stop, holder, made, keyOf, previous, at, loop, held>>

\* Wake reads the key's state under the lock.
WakeRead(w, k) ==
    /\ Idle(w) /\ Free /\ jobs[k] # 0 /\ ~loop[jobs[k]].removing
    /\ Enter(w, "send", k, jobs[k])
    /\ UNCHANGED <<ended, stop, holder, states, at, loop, held, shown>>

\* It sends to the state's channel, whose one element stands for every wake.
WakeSent(w) ==
    /\ call[w].op = "send"
    /\ loop' = [loop EXCEPT ![call[w].loop].token = TRUE, ![call[w].loop].owed = TRUE]
    /\ Leave(w)
    /\ UNCHANGED <<ended, stop, holder, states, at, held, shown>>

\* A reload's run returns once its context has ended, and its loop with it.
CallerReturns(c) ==
    /\ ended /\ Idle(c)
    /\ Enter(c, "over", Nobody, 0)
    /\ UNCHANGED <<ended, stop, holder, states, at, loop, held, shown>>

\* The worker's context ends, and every loop's with it.
ContextEnds ==
    /\ ~ended
    /\ ended' = TRUE
    /\ UNCHANGED <<stop, holder, call, states, at, loop, held, shown>>

\* The worker calls Stop then, and Stop waits for all the WaitGroup counts.
StopCalled ==
    /\ stop = "no" /\ ended
    /\ stop' = "waiting"
    /\ UNCHANGED <<ended, holder, call, states, at, loop, held, shown>>

\* Mutant: the runs that call Ensure are not waited for.
LoopsReturned == \A l \in Loop : at[l] \in {"none", "returned"}

AllReturned ==
    /\ \A l \in Loop : at[l] \in {"none", "returned"}
    /\ \A c \in Caller : call[c].op = "over"

StopReturned ==
    /\ stop = "waiting" /\ AllReturned
    /\ stop' = "returned"
    /\ UNCHANGED <<ended, holder, call, states, at, loop, held, shown>>

-----------------------------------------------------------------------------
(* A loop. *)

\* Mutant: the loop's context is not the scheduler's.
DoneRemoved(l) == loop[l].cancelled

Done(l) == ended \/ loop[l].cancelled
GoTo(l, place) == at' = [at EXCEPT ![l] = place]

\* Mutant: every report reaches the key's series.
ReportUnowned(l, series) == Free /\ shown' = [shown EXCEPT ![keyOf[l]] = series]

\* owned: a report reaches the key's series while the loop's state has the key.
Report(l, series) ==
    /\ Free
    /\ shown' = IF jobs[keyOf[l]] = l THEN [shown EXCEPT ![keyOf[l]] = series] ELSE shown
Now(l) == [shown[keyOf[l]] EXCEPT !.by = l]

\* Mutant: the removed loop before it is not waited for.
BeginAtOnce(l) ==
    /\ at[l] = "starting"
    /\ GoTo(l, "idle")
    /\ loop' = [loop EXCEPT ![l].armed = TRUE]
    /\ UNCHANGED <<calls, states, held, shown>>

\* The loop begins once the removed loop before it has returned.
Begin(l) ==
    /\ at[l] = "starting"
    /\ previous[l] # 0 => at[previous[l]] = "returned"
    /\ GoTo(l, "idle")
    /\ loop' = [loop EXCEPT ![l].armed = TRUE]
    /\ UNCHANGED <<calls, states, held, shown>>

\* The loop's select: any of its branches that is ready.
SeeDone(l) ==
    /\ at[l] = "idle" /\ Done(l)
    /\ GoTo(l, "returned")
    /\ UNCHANGED <<calls, states, loop, held, shown>>

Fire(l) ==
    /\ at[l] = "idle" /\ loop[l].armed
    /\ GoTo(l, "fired")
    /\ UNCHANGED <<calls, states, loop, held, shown>>

TakeWake(l) ==
    /\ at[l] = "idle" /\ loop[l].token /\ ~loop[l].backingOff
    /\ GoTo(l, "fired")
    /\ loop' = [loop EXCEPT ![l].token = FALSE]
    /\ UNCHANGED <<calls, states, held, shown>>

\* Mutant: the loop goes on backing off.
EndBackoffKept(l) ==
    /\ at[l] = "fired" /\ loop[l].backingOff
    /\ Report(l, [Now(l) EXCEPT !.backoff = FALSE])
    /\ UNCHANGED <<calls, states, at, loop, held>>

EndBackoff(l) ==
    /\ at[l] = "fired" /\ loop[l].backingOff
    /\ Report(l, [Now(l) EXCEPT !.backoff = FALSE])
    /\ loop' = [loop EXCEPT ![l].backingOff = FALSE]
    /\ UNCHANGED <<calls, states, at, held>>

Slot(l) == KindOf[keyOf[l]]
HasSlot(l) == held[Slot(l)] < SlotsOf[Slot(l)]
Take(l) == held' = [held EXCEPT ![Slot(l)] = @ + 1]
Drained(l) == loop' = [loop EXCEPT ![l].token = FALSE]

\* A wake that came before this point is answered by the run about to start,
\* for which the loop takes a slot that is free.
Answer(l) ==
    /\ at[l] = "fired" /\ ~loop[l].backingOff
    /\ Drained(l)
    /\ IF keyOf[l] \in Limited THEN HasSlot(l) /\ Take(l) ELSE UNCHANGED held
    /\ GoTo(l, "ready")
    /\ UNCHANGED <<calls, states, shown>>

\* While every slot is taken it reports its wait and waits.
Queue(l) ==
    /\ at[l] = "fired" /\ ~loop[l].backingOff
    /\ Drained(l)
    /\ keyOf[l] \in Limited /\ ~HasSlot(l)
    /\ Report(l, [Now(l) EXCEPT !.waiting = TRUE])
    /\ GoTo(l, "queueing")
    /\ UNCHANGED <<calls, states, held>>

Serve(l) ==
    /\ at[l] = "queueing" /\ HasSlot(l)
    /\ Take(l)
    /\ Report(l, [Now(l) EXCEPT !.waiting = FALSE])
    /\ GoTo(l, "ready")
    /\ UNCHANGED <<calls, states, loop>>

QuitQueue(l) ==
    /\ at[l] = "queueing" /\ Done(l)
    /\ Report(l, [Now(l) EXCEPT !.waiting = FALSE])
    /\ GoTo(l, "returned")
    /\ UNCHANGED <<calls, states, loop, held>>

StartRun(l) ==
    /\ at[l] = "ready"
    /\ GoTo(l, "running")
    /\ loop' = [loop EXCEPT ![l].owed = FALSE]
    /\ UNCHANGED <<calls, states, held, shown>>

\* A unit the run made durable is its job's success.
Progress(l) ==
    /\ at[l] = "running"
    /\ Report(l, Now(l))
    /\ UNCHANGED <<calls, states, at, loop, held>>

\* A run ends, and its slot goes back. What it answered counts for nothing if
\* its context has ended by then.
Release(l) == held' = IF keyOf[l] \in Limited THEN [held EXCEPT ![Slot(l)] = @ - 1] ELSE held

\* Mutant: the loop returns with its slot.
EndCancelledKeeping(l) ==
    /\ at[l] = "running" /\ Done(l)
    /\ GoTo(l, "returned")
    /\ UNCHANGED <<calls, states, loop, held, shown>>

EndCancelled(l) ==
    /\ at[l] = "running" /\ Done(l)
    /\ Release(l)
    /\ GoTo(l, "returned")
    /\ UNCHANGED <<calls, states, loop, shown>>

\* A job that succeeded, or was not due, is asked again on its interval.
EndWell(l) ==
    /\ at[l] = "running" /\ ~Done(l)
    /\ Release(l)
    /\ Report(l, Now(l)) \/ UNCHANGED shown
    /\ GoTo(l, "idle")
    /\ loop' = [loop EXCEPT ![l].armed = keyOf[l] \in Timed]
    /\ UNCHANGED <<calls, states>>

\* One that failed, or panicked, is asked again after a backoff.
EndFailed(l) ==
    /\ at[l] = "running" /\ ~Done(l)
    /\ Release(l)
    /\ Report(l, [Now(l) EXCEPT !.backoff = TRUE])
    /\ GoTo(l, "idle")
    /\ loop' = [loop EXCEPT ![l].armed = TRUE, ![l].backingOff = TRUE]
    /\ UNCHANGED <<calls, states>>

-----------------------------------------------------------------------------
EndRun(l) == EndCancelled(l) \/ EndWell(l) \/ EndFailed(l)

GoOn(l) ==
    \/ Begin(l) \/ SeeDone(l) \/ Fire(l) \/ TakeWake(l) \/ EndBackoff(l) \/ Answer(l)
    \/ Queue(l) \/ Serve(l) \/ QuitQueue(l) \/ StartRun(l) \/ EndRun(l)

LoopStep(l) == GoOn(l) \/ Progress(l)

CallStep(c) ==
    \/ \E k \in Key : EnsureChecked(c, k) \/ RemoveMarked(c, k)
    \/ EnsureStarted(c) \/ RemoveCancelled(c) \/ RemoveReturned(c) \/ CallerReturns(c)

WakeStep(w) == (\E k \in Key : WakeRead(w, k)) \/ WakeSent(w)

StopStep == ContextEnds \/ StopCalled \/ StopReturned

Next ==
    \/ \E l \in Loop : LoopStep(l)
    \/ \E c \in Caller : CallStep(c)
    \/ \E w \in Waker : WakeStep(w)
    \/ StopStep

Spec == Init /\ [][Next]_vars

\* A goroutine that can go on does, timers fire and runs return. The lock and a
\* limit's channel serve those waiting on them first come first served, so one
\* that could go on again and again does.
FairSpec ==
    /\ Spec
    /\ \A l \in Loop : SF_vars(GoOn(l))
    /\ \A c \in Caller :
          /\ WF_vars(EnsureStarted(c) \/ RemoveCancelled(c))
          /\ SF_vars(RemoveReturned(c) \/ CallerReturns(c))
    /\ WF_vars(StopCalled \/ StopReturned)

-----------------------------------------------------------------------------
(* What makes the scheduler correct. *)

\* A caller holds the lock while it starts a loop and at no other step, and the
\* loop a call is about was made for the call's key.
CallInv ==
    /\ \A c \in Caller :
          /\ call[c].op # "send"
          /\ call[c].op = "ensure" <=> holder = c
          /\ call[c].op = "ensure" => call[c].key \in Key /\ made < MaxLoops
    /\ \A w \in Waker : call[w].op \in {"none", "send"}
    /\ \A c \in Caller \cup Waker :
          call[c].op \in {"cancel", "await", "send"} =>
              call[c].loop \in 1..made /\ keyOf[call[c].loop] = call[c].key

\* The key's state is its latest loop's, a loop without one has returned, and of
\* two loops of a key the earlier has returned, or the later is still waiting for
\* it or for one made after it (schedule.go:200-203, 220-236, 268-273).
LoopInv ==
    /\ \A l \in Loop :
          /\ at[l] # "none" <=> l <= made
          /\ keyOf[l] # Nobody <=> l <= made
          /\ at[l] \in {"none", "starting"} => ~loop[l].backingOff
          /\ at[l] = "queueing" => keyOf[l] \in Limited
          /\ previous[l] # 0 => previous[l] < l /\ l <= made /\ keyOf[previous[l]] = keyOf[l]
    /\ \A k \in Key :
          IF jobs[k] = 0
          THEN \A l \in Loop : keyOf[l] = k => at[l] = "returned"
          ELSE keyOf[jobs[k]] = k /\ \A l \in Loop : keyOf[l] = k => l <= jobs[k]
    /\ \A l, m \in Loop :
          l < m /\ m <= made /\ keyOf[l] = keyOf[m] =>
              at[l] = "returned" \/ (at[m] = "starting" /\ l <= previous[m])

\* Never two runs of one key run at once, through any chain of removals and
\* ensures that come before the removed loop has returned (schedule.go:196-203).
AtMostOneRun ==
    \A l, m \in Loop :
        at[l] = "running" /\ at[m] = "running" /\ keyOf[l] = keyOf[m] => l = m

\* A kind's slots are taken by the loops between take and the slot's return and
\* by no other: none is lost on an early return and none given back twice, and
\* no more loops hold one than the limit has (schedule.go:342-352, 386-404).
Holders(d) == {l \in Loop : at[l] \in {"ready", "running"} /\ keyOf[l] \in Limited /\ Slot(l) = d}

LimitKept == \A d \in Kind : held[d] = Cardinality(Holders(d)) /\ held[d] <= SlotsOf[d]

\* A wake is never lost: until a run starts after it, it is in the channel or the
\* loop is on its way to that run, whatever the loop was doing when it was sent,
\* a run, a backoff or a wait for a slot (schedule.go:277-289, 337-341).
WakeKept ==
    \A l \in Loop :
        loop[l].owed => loop[l].token \/ at[l] \in {"fired", "queueing", "ready", "returned"}

\* A key's series are those of the loop that has the key, and tell what it does:
\* a removed loop that still ends its wait, its backoff or its run changes nothing
\* of the new job's, and removal takes away its own only (schedule.go:260-273,
\* 371-381).
SeriesTrue ==
    \A k \in Key :
        /\ shown[k].by = jobs[k]
        /\ jobs[k] # 0 => (shown[k].waiting <=> at[jobs[k]] = "queueing")
        /\ jobs[k] # 0 => (shown[k].backoff <=> loop[jobs[k]].backingOff)

\* Once Stop has returned no loop is left and none starts, not even of an Ensure
\* that had seen the context alive before it ended (schedule.go:217-238, 291-295).
StopWaitsForAll ==
    stop = "returned" => \A l \in Loop : at[l] \in {"none", "returned"}

\* The loops, the lock and the calls keep the promise made of runs: whatever removals,
\* ensures and a stop come between, each run is of an ensured job, alone and in a slot
\* of its kind, and a removal or a stop returns after it (schedule.go:196-203, 259-295).
Busy == {l \in Loop : at[l] \in {"ready", "running"}}
UnderWay == {[run |-> l, key |-> keyOf[l]] : l \in Busy}
Ensured == {k \in Key : jobs[k] # 0}
Runs == INSTANCE JobRuns WITH Run <- Loop, ensured <- Ensured, running <- UnderWay,
                              stopped <- stop = "returned"
RunsKept == Runs!Spec

\* A wake is answered by a run that starts after it, unless its loop is removed
\* or stopped first (schedule.go:276-289).
WakeAnswered == \A l \in Loop : loop[l].owed ~> ~loop[l].owed \/ Done(l)

\* Remove returns, though the loop it waits for may itself wait for the removed
\* loop before it (schedule.go:263-264, 232-236).
RemoveReturns == \A c \in Caller : call[c].op = "cancel" ~> call[c].op = "none"

\* Stop returns, from whatever place each loop and call is in (schedule.go:292-295).
StopReturns == stop = "waiting" ~> stop = "returned"

=============================================================================
