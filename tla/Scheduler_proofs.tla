--------------------------- MODULE Scheduler_proofs ---------------------------
(***************************************************************************)
(* The proofs about Scheduler, for every set of jobs, kinds, limits,       *)
(* callers and wakers and every number of loops: one run of a key at once, *)
(* slots neither lost nor shared, wakes kept, series that are the key's    *)
(* own, and nothing left after Stop.                                       *)
(***************************************************************************)
EXTENDS Scheduler, FiniteSetTheorems, TLAPS

\* The inductive invariant: where the calls and the loops are (CallInv and
\* LoopInv), with the two properties the types of a slot and a series need.
SchedulerInv == TypeOK /\ CallInv /\ LoopInv /\ LimitKept /\ SeriesTrue

\* What a call and a key's series are when there is none.
LEMMA CallTypes == NoCall \in Calls /\ NoSeries \in Series /\ 0 \in 0..MaxLoops
BY LoopBound DEF NoCall, Calls, NoSeries, SeriesBy, Series

LEMMA InitSound == Init => SchedulerInv
<1> SUFFICES ASSUME Init PROVE SchedulerInv
  OBVIOUS
<1>1. TypeOK
  <2>2. call \in [Caller \cup Waker -> Calls] /\ shown \in [Key -> Series]
    BY CallTypes DEF Init
  <2>3. loop \in [Loop -> LoopState]
    BY DEF Init, LoopState
  <2> QED BY CallTypes, <2>2, <2>3 DEF Init, TypeOK, Places
<1>2. CallInv
  BY CallerAssumption DEF Init, CallInv, NoCall
<1>3. LoopInv
  BY CallerAssumption DEF Init, LoopInv, Loop
<1>4. \A d \in Kind : Holders(d) = {}
  BY DEF Init, Holders
<1>5. LimitKept
  <2>1. Cardinality({}) = 0
    BY FS_EmptySet
  <2>2. \A d \in Kind : SlotsOf[d] \in Nat
    BY SlotAssumption
  <2>3. ASSUME NEW d \in Kind PROVE held[d] = Cardinality(Holders(d)) /\ held[d] <= SlotsOf[d]
    <3>1. held[d] = 0
      BY DEF Init
    <3> QED BY <1>4, <2>1, <2>2, <3>1
  <2> QED BY <2>3 DEF LimitKept
<1>6. SeriesTrue
  BY DEF Init, SeriesTrue, NoSeries, SeriesBy
<1> QED BY <1>1, <1>2, <1>3, <1>5, <1>6 DEF SchedulerInv

\* A loop is at one place at a time, and its key and kind are known.
LEMMA LoopFacts ==
    ASSUME TypeOK, LoopInv, NEW l \in Loop, at[l] # "none"
    PROVE  /\ l <= made /\ keyOf[l] \in Key /\ Slot(l) \in Kind
           /\ jobs[keyOf[l]] \in 0..MaxLoops
           /\ Now(l) \in Series
           /\ Now(l).by = l /\ Now(l).waiting = shown[keyOf[l]].waiting
           /\ Now(l).backoff = shown[keyOf[l]].backoff
<1>1. l <= made /\ keyOf[l] \in Key
  BY DEF TypeOK, LoopInv
<1>2. Slot(l) \in Kind
  BY <1>1, KeyAssumption DEF Slot
<1>3. shown[keyOf[l]] \in Series /\ l \in 0..MaxLoops
  BY <1>1, LoopBound DEF TypeOK, Loop
<1>4. Now(l) \in Series
  BY <1>3 DEF Now, Series
<1>5. /\ Now(l).by = l /\ Now(l).waiting = shown[keyOf[l]].waiting
      /\ Now(l).backoff = shown[keyOf[l]].backoff
  BY <1>3 DEF Now, Series
<1> QED BY <1>1, <1>2, <1>4, <1>5 DEF TypeOK

\* The holders of a limit are finitely many.
LEMMA HoldersFinite ==
    ASSUME NEW d \in Kind
    PROVE  IsFiniteSet(Holders(d)) /\ Cardinality(Holders(d)) \in Nat
<1>1. IsFiniteSet(Loop)
  BY FS_Interval, LoopBound DEF Loop
<1> QED BY <1>1, FS_Subset, FS_CardinalityType DEF Holders

\* A step that moves no loop keeps its hold on a limit.
LEMMA HoldersKept ==
    ASSUME LimitKept, UNCHANGED <<keyOf, at, held>>
    PROVE  LimitKept'
<1>1. \A d \in Kind : Holders(d)' = Holders(d)
  BY DEF Holders, Slot
<1> QED BY <1>1 DEF LimitKept

\* A step of a call that starts and takes away no loop keeps all that is about
\* the loops.
LEMMA LoopsKept ==
    ASSUME LoopInv, LimitKept, SeriesTrue, UNCHANGED <<states, at, held, shown>>,
           \A l \in Loop : loop'[l].backingOff = loop[l].backingOff,
           TypeOK
    PROVE  LoopInv' /\ LimitKept' /\ SeriesTrue'
<1>1. LoopInv'
  BY DEF LoopInv, states
<1>2. \A k \in Key : jobs[k] # 0 => jobs[k] \in Loop
  BY LoopBound DEF TypeOK, Loop
<1>3. SeriesTrue'
  BY <1>2 DEF SeriesTrue, states
<1> QED BY <1>1, <1>3, HoldersKept DEF states

-----------------------------------------------------------------------------
(* The steps of the calls. *)

LEMMA CallStepSound ==
    ASSUME SchedulerInv,
           \/ \E c \in Caller : CallStep(c)
           \/ \E w \in Waker : WakeStep(w)
           \/ StopStep
    PROVE  SchedulerInv'
<1> USE CallerAssumption, LoopBound
<1>0. TypeOK /\ CallInv /\ LoopInv /\ LimitKept /\ SeriesTrue
  BY DEF SchedulerInv
<1>1. ASSUME NEW c \in Caller, NEW k \in Key, EnsureChecked(c, k)
      PROVE  SchedulerInv'
  <2>1. TypeOK'
    BY <1>0, <1>1 DEF EnsureChecked, TypeOK, Enter, Calls, states
  <2>2. CallInv'
    BY <1>0, <1>1 DEF EnsureChecked, TypeOK, CallInv, Enter, Calls, states, Free, Idle
  <2>3. LoopInv' /\ LimitKept' /\ SeriesTrue'
    BY <1>0, <1>1, LoopsKept DEF EnsureChecked
  <2> QED BY <2>1, <2>2, <2>3 DEF SchedulerInv
<1>2. ASSUME NEW c \in Caller, EnsureStarted(c)
      PROVE  SchedulerInv'
  <2> DEFINE k == call[c].key
             l == made + 1
  <2>0. /\ k \in Key /\ l \in Loop /\ made \in Nat /\ at[l] = "none" /\ keyOf[l] = Nobody
        /\ jobs[k] <= made /\ jobs[k] \in 0..MaxLoops
    <3>1. k \in Key /\ l \in Loop /\ made \in Nat
      BY <1>0, <1>2 DEF EnsureStarted, TypeOK, CallInv, Loop
    <3>2. at[l] = "none" /\ keyOf[l] = Nobody
      BY <1>0, <3>1 DEF LoopInv
    <3>3. jobs[k] \in 0..MaxLoops /\ (jobs[k] # 0 => jobs[k] \in Loop)
      BY <1>0, <3>1 DEF TypeOK, Loop
    <3>4. jobs[k] # 0 => jobs[k] <= made
      BY <1>0, <3>1, <3>3 DEF LoopInv
    <3> QED BY <3>1, <3>2, <3>3, <3>4
  <2>1. TypeOK'
    BY <1>0, <1>2, <2>0 DEF EnsureStarted, TypeOK, Leave, NoCall, Calls, Places, Series,
                             SeriesBy, Loop
  <2>2. CallInv'
    BY <1>0, <1>2, <2>0 DEF EnsureStarted, TypeOK, CallInv, Leave, NoCall, Calls
  <2>3. LoopInv'
    <3> DEFINE Places1(i) == /\ at[i] # "none" <=> i <= made
                             /\ keyOf[i] # Nobody <=> i <= made
                             /\ at[i] \in {"none", "starting"} => ~loop[i].backingOff
                             /\ at[i] = "queueing" => keyOf[i] \in Limited
                             /\ previous[i] # 0 => /\ previous[i] < i /\ i <= made
                                                    /\ keyOf[previous[i]] = keyOf[i]
    <3>0. /\ made' = l /\ jobs' = [jobs EXCEPT ![k] = l] /\ keyOf' = [keyOf EXCEPT ![l] = k]
          /\ previous' = [previous EXCEPT ![l] = jobs[k]] /\ loop' = loop
          /\ at' = [at EXCEPT ![l] = "starting"]
      BY <1>2 DEF EnsureStarted
    <3>1. ASSUME NEW i \in Loop PROVE Places1(i)'
      <4>1. Places1(i) /\ i \in Nat /\ previous[i] \in 0..MaxLoops
        BY <1>0 DEF LoopInv, TypeOK, Loop
      <4>2. CASE i = l
        <5>1. jobs[k] # 0 => keyOf[jobs[k]] = k /\ jobs[k] \in Loop /\ jobs[k] # l
          BY <1>0, <2>0 DEF LoopInv, Loop
        <5> QED BY <1>0, <2>0, <3>0, <4>1, <4>2, <5>1, CallerAssumption DEF TypeOK
      <4>3. CASE i # l
        <5>1. i <= made <=> i <= made'
          BY <2>0, <3>0, <4>1, <4>3
        <5>2. previous[i] # 0 => keyOf[previous[i]]' = keyOf[previous[i]]
          <6>1. previous[i] # 0 => previous[i] # l
            BY <2>0, <4>1
          <6> QED BY <1>0, <3>0, <4>1, <4>3, <6>1 DEF TypeOK, Loop
        <5> QED BY <1>0, <3>0, <4>1, <4>3, <5>1, <5>2 DEF TypeOK
      <4> QED BY <4>2, <4>3
    <3>2. ASSUME NEW j \in Key
          PROVE  (IF jobs[j] = 0
                  THEN \A i \in Loop : keyOf[i] = j => at[i] = "returned"
                  ELSE keyOf[jobs[j]] = j /\ \A i \in Loop : keyOf[i] = j => i <= jobs[j])'
      <4>1. \A i \in Loop : keyOf[i] # Nobody => i <= made
        BY <1>0 DEF LoopInv
      <4>2. CASE j = k
        <5>1. jobs'[j] = l /\ keyOf'[l] = k
          BY <1>0, <2>0, <3>0, <4>2 DEF TypeOK
        <5>2. ASSUME NEW i \in Loop, keyOf'[i] = k PROVE i <= l
          <6>1. i # l => keyOf[i] = k
            BY <1>0, <3>0, <5>2 DEF TypeOK
          <6> QED BY <2>0, <4>1, <6>1, CallerAssumption DEF Loop
        <5> QED BY <2>0, <4>2, <5>1, <5>2
      <4>3. CASE j # k
        <5>1. jobs'[j] = jobs[j] /\ \A i \in Loop : keyOf'[i] = j => i # l /\ keyOf[i] = j /\ at'[i] = at[i]
          BY <1>0, <2>0, <3>0, <4>3 DEF TypeOK
        <5>2. jobs[j] # 0 => jobs[j] # l
          BY <1>0, <2>0, CallerAssumption DEF LoopInv
        <5> QED BY <1>0, <2>0, <3>0, <4>3, <5>1, <5>2 DEF TypeOK, LoopInv, Loop
      <4> QED BY <4>2, <4>3
    <3>3. ASSUME NEW i \in Loop, NEW m \in Loop,
                 i < m, m <= made', keyOf'[i] = keyOf'[m]
          PROVE  at'[i] = "returned" \/ (at'[m] = "starting" /\ i <= previous'[m])
      <4>1. i # l /\ keyOf'[i] = keyOf[i] /\ at'[i] = at[i]
        BY <1>0, <2>0, <3>0, <3>3 DEF TypeOK, Loop
      <4>2. CASE m = l
        <5>1. keyOf[i] = k /\ at'[m] = "starting" /\ previous'[m] = jobs[k]
          BY <1>0, <2>0, <3>0, <3>3, <4>1, <4>2 DEF TypeOK
        <5> QED BY <1>0, <2>0, <4>1, <5>1 DEF LoopInv
      <4>3. CASE m # l
        <5>1. m <= made /\ keyOf'[m] = keyOf[m] /\ at'[m] = at[m] /\ previous'[m] = previous[m]
          BY <1>0, <2>0, <3>0, <3>3, <4>3 DEF TypeOK, Loop
        <5> QED BY <1>0, <3>3, <4>1, <5>1 DEF LoopInv
      <4> QED BY <4>2, <4>3
    <3> QED BY <3>1, <3>2, <3>3 DEF LoopInv
  <2>4. LimitKept'
    <3>1. \A d \in Kind : Holders(d)' = Holders(d)
      BY <1>0, <1>2, <2>0 DEF EnsureStarted, TypeOK, Holders, Slot
    <3> QED BY <1>0, <1>2, <3>1 DEF EnsureStarted, LimitKept
  <2>5. SeriesTrue'
    BY <1>0, <1>2, <2>0 DEF EnsureStarted, TypeOK, SeriesTrue, LoopInv, SeriesBy, Loop
  <2> QED BY <2>1, <2>2, <2>3, <2>4, <2>5 DEF SchedulerInv
<1>3. ASSUME NEW c \in Caller, NEW k \in Key, RemoveMarked(c, k)
      PROVE  SchedulerInv'
  <2>0. jobs[k] \in Loop /\ keyOf[jobs[k]] = k /\ jobs[k] <= made
    BY <1>0, <1>3 DEF RemoveMarked, TypeOK, LoopInv, Loop
  <2>1. TypeOK'
    BY ZenonT(40), <1>0, <1>3, <2>0 DEF RemoveMarked, TypeOK, Enter, Calls, states, LoopState
  <2>2. CallInv'
    BY <1>0, <1>3, <2>0 DEF RemoveMarked, TypeOK, CallInv, Enter, Calls, states, Idle, Free, Loop
  <2>3. LoopInv' /\ LimitKept' /\ SeriesTrue'
    <3>1. \A l \in Loop : loop'[l].backingOff = loop[l].backingOff
      BY <1>0, <1>3 DEF RemoveMarked, TypeOK, LoopState
    <3> QED BY <1>0, <1>3, <3>1, LoopsKept DEF RemoveMarked
  <2> QED BY <2>1, <2>2, <2>3 DEF SchedulerInv
<1>4. ASSUME NEW c \in Caller, RemoveCancelled(c)
      PROVE  SchedulerInv'
  <2>0. /\ call[c].loop \in Loop /\ keyOf[call[c].loop] = call[c].key /\ call[c].loop <= made
        /\ call[c] \in Calls
    BY <1>0, <1>4 DEF RemoveCancelled, TypeOK, CallInv, Loop
  <2>1. TypeOK'
    BY ZenonT(40), <1>0, <1>4, <2>0 DEF RemoveCancelled, TypeOK, Enter, Calls, states, LoopState
  <2>2. CallInv'
    BY <1>0, <1>4, <2>0 DEF RemoveCancelled, TypeOK, CallInv, Enter, Calls, states, Loop
  <2>3. LoopInv' /\ LimitKept' /\ SeriesTrue'
    <3>1. \A l \in Loop : loop'[l].backingOff = loop[l].backingOff
      BY <1>0, <1>4 DEF RemoveCancelled, TypeOK, LoopState
    <3> QED BY <1>0, <1>4, <3>1, LoopsKept DEF RemoveCancelled
  <2> QED BY <2>1, <2>2, <2>3 DEF SchedulerInv
<1>5. ASSUME NEW c \in Caller, RemoveReturned(c)
      PROVE  SchedulerInv'
  <2> DEFINE k == call[c].key
             l == call[c].loop
  <2>0. l \in Loop /\ keyOf[l] = k /\ l <= made /\ k \in Key /\ at[l] = "returned"
    BY <1>0, <1>5 DEF RemoveReturned, TypeOK, CallInv, LoopInv, Calls, Loop
  <2>1. TypeOK'
    <3>1. call' \in [Caller \cup Waker -> Calls]
      BY <1>0, <1>5, CallTypes DEF RemoveReturned, TypeOK, Leave
    <3>2. jobs' \in [Key -> 0..MaxLoops] /\ shown' \in [Key -> Series]
      BY <1>0, <1>5, CallTypes DEF RemoveReturned, TypeOK
    <3> QED BY <1>0, <1>5, <3>1, <3>2 DEF RemoveReturned, TypeOK
  <2>2. CallInv'
    BY <1>0, <1>5, <2>0 DEF RemoveReturned, TypeOK, CallInv, Leave, NoCall, Calls
  <2>3. LoopInv'
    <3>1. ASSUME jobs[k] = l, NEW m \in Loop, keyOf[m] = k
          PROVE  at[m] = "returned"
      <4>1. m <= l
        BY <1>0, <2>0, <3>1 DEF LoopInv, Loop
      <4>2. CASE m < l
        BY <1>0, <2>0, <3>1, <4>2 DEF LoopInv
      <4> QED BY <2>0, <4>1, <4>2 DEF Loop
    <3> QED BY <1>0, <1>5, <2>0, <3>1 DEF RemoveReturned, TypeOK, LoopInv
  <2>4. LimitKept' /\ SeriesTrue'
    BY SMTT(30), <1>0, <1>5, <2>0 DEF RemoveReturned, TypeOK, LimitKept, SeriesTrue, Holders, Slot,
                             NoSeries, SeriesBy
  <2> QED BY <2>1, <2>2, <2>3, <2>4 DEF SchedulerInv
<1>6. ASSUME NEW c \in Caller, CallerReturns(c)
      PROVE  SchedulerInv'
  <2>1. TypeOK'
    BY <1>0, <1>6 DEF CallerReturns, TypeOK, Enter, Calls, states
  <2>2. CallInv'
    BY <1>0, <1>6 DEF CallerReturns, TypeOK, CallInv, Enter, Calls, states, Idle
  <2>3. LoopInv' /\ LimitKept' /\ SeriesTrue'
    BY <1>0, <1>6, LoopsKept DEF CallerReturns
  <2> QED BY <2>1, <2>2, <2>3 DEF SchedulerInv
<1>7. ASSUME NEW w \in Waker, NEW k \in Key, WakeRead(w, k)
      PROVE  SchedulerInv'
  <2>0. jobs[k] \in Loop /\ keyOf[jobs[k]] = k /\ jobs[k] <= made /\ w \notin Caller
    BY <1>0, <1>7 DEF WakeRead, TypeOK, LoopInv, Loop
  <2>1. TypeOK'
    BY <1>0, <1>7, <2>0 DEF WakeRead, TypeOK, Enter, Calls, states
  <2>2. CallInv'
    BY <1>0, <1>7, <2>0 DEF WakeRead, TypeOK, CallInv, Enter, Calls, states, Loop
  <2>3. LoopInv' /\ LimitKept' /\ SeriesTrue'
    BY <1>0, <1>7, LoopsKept DEF WakeRead
  <2> QED BY <2>1, <2>2, <2>3 DEF SchedulerInv
<1>8. ASSUME NEW w \in Waker, WakeSent(w)
      PROVE  SchedulerInv'
  <2>0. call[w].loop \in Loop /\ w \notin Caller
    BY <1>0, <1>8 DEF WakeSent, TypeOK, CallInv, Loop
  <2>1. TypeOK'
    <3>1. call' \in [Caller \cup Waker -> Calls]
      BY <1>0, <1>8, CallTypes DEF WakeSent, TypeOK, Leave
    <3>2. loop' \in [Loop -> LoopState]
      BY ZenonT(40), <1>0, <1>8, <2>0 DEF WakeSent, TypeOK, LoopState
    <3> QED BY <1>0, <1>8, <3>1, <3>2 DEF WakeSent, TypeOK, states
  <2>2. CallInv'
    BY <1>0, <1>8, <2>0 DEF WakeSent, TypeOK, CallInv, Leave, NoCall, Calls, states
  <2>3. LoopInv' /\ LimitKept' /\ SeriesTrue'
    <3>1. \A l \in Loop : loop'[l].backingOff = loop[l].backingOff
      BY <1>0, <1>8 DEF WakeSent, TypeOK, LoopState
    <3> QED BY <1>0, <1>8, <3>1, LoopsKept DEF WakeSent
  <2> QED BY <2>1, <2>2, <2>3 DEF SchedulerInv
<1>9. CASE StopStep
  <2>1. TypeOK'
    BY <1>0, <1>9 DEF StopStep, ContextEnds, StopCalled, StopReturned, TypeOK, states
  <2>2. CallInv'
    BY <1>0, <1>9 DEF StopStep, ContextEnds, StopCalled, StopReturned, CallInv, states
  <2>3. LoopInv' /\ LimitKept' /\ SeriesTrue'
    BY <1>0, <1>9, LoopsKept DEF StopStep, ContextEnds, StopCalled, StopReturned
  <2> QED BY <2>1, <2>2, <2>3 DEF SchedulerInv
<1> QED BY <1>1, <1>2, <1>3, <1>4, <1>5, <1>6, <1>7, <1>8, <1>9 DEF CallStep, WakeStep

-----------------------------------------------------------------------------
(* The steps of a loop. *)

\* A loop at p: the limit's holders are those there were, with it or without it.
LEMMA HoldersMoved ==
    ASSUME TypeOK, NEW l \in Loop, NEW p \in Places, NEW d \in Kind,
           at' = [at EXCEPT ![l] = p], UNCHANGED keyOf
    PROVE  Holders(d)' = IF p \in {"ready", "running"} /\ keyOf[l] \in Limited /\ Slot(l) = d
                         THEN Holders(d) \cup {l}
                         ELSE Holders(d) \ {l}
BY DEF TypeOK, Holders, Slot

\* Moving between two places that both hold a slot, or neither, takes none, and a
\* loop without a limit takes none anywhere.
LEMMA SlotsStay ==
    ASSUME TypeOK, LimitKept, NEW l \in Loop, NEW p \in Places,
           at' = [at EXCEPT ![l] = p], UNCHANGED <<keyOf, held>>,
           keyOf[l] \in Limited => (at[l] \in {"ready", "running"} <=> p \in {"ready", "running"})
    PROVE  LimitKept'
<1>1. ASSUME NEW d \in Kind PROVE Holders(d)' = Holders(d)
  <2>1. l \in Holders(d) <=> p \in {"ready", "running"} /\ keyOf[l] \in Limited /\ Slot(l) = d
    BY DEF Holders
  <2>2. Holders(d)' = IF l \in Holders(d) THEN Holders(d) \cup {l} ELSE Holders(d) \ {l}
    BY <2>1, HoldersMoved
  <2> QED BY <2>2
<1> QED BY <1>1 DEF LimitKept

\* A slot that is taken was free.
LEMMA SlotTaken ==
    ASSUME TypeOK, LoopInv, LimitKept, NEW l \in Loop, at[l] \notin {"none", "ready", "running"},
           keyOf[l] \in Limited, HasSlot(l), Take(l),
           at' = [at EXCEPT ![l] = "ready"], UNCHANGED keyOf
    PROVE  LimitKept' /\ held' \in [Kind -> Nat]
<1>1. Slot(l) \in Kind
  BY LoopFacts
<1>2. held \in [Kind -> Nat] /\ held' = [held EXCEPT ![Slot(l)] = @ + 1]
  BY DEF TypeOK, Take
<1>3. ASSUME NEW d \in Kind PROVE held'[d] = Cardinality(Holders(d)') /\ held'[d] <= SlotsOf[d]
  <2>0. held[d] = Cardinality(Holders(d)) /\ held[d] <= SlotsOf[d] /\ SlotsOf[d] \in Nat
    BY SlotAssumption DEF LimitKept
  <2>1. l \notin Holders(d)
    BY DEF Holders
  <2>2. "ready" \in Places
    BY DEF Places
  <2>3. CASE Slot(l) = d
    <3>1. Holders(d)' = Holders(d) \cup {l}
      BY <2>2, <2>3, HoldersMoved
    <3>2. Cardinality(Holders(d) \cup {l}) = Cardinality(Holders(d)) + 1
      BY <2>1, HoldersFinite, FS_AddElement
    <3>3. held[d] < SlotsOf[d] /\ held'[d] = held[d] + 1
      BY <1>2, <2>3 DEF HasSlot
    <3> QED BY <1>2, <2>0, <3>1, <3>2, <3>3
  <2>4. CASE Slot(l) # d
    <3>0. Holders(d)' = Holders(d) \ {l}
      BY <2>2, <2>4, HoldersMoved
    <3>1. Holders(d)' = Holders(d)
      BY <2>1, <3>0
    <3> QED BY <1>1, <1>2, <2>0, <2>4, <3>1
  <2> QED BY <2>3, <2>4
<1> QED BY <1>1, <1>2, <1>3 DEF LimitKept

\* A slot that goes back was held.
LEMMA SlotReturned ==
    ASSUME TypeOK, LoopInv, LimitKept, NEW l \in Loop, at[l] = "running", Release(l),
           NEW p \in Places \ {"ready", "running"},
           at' = [at EXCEPT ![l] = p], UNCHANGED keyOf
    PROVE  LimitKept' /\ held' \in [Kind -> Nat]
<1>1. Slot(l) \in Kind
  BY LoopFacts
<1>2. held \in [Kind -> Nat]
  BY DEF TypeOK
<1>3. ASSUME NEW d \in Kind
      PROVE  held'[d] \in Nat /\ held'[d] = Cardinality(Holders(d)') /\ held'[d] <= SlotsOf[d]
  <2>0. held[d] = Cardinality(Holders(d)) /\ held[d] <= SlotsOf[d] /\ SlotsOf[d] \in Nat
    BY SlotAssumption DEF LimitKept
  <2>1. Holders(d)' = Holders(d) \ {l}
    BY HoldersMoved
  <2>2. l \in Holders(d) <=> keyOf[l] \in Limited /\ Slot(l) = d
    BY DEF Holders
  <2>3. CASE l \in Holders(d)
    <3>1. held'[d] = held[d] - 1
      BY <1>2, <2>2, <2>3 DEF Release
    <3>2. Cardinality(Holders(d) \ {l}) = Cardinality(Holders(d)) - 1
      BY <2>3, HoldersFinite, FS_RemoveElement
    <3>3. Cardinality(Holders(d) \ {l}) \in Nat
      <4>1. IsFiniteSet(Holders(d) \ {l})
        BY HoldersFinite, FS_Subset
      <4> QED BY <4>1, FS_CardinalityType
    <3> QED BY <1>2, <2>0, <2>1, <3>1, <3>2, <3>3
  <2>4. CASE l \notin Holders(d)
    <3>1. held'[d] = held[d]
      BY <1>1, <1>2, <2>2, <2>4 DEF Release
    <3>2. Holders(d) \ {l} = Holders(d)
      BY <2>4
    <3> QED BY <1>2, <2>0, <2>1, <3>1, <3>2
  <2> QED BY <2>3, <2>4
<1>4. held' \in [Kind -> Nat]
  <2>1. held' = [d \in Kind |-> held'[d]]
    BY <1>2 DEF Release
  <2> QED BY <1>3, <2>1
<1> QED BY <1>3, <1>4 DEF LimitKept

\* A loop that begins after the loop it waits for has returned, and returns once,
\* keeps the order of its key's loops.
LEMMA OrderKept ==
    ASSUME TypeOK, LoopInv, NEW l \in Loop, NEW p \in Places \ {"none", "starting"},
           at[l] \notin {"none", "returned"},
           at[l] = "starting" /\ previous[l] # 0 => at[previous[l]] = "returned",
           p = "queueing" => keyOf[l] \in Limited,
           UNCHANGED states, at' = [at EXCEPT ![l] = p],
           \A j \in Loop \ {l} : loop'[j].backingOff = loop[j].backingOff
    PROVE  LoopInv'
<1>0. l <= made /\ made \in Nat
  BY DEF TypeOK, LoopInv
<1>1. \A i \in Loop : at[i] = "returned" => at'[i] = "returned"
  BY DEF TypeOK
<1>2. ASSUME NEW i \in Loop, NEW m \in Loop, i < m, m <= made, keyOf[i] = keyOf[m]
      PROVE  at'[i] = "returned" \/ (at'[m] = "starting" /\ i <= previous[m])
  <2>1. at[i] = "returned" \/ (at[m] = "starting" /\ i <= previous[m])
    BY <1>2 DEF LoopInv
  <2>2. CASE m = l /\ at[i] # "returned"
    <3> DEFINE q == previous[l]
    <3>1. q \in Loop /\ q < l /\ keyOf[q] = keyOf[l] /\ at[q] = "returned" /\ i <= q
      BY <2>1, <2>2, LoopBound DEF TypeOK, LoopInv, Loop
    <3>2. i < q => at[i] = "returned"
      BY <1>0, <1>2, <2>2, <3>1 DEF LoopInv, Loop
    <3> QED BY <2>2, <3>1, <3>2 DEF Loop
  <2>3. CASE m # l \/ at[i] = "returned"
    BY <1>1, <2>1, <2>3 DEF TypeOK
  <2> QED BY <2>2, <2>3
<1>3. ASSUME NEW i \in Loop
      PROVE  /\ at'[i] # "none" <=> i <= made
             /\ at'[i] \in {"none", "starting"} => ~loop'[i].backingOff
             /\ at'[i] = "queueing" => keyOf[i] \in Limited
  BY <1>0 DEF TypeOK, LoopInv
<1> QED BY <1>1, <1>2, <1>3 DEF LoopInv, states

\* What a step of a loop must do for the invariant to hold after it.
LEMMA Moves ==
    ASSUME SchedulerInv, NEW l \in Loop, NEW p \in Places \ {"none", "starting"},
           at[l] \notin {"none", "returned"},
           at[l] = "starting" /\ previous[l] # 0 => at[previous[l]] = "returned",
           p = "queueing" => keyOf[l] \in Limited,
           UNCHANGED <<calls, states>>, at' = [at EXCEPT ![l] = p],
           loop' \in [Loop -> LoopState],
           \A j \in Loop \ {l} : loop'[j].backingOff = loop[j].backingOff,
           shown' \in [Key -> Series],
           \A k \in Key : jobs[k] # l => shown'[k] = shown[k],
           \A k \in Key : jobs[k] = l => /\ shown'[k].by = l
                                         /\ shown'[k].waiting <=> p = "queueing"
                                         /\ shown'[k].backoff <=> loop'[l].backingOff,
           held' \in [Kind -> Nat], LimitKept'
    PROVE  SchedulerInv'
<1>0. TypeOK /\ CallInv /\ LoopInv /\ SeriesTrue
  BY DEF SchedulerInv
<1>1. TypeOK'
  BY <1>0 DEF TypeOK, calls, states
<1>2. CallInv'
  BY <1>0 DEF CallInv, calls, states
<1>3. LoopInv'
  BY <1>0, OrderKept
<1>4. SeriesTrue'
  <2>1. ASSUME NEW k \in Key
        PROVE  /\ shown'[k].by = jobs[k]
               /\ jobs[k] # 0 => (shown'[k].waiting <=> at'[jobs[k]] = "queueing")
               /\ jobs[k] # 0 => (shown'[k].backoff <=> loop'[jobs[k]].backingOff)
    <3>1. CASE jobs[k] = l
      BY <1>0, <3>1 DEF TypeOK
    <3>2. CASE jobs[k] # l
      <4>1. jobs[k] # 0 => jobs[k] \in Loop \ {l}
        BY <1>0, <3>2, LoopBound DEF TypeOK, Loop
      <4> QED BY <1>0, <3>2, <4>1 DEF TypeOK, SeriesTrue
    <3> QED BY <3>1, <3>2
  <2> QED BY <2>1 DEF SeriesTrue, states
<1> QED BY <1>1, <1>2, <1>3, <1>4 DEF SchedulerInv

\* A report of a loop reaches its key's series while the key is its own.
LEMMA Reported ==
    ASSUME TypeOK, LoopInv, NEW l \in Loop, at[l] # "none", NEW series \in Series,
           Report(l, series)
    PROVE  /\ shown' \in [Key -> Series]
           /\ \A k \in Key : jobs[k] # l => shown'[k] = shown[k]
           /\ \A k \in Key : jobs[k] = l => shown'[k] = series
<1>1. keyOf[l] \in Key /\ l # 0
  BY LoopFacts, LoopBound DEF Loop
<1>2. \A k \in Key : jobs[k] = l => keyOf[l] = k
  BY <1>1 DEF LoopInv
<1> QED BY <1>1, <1>2 DEF Report, TypeOK

\* A loop that reports nothing changes nothing its series tell.
LEMMA Unreported ==
    ASSUME TypeOK, LoopInv, SeriesTrue, NEW l \in Loop, at[l] \notin {"none", "queueing"},
           NEW p \in Places \ {"queueing"}, UNCHANGED shown,
           loop'[l].backingOff = loop[l].backingOff
    PROVE  /\ shown' \in [Key -> Series]
           /\ \A k \in Key : jobs[k] # l => shown'[k] = shown[k]
           /\ \A k \in Key : jobs[k] = l => /\ shown'[k].by = l
                                            /\ shown'[k].waiting <=> p = "queueing"
                                            /\ shown'[k].backoff <=> loop'[l].backingOff
<1>1. l # 0
  BY LoopBound DEF Loop
<1> QED BY <1>1 DEF TypeOK, SeriesTrue

\* A step of a loop that reports nothing and takes and gives back no slot.
LEMMA QuietMove ==
    ASSUME SchedulerInv, NEW l \in Loop, NEW p \in Places \ {"none", "starting", "queueing"},
           at[l] \notin {"none", "queueing", "returned"},
           at[l] = "starting" /\ previous[l] # 0 => at[previous[l]] = "returned",
           UNCHANGED <<calls, states, shown, held>>, at' = [at EXCEPT ![l] = p],
           at[l] \in {"ready", "running"} <=> p \in {"ready", "running"},
           loop' \in [Loop -> LoopState],
           \A j \in Loop : loop'[j].backingOff = loop[j].backingOff
    PROVE  SchedulerInv'
<1>0. TypeOK /\ LoopInv /\ LimitKept /\ SeriesTrue
  BY DEF SchedulerInv
<1>1. LimitKept'
  BY <1>0, SlotsStay DEF states
<1>2. held' \in [Kind -> Nat]
  BY <1>0 DEF TypeOK
<1>3. /\ shown' \in [Key -> Series]
      /\ \A k \in Key : jobs[k] # l => shown'[k] = shown[k]
      /\ \A k \in Key : jobs[k] = l => /\ shown'[k].by = l
                                       /\ shown'[k].waiting <=> p = "queueing"
                                       /\ shown'[k].backoff <=> loop'[l].backingOff
  BY <1>0, Unreported
<1> QED BY <1>1, <1>2, <1>3, Moves

\* A step of a loop that reports series of its own.
LEMMA ReportedMove ==
    ASSUME SchedulerInv, NEW l \in Loop, NEW p \in Places \ {"none", "starting"},
           at[l] \notin {"none", "starting", "returned"},
           p = "queueing" => keyOf[l] \in Limited,
           UNCHANGED <<calls, states>>, at' = [at EXCEPT ![l] = p],
           loop' \in [Loop -> LoopState],
           \A j \in Loop \ {l} : loop'[j].backingOff = loop[j].backingOff,
           NEW series \in Series, Report(l, series),
           jobs[keyOf[l]] = l => /\ series.by = l
                                 /\ series.waiting <=> p = "queueing"
                                 /\ series.backoff <=> loop'[l].backingOff,
           held' \in [Kind -> Nat], LimitKept'
    PROVE  SchedulerInv'
<1>0. TypeOK /\ LoopInv
  BY DEF SchedulerInv
<1>1. /\ shown' \in [Key -> Series]
      /\ \A k \in Key : jobs[k] # l => shown'[k] = shown[k]
      /\ \A k \in Key : jobs[k] = l => shown'[k] = series
  BY <1>0, Reported
<1>2. \A k \in Key : jobs[k] = l => keyOf[l] = k
  BY <1>0, LoopBound DEF LoopInv, Loop
<1>3. \A k \in Key : jobs[k] = l => /\ shown'[k].by = l
                                    /\ shown'[k].waiting <=> p = "queueing"
                                    /\ shown'[k].backoff <=> loop'[l].backingOff
  BY <1>1, <1>2
<1> QED BY <1>1, <1>3, Moves

\* The series a loop reports from are those of its key.
LEMMA OwnSeries ==
    ASSUME TypeOK, LoopInv, SeriesTrue, NEW l \in Loop, at[l] # "none"
    PROVE  /\ Now(l) \in Series /\ Now(l).by = l
           /\ jobs[keyOf[l]] = l => /\ Now(l).waiting <=> at[l] = "queueing"
                                    /\ Now(l).backoff <=> loop[l].backingOff
<1>1. keyOf[l] \in Key /\ l # 0
  BY LoopFacts, LoopBound DEF Loop
<1>2. jobs[keyOf[l]] = l => /\ shown[keyOf[l]].waiting <=> at[l] = "queueing"
                            /\ shown[keyOf[l]].backoff <=> loop[l].backingOff
  BY <1>1 DEF SeriesTrue
<1> QED BY <1>2, LoopFacts

LEMMA LoopStepSound ==
    ASSUME SchedulerInv, NEW l \in Loop, LoopStep(l)
    PROVE  SchedulerInv'
<1>0. TypeOK /\ LoopInv /\ LimitKept /\ SeriesTrue
  BY DEF SchedulerInv
<1>t. /\ loop \in [Loop -> LoopState] /\ loop[l] \in LoopState /\ at \in [Loop -> Places]
      /\ held \in [Kind -> Nat]
  BY <1>0 DEF TypeOK
<1>p. {"none", "starting", "idle", "fired", "queueing", "ready", "running", "returned"} = Places
  BY DEF Places
<1>q. /\ "idle" \in Places \ {"none", "starting"} /\ "fired" \in Places \ {"none", "starting"}
      /\ "queueing" \in Places \ {"none", "starting"} /\ "ready" \in Places \ {"none", "starting"}
      /\ "running" \in Places \ {"none", "starting"} /\ "returned" \in Places \ {"none", "starting"}
  BY DEF Places
<1>s. at[l] # "none" =>
         /\ Now(l) \in Series /\ Now(l).by = l
         /\ jobs[keyOf[l]] = l => /\ Now(l).waiting <=> at[l] = "queueing"
                                  /\ Now(l).backoff <=> loop[l].backingOff
  BY <1>0, OwnSeries
<1>1. CASE Begin(l)
  <2>1. /\ loop' \in [Loop -> LoopState]
        /\ \A j \in Loop : loop'[j].backingOff = loop[j].backingOff
    BY <1>t, <1>1 DEF Begin, LoopState
  <2> QED BY <1>1, <1>p, <2>1, QuietMove DEF Begin, GoTo
<1>2. CASE SeeDone(l)
  BY <1>2, <1>p, <1>t, QuietMove DEF SeeDone, GoTo
<1>3. CASE Fire(l)
  BY <1>3, <1>p, <1>t, QuietMove DEF Fire, GoTo
<1>4. CASE TakeWake(l)
  <2>1. /\ loop' \in [Loop -> LoopState]
        /\ \A j \in Loop : loop'[j].backingOff = loop[j].backingOff
    BY <1>t, <1>4 DEF TakeWake, LoopState
  <2> QED BY <1>4, <1>p, <2>1, QuietMove DEF TakeWake, GoTo
<1>5. CASE EndBackoff(l)
  <2> DEFINE series == [Now(l) EXCEPT !.backoff = FALSE]
  <2>1. /\ at[l] = "fired" /\ Report(l, series) /\ UNCHANGED <<calls, states, held>>
        /\ at' = [at EXCEPT ![l] = "fired"]
        /\ loop' = [loop EXCEPT ![l].backingOff = FALSE]
    BY <1>t, <1>5 DEF EndBackoff
  <2>2. /\ loop' \in [Loop -> LoopState] /\ ~loop'[l].backingOff
        /\ \A j \in Loop \ {l} : loop'[j].backingOff = loop[j].backingOff
    BY <1>t, <2>1 DEF LoopState
  <2>3. /\ series \in Series /\ series.by = l /\ ~series.backoff
        /\ series.waiting = Now(l).waiting
    BY <1>s, <2>1 DEF Series
  <2>4. LimitKept'
    BY <1>0, <2>1, HoldersKept, <1>5 DEF EndBackoff, states
  <2>5. held' \in [Kind -> Nat]
    BY <1>t, <2>1
  <2> QED BY <1>q, <1>s, <2>1, <2>2, <2>3, <2>4, <2>5, ReportedMove
<1>6. CASE Answer(l)
  <2>1. /\ at[l] = "fired" /\ at' = [at EXCEPT ![l] = "ready"]
        /\ UNCHANGED <<calls, states, shown>> /\ loop' = [loop EXCEPT ![l].token = FALSE]
    BY <1>6 DEF Answer, GoTo, Drained
  <2>2. /\ loop' \in [Loop -> LoopState]
        /\ \A j \in Loop : loop'[j].backingOff = loop[j].backingOff
    BY <1>t, <2>1 DEF LoopState
  <2>3. ASSUME keyOf[l] \in Limited PROVE LimitKept' /\ held' \in [Kind -> Nat]
    <3>1. HasSlot(l) /\ Take(l)
      BY <1>6, <2>3 DEF Answer
    <3> QED BY <1>0, <2>1, <2>3, <3>1, SlotTaken DEF states
  <2>4. ASSUME keyOf[l] \notin Limited PROVE LimitKept' /\ held' \in [Kind -> Nat]
    <3>1. UNCHANGED held
      BY <1>6, <2>4 DEF Answer
    <3> QED BY <1>0, <1>t, <1>p, <2>1, <2>4, <3>1, SlotsStay DEF states
  <2>5. LimitKept' /\ held' \in [Kind -> Nat]
    BY <2>3, <2>4
  <2>6. /\ shown' \in [Key -> Series]
        /\ \A k \in Key : jobs[k] # l => shown'[k] = shown[k]
        /\ \A k \in Key : jobs[k] = l => /\ shown'[k].by = l
                                         /\ shown'[k].waiting <=> "ready" = "queueing"
                                         /\ shown'[k].backoff <=> loop'[l].backingOff
    BY <1>0, <1>p, <2>1, <2>2, Unreported
  <2> QED BY <1>q, <2>1, <2>2, <2>5, <2>6, Moves
<1>7. CASE Queue(l)
  <2> DEFINE series == [Now(l) EXCEPT !.waiting = TRUE]
  <2>1. /\ at[l] = "fired" /\ at' = [at EXCEPT ![l] = "queueing"] /\ Report(l, series)
        /\ keyOf[l] \in Limited
        /\ UNCHANGED <<calls, states, held>> /\ loop' = [loop EXCEPT ![l].token = FALSE]
    BY <1>7 DEF Queue, GoTo, Drained
  <2>2. /\ loop' \in [Loop -> LoopState]
        /\ \A j \in Loop : loop'[j].backingOff = loop[j].backingOff
    BY <1>t, <2>1 DEF LoopState
  <2>3. /\ series \in Series /\ series.by = l /\ series.waiting
        /\ series.backoff = Now(l).backoff
    BY <1>s, <2>1 DEF Series
  <2>4. LimitKept' /\ held' \in [Kind -> Nat]
    BY <1>0, <1>t, <1>p, <2>1, SlotsStay DEF states
  <2> QED BY <1>q, <1>s, <2>1, <2>2, <2>3, <2>4, ReportedMove
<1>8. CASE Serve(l)
  <2> DEFINE series == [Now(l) EXCEPT !.waiting = FALSE]
  <2>1. /\ at[l] = "queueing" /\ at' = [at EXCEPT ![l] = "ready"] /\ Report(l, series)
        /\ HasSlot(l) /\ Take(l) /\ UNCHANGED <<calls, states, loop>>
    BY <1>8 DEF Serve, GoTo
  <2>2. keyOf[l] \in Limited
    BY <1>0, <2>1 DEF LoopInv
  <2>3. /\ series \in Series /\ series.by = l /\ ~series.waiting
        /\ series.backoff = Now(l).backoff
    BY <1>s, <2>1 DEF Series
  <2>4. LimitKept' /\ held' \in [Kind -> Nat]
    BY <1>0, <2>1, <2>2, SlotTaken DEF states
  <2> QED BY <1>q, <1>s, <1>t, <2>1, <2>3, <2>4, ReportedMove
<1>9. CASE QuitQueue(l)
  <2> DEFINE series == [Now(l) EXCEPT !.waiting = FALSE]
  <2>1. /\ at[l] = "queueing" /\ at' = [at EXCEPT ![l] = "returned"] /\ Report(l, series)
        /\ UNCHANGED <<calls, states, loop, held>>
    BY <1>9 DEF QuitQueue, GoTo
  <2>2. /\ series \in Series /\ series.by = l /\ ~series.waiting
        /\ series.backoff = Now(l).backoff
    BY <1>s, <2>1 DEF Series
  <2>3. LimitKept' /\ held' \in [Kind -> Nat]
    BY <1>0, <1>t, <1>p, <2>1, SlotsStay DEF states
  <2> QED BY <1>q, <1>s, <1>t, <2>1, <2>2, <2>3, ReportedMove
<1>10. CASE StartRun(l)
  <2>1. /\ loop' \in [Loop -> LoopState]
        /\ \A j \in Loop : loop'[j].backingOff = loop[j].backingOff
    BY <1>t, <1>10 DEF StartRun, LoopState
  <2> QED BY <1>10, <1>p, <2>1, QuietMove DEF StartRun, GoTo
<1>11. CASE Progress(l)
  <2>1. /\ at[l] = "running" /\ at' = [at EXCEPT ![l] = "running"] /\ Report(l, Now(l))
        /\ UNCHANGED <<calls, states, loop, held>>
    BY <1>t, <1>11 DEF Progress
  <2>2. LimitKept' /\ held' \in [Kind -> Nat]
    BY <1>0, <1>t, <1>p, <2>1, SlotsStay DEF states
  <2> QED BY <1>q, <1>s, <1>t, <2>1, <2>2, ReportedMove
<1>12. CASE EndCancelled(l)
  <2>1. /\ at[l] = "running" /\ at' = [at EXCEPT ![l] = "returned"] /\ Release(l)
        /\ UNCHANGED <<calls, states, loop, shown>>
    BY <1>12 DEF EndCancelled, GoTo
  <2>2. LimitKept' /\ held' \in [Kind -> Nat]
    BY <1>0, <1>p, <2>1, SlotReturned DEF states
  <2>3. /\ shown' \in [Key -> Series]
        /\ \A k \in Key : jobs[k] # l => shown'[k] = shown[k]
        /\ \A k \in Key : jobs[k] = l => /\ shown'[k].by = l
                                         /\ shown'[k].waiting <=> "returned" = "queueing"
                                         /\ shown'[k].backoff <=> loop'[l].backingOff
    BY <1>0, <1>p, <2>1, Unreported
  <2> QED BY <1>q, <1>t, <2>1, <2>2, <2>3, Moves
<1>13. CASE EndWell(l)
  <2>1. /\ at[l] = "running" /\ at' = [at EXCEPT ![l] = "idle"] /\ Release(l)
        /\ UNCHANGED <<calls, states>> /\ (Report(l, Now(l)) \/ UNCHANGED shown)
        /\ loop' = [loop EXCEPT ![l].armed = keyOf[l] \in Timed]
    BY <1>13 DEF EndWell, GoTo
  <2>2. /\ loop' \in [Loop -> LoopState]
        /\ \A j \in Loop : loop'[j].backingOff = loop[j].backingOff
    <3> DEFINE on == keyOf[l] \in Timed
    <3>1. on \in BOOLEAN
      OBVIOUS
    <3> HIDE DEF on
    <3>2. loop' = [loop EXCEPT ![l].armed = on]
      BY <2>1 DEF on
    <3> QED BY <1>t, <3>1, <3>2 DEF LoopState
  <2>3. LimitKept' /\ held' \in [Kind -> Nat]
    BY <1>0, <1>p, <2>1, SlotReturned DEF states
  <2>4. CASE Report(l, Now(l))
    BY <1>q, <1>s, <2>1, <2>2, <2>3, <2>4, ReportedMove
  <2>5. CASE UNCHANGED shown
    <3>1. /\ shown' \in [Key -> Series]
          /\ \A k \in Key : jobs[k] # l => shown'[k] = shown[k]
          /\ \A k \in Key : jobs[k] = l => /\ shown'[k].by = l
                                           /\ shown'[k].waiting <=> "idle" = "queueing"
                                           /\ shown'[k].backoff <=> loop'[l].backingOff
    BY <1>0, <1>p, <2>1, <2>2, <2>5, Unreported
    <3> QED BY <1>q, <2>1, <2>2, <2>3, <3>1, Moves
  <2> QED BY <2>1, <2>4, <2>5
<1>14. CASE EndFailed(l)
  <2> DEFINE series == [Now(l) EXCEPT !.backoff = TRUE]
  <2>1. /\ at[l] = "running" /\ at' = [at EXCEPT ![l] = "idle"] /\ Release(l)
        /\ UNCHANGED <<calls, states>> /\ Report(l, series)
        /\ loop' = [loop EXCEPT ![l].armed = TRUE, ![l].backingOff = TRUE]
    BY <1>14 DEF EndFailed, GoTo
  <2>2. /\ loop' \in [Loop -> LoopState] /\ loop'[l].backingOff
        /\ \A j \in Loop \ {l} : loop'[j].backingOff = loop[j].backingOff
    BY <1>t, <2>1 DEF LoopState
  <2>3. /\ series \in Series /\ series.by = l /\ series.backoff
        /\ series.waiting = Now(l).waiting
    BY <1>s, <2>1 DEF Series
  <2>4. LimitKept' /\ held' \in [Kind -> Nat]
    BY <1>0, <1>p, <2>1, SlotReturned DEF states
  <2> QED BY ZenonT(40), <1>q, <1>s, <2>1, <2>2, <2>3, <2>4, ReportedMove
<1> QED BY <1>1, <1>2, <1>3, <1>4, <1>5, <1>6, <1>7, <1>8, <1>9, <1>10, <1>11, <1>12, <1>13, <1>14
        DEF LoopStep, GoOn, EndRun

-----------------------------------------------------------------------------
(* What the scheduler keeps to. *)

\* The invariant holds in every state.
THEOREM SchedulerCorrect == Spec => []SchedulerInv
<1>1. SchedulerInv /\ [Next]_vars => SchedulerInv'
  <2> SUFFICES ASSUME SchedulerInv, [Next]_vars PROVE SchedulerInv'
    OBVIOUS
  <2>1. CASE Next
    BY <2>1, LoopStepSound, CallStepSound DEF Next
  <2>2. CASE UNCHANGED vars
    <3>1. TypeOK' /\ CallInv'
      BY <2>2 DEF SchedulerInv, TypeOK, CallInv, vars, calls, states
    <3>2. LoopInv' /\ LimitKept' /\ SeriesTrue'
      BY <2>2, LoopsKept DEF SchedulerInv, vars
    <3> QED BY <3>1, <3>2 DEF SchedulerInv
  <2> QED BY <2>1, <2>2
<1> QED BY <1>1, InitSound, PTL DEF Spec

\* Every variable has its type, for any number of jobs, callers and wakers.
THEOREM TypeCorrect == Spec => []TypeOK
<1>1. SchedulerInv => TypeOK
  BY DEF SchedulerInv
<1> QED BY <1>1, SchedulerCorrect, PTL

\* Never two runs of one key run at once, through any chain of removals and
\* ensures (Ensure waits for the removed loop before it begins its own).
THEOREM OneRunCorrect == Spec => []AtMostOneRun
<1>1. SchedulerInv => AtMostOneRun
  <2> SUFFICES ASSUME SchedulerInv, NEW l \in Loop, NEW m \in Loop,
                      at[l] = "running", at[m] = "running", keyOf[l] = keyOf[m]
               PROVE  l = m
    BY DEF AtMostOneRun
  <2>1. l <= made /\ m <= made
    BY DEF SchedulerInv, LoopInv
  <2>2. ~(l < m) /\ ~(m < l)
    BY <2>1 DEF SchedulerInv, LoopInv
  <2> QED BY <2>2 DEF Loop
<1> QED BY <1>1, SchedulerCorrect, PTL

\* No kind has more runs between take and the slot's return than its limit has
\* slots, and none of its slots is lost or given back twice.
THEOREM LimitCorrect == Spec => []LimitKept
<1>1. SchedulerInv => LimitKept
  BY DEF SchedulerInv
<1> QED BY <1>1, SchedulerCorrect, PTL

\* A key's series are always those of the loop that has the key (owned, Remove).
THEOREM SeriesCorrect == Spec => []SeriesTrue
<1>1. SchedulerInv => SeriesTrue
  BY DEF SchedulerInv
<1> QED BY <1>1, SchedulerCorrect, PTL

\* No wake is lost before a run has started after it.
THEOREM WakeCorrect == Spec => []WakeKept
<1>1. Init => WakeKept
  BY DEF Init, WakeKept
<1>2. ASSUME SchedulerInv, WakeKept, [Next]_vars
      PROVE  WakeKept'
  <2>0. TypeOK /\ CallInv /\ loop \in [Loop -> LoopState] /\ at \in [Loop -> Places]
    BY <1>2 DEF SchedulerInv, TypeOK
  <2> DEFINE Kept(l) == loop[l].owed =>
                           loop[l].token \/ at[l] \in {"fired", "queueing", "ready", "returned"}
  <2>1. ASSUME NEW l \in Loop, LoopStep(l) PROVE WakeKept'
    <3>1. \A j \in Loop \ {l} : loop'[j] = loop[j] /\ at'[j] = at[j]
      BY <2>0, <2>1 DEF LoopStep, GoOn, EndRun, Begin, SeeDone, Fire, TakeWake, EndBackoff, Answer,
                        Queue, Serve, QuitQueue, StartRun, Progress, EndCancelled, EndWell,
                        EndFailed, GoTo, Drained
    <3>2. Kept(l)'
      <4>0. Kept(l) /\ loop[l] \in LoopState
        BY <1>2, <2>0 DEF WakeKept
      <4>1. CASE Begin(l) \/ SeeDone(l) \/ Fire(l) \/ TakeWake(l) \/ EndBackoff(l)
        BY <2>0, <4>0, <4>1 DEF Begin, SeeDone, Fire, TakeWake, EndBackoff, GoTo, LoopState
      <4>2. CASE Answer(l) \/ Queue(l) \/ Serve(l) \/ QuitQueue(l)
        BY <2>0, <4>2 DEF Answer, Queue, Serve, QuitQueue, GoTo
      <4>3. CASE StartRun(l)
        BY <2>0, <4>0, <4>3 DEF StartRun, LoopState
      <4>4. CASE Progress(l) \/ EndCancelled(l)
        BY <2>0, <4>0, <4>4 DEF Progress, EndCancelled, GoTo
      <4>5. CASE EndWell(l) \/ EndFailed(l)
        <5>1. at[l] = "running" /\ loop'[l].owed = loop[l].owed /\ loop'[l].token = loop[l].token
          BY <2>0, <4>0, <4>5 DEF EndWell, EndFailed, LoopState
        <5> QED BY <4>0, <5>1
      <4> QED BY <2>1, <4>1, <4>2, <4>3, <4>4, <4>5 DEF LoopStep, GoOn, EndRun
    <3> QED BY <1>2, <3>1, <3>2 DEF WakeKept
  <2>2. ASSUME NEW w \in Waker, WakeSent(w) PROVE WakeKept'
    <3>1. /\ at' = at
          /\ \A j \in Loop : loop'[j].owed => loop'[j].token \/ (loop[j].owed /\ loop'[j].token = loop[j].token)
      BY <2>0, <2>2 DEF WakeSent, LoopState
    <3> QED BY <1>2, <3>1 DEF WakeKept
  <2>3. ASSUME NEW c \in Caller, NEW k \in Key, RemoveMarked(c, k) PROVE WakeKept'
    <3>1. at' = at /\ \A j \in Loop : loop'[j].owed = loop[j].owed /\ loop'[j].token = loop[j].token
      BY <2>0, <2>3 DEF RemoveMarked, LoopState
    <3> QED BY <1>2, <3>1 DEF WakeKept
  <2>4. ASSUME NEW c \in Caller, RemoveCancelled(c) PROVE WakeKept'
    <3>1. at' = at /\ \A j \in Loop : loop'[j].owed = loop[j].owed /\ loop'[j].token = loop[j].token
      BY <2>0, <2>4 DEF RemoveCancelled, LoopState
    <3> QED BY <1>2, <3>1 DEF WakeKept
  <2>5. ASSUME NEW c \in Caller, EnsureStarted(c) PROVE WakeKept'
    <3>1. /\ loop' = loop
          /\ \A j \in Loop : at'[j] = at[j] \/ at[j] = "none"
      <4>1. at[made + 1] = "none" \/ made + 1 \notin Loop
        <5>1. made \in Nat
          BY <1>2, LoopBound DEF SchedulerInv, TypeOK
        <5> QED BY <1>2, <5>1 DEF SchedulerInv, LoopInv
      <4> QED BY <2>0, <2>5, <4>1 DEF EnsureStarted
    <3> QED BY <1>2, <3>1 DEF WakeKept
  <2>6. CASE UNCHANGED <<at, loop>>
    BY <1>2, <2>6 DEF WakeKept
  <2> QED BY <1>2, <2>1, <2>2, <2>3, <2>4, <2>5, <2>6
          DEF Next, CallStep, WakeStep, StopStep, EnsureChecked, RemoveReturned, CallerReturns,
              WakeRead, ContextEnds, StopCalled, StopReturned, vars
<1> QED BY <1>1, <1>2, SchedulerCorrect, PTL DEF Spec

\* Once Stop has returned, every loop and every call it waits for has.
StoppedInv == stop = "returned" => AllReturned

LEMMA StoppedCorrect == Spec => []StoppedInv
<1>1. Init => StoppedInv
  BY DEF Init, StoppedInv
<1>2. ASSUME TypeOK, CallInv, StoppedInv, [Next]_vars
      PROVE  StoppedInv'
  <2>1. ASSUME NEW l \in Loop, LoopStep(l) PROVE StoppedInv'
    <3>1. at[l] \notin {"none", "returned"} /\ UNCHANGED calls
      BY <2>1 DEF LoopStep, GoOn, EndRun, Begin, SeeDone, Fire, TakeWake, EndBackoff, Answer, Queue,
                  Serve, QuitQueue, StartRun, Progress, EndCancelled, EndWell, EndFailed
    <3> QED BY <1>2, <3>1 DEF StoppedInv, AllReturned, calls
  <2>2. ASSUME NEW c \in Caller, CallStep(c) PROVE StoppedInv'
    <3>1. call[c].op # "over" /\ UNCHANGED stop
      BY <2>2 DEF CallStep, EnsureChecked, EnsureStarted, RemoveMarked, RemoveCancelled,
                  RemoveReturned, CallerReturns, Idle
    <3> QED BY <1>2, <3>1 DEF StoppedInv, AllReturned
  <2>3. ASSUME NEW w \in Waker, WakeStep(w) PROVE StoppedInv'
    <3>1. /\ UNCHANGED <<stop, at>> /\ w \notin Caller
          /\ \E new \in {NoCall} \cup {[op |-> "send", key |-> k, loop |-> jobs[k]] : k \in Key} :
                call' = [call EXCEPT ![w] = new]
      BY <2>3, CallerAssumption DEF WakeStep, WakeRead, WakeSent, Enter, Leave
    <3>2. \A c \in Caller : call'[c] = call[c]
      BY <1>2, <3>1 DEF TypeOK
    <3> QED BY <1>2, <3>1, <3>2 DEF StoppedInv, AllReturned
  <2>4. CASE StopStep \/ UNCHANGED vars
    BY <1>2, <2>4 DEF StopStep, ContextEnds, StopCalled, StopReturned, StoppedInv, AllReturned, vars, calls
  <2> QED BY <1>2, <2>1, <2>2, <2>3, <2>4 DEF Next
<1>3. SchedulerInv => TypeOK /\ CallInv
  BY DEF SchedulerInv
<1> QED BY <1>1, <1>2, <1>3, SchedulerCorrect, PTL DEF Spec

\* Once Stop has returned no loop is left and none starts.
THEOREM StopCorrect == Spec => []StopWaitsForAll
<1>1. StoppedInv => StopWaitsForAll
  BY DEF StoppedInv, StopWaitsForAll, AllReturned
<1> QED BY <1>1, StoppedCorrect, PTL

-----------------------------------------------------------------------------
(* The scheduler implements the runs of jobs. *)

UnderWayOf(l) == [run |-> l, key |-> keyOf[l]]

\* A run under way is of an ensured job, the only one of it, and its loop has not
\* returned.
LEMMA RunFacts ==
    ASSUME TypeOK, LoopInv, StoppedInv, NEW l \in Loop, at[l] \notin {"none", "starting", "returned"}
    PROVE  /\ keyOf[l] \in Ensured /\ stop # "returned"
           /\ l \notin Busy => Runs!RunsOf(keyOf[l]) = {}
<1>1. keyOf[l] \in Key /\ l <= made
  BY LoopFacts
<1>2. jobs[keyOf[l]] # 0
  BY <1>1 DEF LoopInv
<1>3. stop # "returned"
  BY DEF StoppedInv, AllReturned
<1>4. ASSUME NEW m \in Busy, keyOf[m] = keyOf[l] PROVE m = l
  <2>1. m \in Loop /\ at[m] \in {"ready", "running"}
    BY DEF Busy
  <2>2. m <= made
    BY <2>1 DEF LoopInv
  <2>3. ~(l < m) /\ ~(m < l)
    BY <1>1, <1>4, <2>1, <2>2 DEF LoopInv
  <2> QED BY <2>1, <2>3 DEF Loop
<1>5. l \notin Busy => Runs!RunsOf(keyOf[l]) = {}
  BY <1>4 DEF Runs!RunsOf, UnderWay
<1> QED BY <1>1, <1>2, <1>3, <1>5 DEF Ensured

\* The runs beside a job's are no more than the slots taken of its kind.
LEMMA BesideHeld ==
    ASSUME TypeOK, LoopInv, LimitKept, NEW k \in Key
    PROVE  /\ Cardinality(Runs!Beside(k)) \in Nat
           /\ Cardinality(Runs!Beside(k)) <= held[KindOf[k]]
<1> DEFINE d == KindOf[k]
           Image == {UnderWayOf(l) : l \in Holders(d)}
<1>1. d \in Kind
  BY KeyAssumption
<1>2. IsFiniteSet(Holders(d)) /\ held[d] = Cardinality(Holders(d))
  BY <1>1, HoldersFinite DEF LimitKept
<1>3. IsFiniteSet(Image) /\ Cardinality(Image) <= Cardinality(Holders(d))
  <2> DEFINE f == [l \in Holders(d) |-> UnderWayOf(l)]
  <2>1. f \in Surjection(Holders(d), Image)
    BY DEF Surjection
  <2> HIDE DEF f, Image, d
  <2> QED BY <1>2, <2>1, FS_Surjection
<1>4. Runs!Beside(k) \subseteq Image
  BY DEF Runs!Beside, UnderWay, UnderWayOf, Busy, Holders, Slot
<1>5. /\ IsFiniteSet(Runs!Beside(k)) /\ Cardinality(Runs!Beside(k)) <= Cardinality(Image)
      /\ Cardinality(Runs!Beside(k)) \in Nat /\ Cardinality(Image) \in Nat
  BY <1>3, <1>4, FS_Subset, FS_CardinalityType
<1>6. Cardinality(Holders(d)) \in Nat
  BY <1>2, FS_CardinalityType
<1> QED BY <1>2, <1>3, <1>5, <1>6

\* A loop that takes its run's slot starts a run (take).
LEMMA RunStarts ==
    ASSUME TypeOK, LoopInv, LimitKept, StoppedInv, NEW l \in Loop,
           at[l] \in {"fired", "queueing"}, keyOf[l] \in Limited => HasSlot(l),
           GoTo(l, "ready"), UNCHANGED <<jobs, keyOf, stop>>
    PROVE  Runs!Next
<1>1. keyOf[l] \in Key /\ Slot(l) \in Kind
  BY LoopFacts
<1>2. l \notin Busy
  BY DEF Busy
<1>3. keyOf[l] \in Ensured /\ Runs!RunsOf(keyOf[l]) = {} /\ stop # "returned"
  BY <1>2, RunFacts
<1>4. keyOf[l] \in Limited => Cardinality(Runs!Beside(keyOf[l])) < SlotsOf[KindOf[keyOf[l]]]
  <2> SUFFICES ASSUME keyOf[l] \in Limited
               PROVE  Cardinality(Runs!Beside(keyOf[l])) < SlotsOf[KindOf[keyOf[l]]]
    OBVIOUS
  <2>1. held[KindOf[keyOf[l]]] < SlotsOf[KindOf[keyOf[l]]]
    BY DEF HasSlot, Slot
  <2>2. held[KindOf[keyOf[l]]] \in Nat /\ SlotsOf[KindOf[keyOf[l]]] \in Nat
    BY <1>1, SlotAssumption DEF Slot, TypeOK
  <2> QED BY <1>1, <2>1, <2>2, BesideHeld
<1>5. UnderWay' = UnderWay \cup {[run |-> l, key |-> keyOf[l]]}
  <2>1. Busy' = Busy \cup {l}
    BY DEF Busy, GoTo, TypeOK
  <2> QED BY <2>1 DEF UnderWay
<1>6. Ensured' = Ensured
  BY DEF Ensured
<1>7. Runs!Start(keyOf[l])
  <2>1. \E n \in Loop : UnderWay' = UnderWay \cup {[run |-> n, key |-> keyOf[l]]}
    BY <1>5
  <2>2. UNCHANGED <<Ensured, stop = "returned">>
    BY <1>6
  <2> QED BY <1>3, <1>4, <2>1, <2>2 DEF Runs!Start, Cardinality, Runs!Cardinality
<1> QED BY <1>1, <1>3, <1>7 DEF Runs!Next

\* A run that ends is one that was under way (ask, run).
LEMMA RunFinishes ==
    ASSUME TypeOK, LoopInv, StoppedInv, NEW l \in Loop, at[l] = "running",
           NEW p \in {"idle", "returned"}, GoTo(l, p), UNCHANGED <<jobs, keyOf, stop>>
    PROVE  Runs!Next
<1>1. stop # "returned"
  BY RunFacts
<1>2. l \in Busy /\ Busy' = Busy \ {l}
  BY DEF Busy, GoTo, TypeOK
<1>3. UnderWayOf(l) \in UnderWay /\ UnderWay' = UnderWay \ {UnderWayOf(l)}
  BY <1>2 DEF UnderWay, UnderWayOf
<1>4. Ensured' = Ensured
  BY DEF Ensured
<1> QED BY <1>1, <1>3, <1>4 DEF Runs!Next, Runs!Finish

\* Every other move of a loop leaves the runs alone.
LEMMA RunsStay ==
    ASSUME TypeOK, NEW l \in Loop, NEW p \in Places, GoTo(l, p) \/ UNCHANGED at,
           GoTo(l, p) => (at[l] \in {"ready", "running"} <=> p \in {"ready", "running"}),
           UNCHANGED <<jobs, keyOf, stop>>
    PROVE  UNCHANGED Runs!vars
<1>1. Busy' = Busy
  BY DEF Busy, GoTo, TypeOK
<1>2. UnderWay' = UnderWay
  BY <1>1 DEF UnderWay
<1>3. Ensured' = Ensured
  BY DEF Ensured
<1> QED BY <1>2, <1>3 DEF Runs!vars

\* The steps of a loop start runs, end them or leave them alone.
LEMMA LoopStepRuns ==
    ASSUME TypeOK, LoopInv, LimitKept, StoppedInv, NEW l \in Loop, LoopStep(l)
    PROVE  [Runs!Next]_Runs!vars
<1>0. /\ UNCHANGED <<jobs, keyOf, stop>>
      /\ {"idle", "fired", "queueing", "ready", "running", "returned"} \subseteq Places
  BY DEF LoopStep, GoOn, EndRun, Begin, SeeDone, Fire, TakeWake, EndBackoff, Answer, Queue,
         Serve, QuitQueue, StartRun, Progress, EndCancelled, EndWell, EndFailed, calls, states, Places
<1>1. CASE Answer(l)
  BY <1>0, <1>1, RunStarts DEF Answer
<1>2. CASE Serve(l)
  BY <1>0, <1>2, RunStarts DEF Serve
<1>3. CASE EndRun(l)
  BY <1>0, <1>3, RunFinishes DEF EndRun, EndCancelled, EndWell, EndFailed
<1>4. CASE Begin(l) \/ SeeDone(l) \/ Fire(l) \/ TakeWake(l) \/ EndBackoff(l)
  BY <1>0, <1>4, RunsStay DEF Begin, SeeDone, Fire, TakeWake, EndBackoff
<1>5. CASE Queue(l) \/ QuitQueue(l) \/ StartRun(l) \/ Progress(l)
  BY <1>0, <1>5, RunsStay DEF Queue, QuitQueue, StartRun, Progress
<1> QED BY <1>1, <1>2, <1>3, <1>4, <1>5 DEF LoopStep, GoOn

\* An Ensure gives its key a job and starts no run of it yet.
LEMMA EnsureRuns ==
    ASSUME TypeOK, CallInv, LoopInv, StoppedInv, NEW c \in Caller, EnsureStarted(c)
    PROVE  Runs!Next
<1> DEFINE k == call[c].key  n == made + 1
<1>1. k \in Key /\ made \in Nat /\ n \in Loop /\ n # 0 /\ stop # "returned"
  BY LoopBound DEF EnsureStarted, CallInv, TypeOK, Loop, StoppedInv, AllReturned
<1>2. at[n] = "none"
  BY <1>1 DEF LoopInv
<1>3. Busy' = Busy /\ n \notin Busy
  BY <1>1, <1>2 DEF Busy, EnsureStarted, TypeOK
<1>4. UnderWay' = UnderWay
  <2>1. \A l \in Busy : keyOf'[l] = keyOf[l]
    BY <1>3 DEF EnsureStarted, TypeOK, Busy
  <2> QED BY <1>3, <2>1 DEF UnderWay
<1>5. Ensured' = Ensured \cup {k}
  BY <1>1 DEF Ensured, EnsureStarted, TypeOK
<1>6. UNCHANGED stop
  BY DEF EnsureStarted
<1>7. Runs!Ensure(k)
  BY <1>4, <1>5, <1>6 DEF Runs!Ensure
<1> QED BY <1>1, <1>7 DEF Runs!Next

\* A Remove that takes its key away comes after the key's last run.
LEMMA RemoveRuns ==
    ASSUME TypeOK, CallInv, LoopInv, StoppedInv, NEW c \in Caller, RemoveReturned(c)
    PROVE  [Runs!Next]_Runs!vars
<1> DEFINE k == call[c].key  l == call[c].loop
<1>0. /\ UNCHANGED <<stop, at, keyOf>> /\ at[l] = "returned"
      /\ jobs' = IF jobs[k] = l THEN [jobs EXCEPT ![k] = 0] ELSE jobs
  BY DEF RemoveReturned
<1>1. l \in 1..made /\ l \in Loop /\ keyOf[l] = k /\ k \in Key
  <2>1. call[c].op = "await"
    BY DEF RemoveReturned
  <2>2. l \in 1..made /\ keyOf[l] = k
    BY <2>1 DEF CallInv
  <2>3. l \in Loop
    BY <2>2, LoopBound DEF TypeOK, Loop
  <2>4. at[l] # "none"
    BY <1>0
  <2> QED BY <2>2, <2>3, <2>4, LoopFacts
<1>2. UnderWay' = UnderWay /\ UNCHANGED stop
  BY <1>0 DEF UnderWay, Busy
<1>3. CASE jobs[k] = l
  <2>1. ASSUME NEW m \in Busy, keyOf[m] = k PROVE FALSE
    <3>1. m \in Loop /\ at[m] \in {"ready", "running"} /\ m <= made
      BY DEF Busy, LoopInv
    <3>2. m <= l
      BY <1>1, <1>3, <2>1, <3>1 DEF LoopInv
    <3>3. m < l
      BY <1>0, <3>1, <3>2, <1>1 DEF Loop
    <3> QED BY <1>0, <1>1, <2>1, <3>1, <3>3 DEF LoopInv
  <2>2. Runs!RunsOf(k) = {}
    BY <2>1 DEF Runs!RunsOf, UnderWay
  <2>3. Ensured' = Ensured \ {k}
    BY <1>0, <1>1, <1>3 DEF Ensured, TypeOK
  <2>4. stop # "returned"
    BY DEF RemoveReturned, StoppedInv, AllReturned
  <2> QED BY <1>1, <1>2, <2>2, <2>3, <2>4 DEF Runs!Next, Runs!Remove
<1>4. CASE jobs[k] # l
  <2>1. Ensured' = Ensured
    BY <1>0, <1>4 DEF Ensured
  <2> QED BY <1>2, <2>1 DEF Runs!vars
<1> QED BY <1>3, <1>4

\* A Stop that returns leaves no run under way.
LEMMA StopRuns ==
    ASSUME StopReturned PROVE Runs!Next
<1>1. UnderWay = {}
  BY DEF StopReturned, AllReturned, UnderWay, Busy
<1>2. UnderWay' = UnderWay /\ Ensured' = Ensured
  BY DEF StopReturned, UnderWay, Busy, Ensured, states
<1> QED BY <1>1, <1>2 DEF StopReturned, Runs!Next, Runs!Stop

\* Whatever the jobs, kinds, limits and callers, the scheduler's loops, lock and calls
\* keep the promise of the runs: each is of an ensured job, alone and in a slot of its
\* kind, and a Remove or a Stop that waits for it returns after it (Ensure, Remove,
\* Stop, loop, take).
THEOREM RunsCorrect == Spec => RunsKept
<1>1. Init => Runs!Init
  BY LoopBound DEF Init, Runs!Init, UnderWay, Busy, Ensured
<1>2. SchedulerInv /\ StoppedInv /\ [Next]_vars => [Runs!Next]_Runs!vars
  <2> SUFFICES ASSUME TypeOK, CallInv, LoopInv, LimitKept, StoppedInv, [Next]_vars
               PROVE  [Runs!Next]_Runs!vars
    BY DEF SchedulerInv
  <2>1. ASSUME UNCHANGED <<jobs, at, keyOf>>, UNCHANGED stop \/ StopCalled
        PROVE  UNCHANGED Runs!vars
    BY <2>1 DEF Runs!vars, UnderWay, Busy, Ensured, StopCalled
  <2>2. ASSUME NEW l \in Loop, LoopStep(l) PROVE [Runs!Next]_Runs!vars
    BY <2>2, LoopStepRuns
  <2>3. ASSUME NEW c \in Caller, CallStep(c) PROVE [Runs!Next]_Runs!vars
    <3>1. CASE EnsureStarted(c) \/ RemoveReturned(c)
      BY <3>1, EnsureRuns, RemoveRuns
    <3>2. CASE \/ \E k \in Key : EnsureChecked(c, k) \/ RemoveMarked(c, k)
               \/ RemoveCancelled(c) \/ CallerReturns(c)
      BY <2>1, <3>2 DEF EnsureChecked, RemoveMarked, RemoveCancelled, CallerReturns, states
    <3> QED BY <2>3, <3>1, <3>2 DEF CallStep
  <2>4. ASSUME NEW w \in Waker, WakeStep(w) PROVE UNCHANGED Runs!vars
    BY <2>1, <2>4 DEF WakeStep, WakeRead, WakeSent, states
  <2>5. CASE StopStep
    <3>1. CASE ContextEnds \/ StopCalled
      BY <2>1, <3>1 DEF ContextEnds, StopCalled, states
    <3> QED BY <2>5, <3>1, StopRuns DEF StopStep
  <2>6. CASE UNCHANGED vars
    BY <2>1, <2>6 DEF vars, calls, states
  <2> QED BY <2>2, <2>3, <2>4, <2>5, <2>6 DEF Next
<1> QED BY <1>1, <1>2, SchedulerCorrect, StoppedCorrect, PTL DEF Spec, RunsKept, Runs!Spec

=============================================================================
