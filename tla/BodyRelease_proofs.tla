-------------------------- MODULE BodyRelease_proofs --------------------------
(***************************************************************************)
(* Proofs of BodyRelease: its type invariant, that a restriction kept since *)
(* a request came binds it, that no reload puts back an older policy, and  *)
(* that what leaves is checked and audited.                                *)
(***************************************************************************)
EXTENDS BodyRelease, TLAPS

\* A loader's caller reads while it holds the lock, and has read nothing otherwise.
LockInv ==
    \A l \in Loader :
        /\ load[l].step = "read" <=> turn = l
        /\ load[l].step /= "read" => load[l].of = Unread /\ load[l].base = 0

\* What was read was read with the base rules of the first account's read.
OneBase(s) ==
    \A a \in Account : s.of[a] /= 0 => s.base /= 0 /\ tables[s.of[a]][Base] = tables[s.base][Base]

SnapshotInv == OneBase(active) /\ \A l \in Loader : OneBase(load[l])

\* What a load reads is as new as the snapshot in force.
NewerInv ==
    \A l \in Loader, a, b \in Account : load[l].of[a] /= 0 => load[l].of[a] >= active.of[b]

\* What s was read at is no older than the request's arrival.
SinceArrival(s, r) == \A a \in Account : s.of[a] /= 0 => s.of[a] >= request[r].since

\* A round's load reads after its requests came, and what the loader holds from then on
\* is as new.
RoundInv ==
    \A r \in Request :
        /\ request[r].at = "idle" => r \notin current \cup next
        /\ r \in current /\ request[r].at = "waiting" => SinceArrival(load["request"], r)
        /\ request[r].at = "loaded" =>
             SinceArrival(active, r) /\ \A l \in Loader : SinceArrival(load[l], r)

\* The rules of one moment since the request came allow its sender.
Allowed(r) == \E v \in request[r].since..Now : SenderAt(r) \notin Composed(v, AccountAt(r))

Passed(r) ==
    \/ request[r].at = "reading" /\ SenderAt(r) \notin request[r].restricted
    \/ request[r].at = "fetching" \/ request[r].verdict = "released"

\* From its arrival on a request has a version to be decided by, and what goes on was
\* allowed.
GateInv ==
    \A r \in Request :
        /\ request[r].at \in {"waiting", "loaded", "reading", "fetching"} => request[r].since >= 1
        /\ request[r].verdict = "released" => request[r].since >= 1
        /\ Passed(r) => Allowed(r)

\* What is released holds no match, and an answer has its row.
AuditInv ==
    \A r \in Request :
        /\ request[r].verdict = "released" => request[r].matches = {}
        /\ request[r].at = "answered" => audit[r] = request[r].verdict

Inv == TypeOK /\ LockInv /\ SnapshotInv /\ NewerInv /\ RoundInv /\ GateInv /\ AuditInv

-----------------------------------------------------------------------------
\* The operators of a loader's callers and of a request's record.
LoadState == [step: Step, base: 0..Now, of: [Account -> 0..Now], again: BOOLEAN]
Held == [at: At, since: 0..Now, restricted: Rules, state: RowState, matches: SUBSET Part,
         verdict: {"none", "released", "denied"}]

\* A request's account and sender are those of its message.
LEMMA Placed == \A r \in Request : AccountAt(r) \in Account /\ SenderAt(r) \in Sender
BY MessageAssumption DEF AccountAt, SenderAt

\* The versions there are stay what they are when one is added.
LEMMA Appended ==
    ASSUME TypeOK, NEW t \in Tables, tables' = Append(tables, t)
    PROVE  /\ tables' \in Seq(Tables) /\ Now' = Now + 1
           /\ \A v \in 1..Now : tables'[v] = tables[v]
BY DEF TypeOK, Now

\* An account's policy by a snapshot that read it is that of the moment it was read.
LEMMA OneMoment ==
    ASSUME NEW s, OneBase(s), NEW a \in Account, s.of[a] /= 0
    PROVE  PolicyOf(s, a) = Composed(s.of[a], a)
BY DEF OneBase, PolicyOf, Composed

\* The initial states satisfy the invariant.
LEMMA InitInv == Init => Inv
<1> SUFFICES ASSUME Init PROVE Inv
  OBVIOUS
<1>0. PICK t \in First : tables = <<t>>
  BY DEF Init
<1>1. tables \in Seq(Tables) /\ Now = 1
  BY <1>0, FirstAssumption DEF Tables, Rules, Now
<1>2. Unread \in [Account -> 0..Now] /\ \A a \in Account : Unread[a] = 0
  BY <1>1 DEF Unread
<1>3. TypeOK
  <2>1. Idle \in LoadState
    BY <1>1, <1>2 DEF Idle, LoadState, Step
  <2>2. NoRequest \in Held
    BY <1>1 DEF NoRequest, Held, At, Rules, RowState, Part
  <2>3. NoSnapshot \in [base: 0..Now, of: [Account -> 0..Now]]
    BY <1>1, <1>2 DEF NoSnapshot
  <2>4. load \in [Loader -> LoadState] /\ request \in [Request -> Held]
    BY <2>1, <2>2 DEF Init
  <2>5. turn \in Loader \cup {NoOne} /\ audit \in [Request -> {"none", "released", "denied"}]
    BY DEF Init
  <2>6. tables \in Seq(Tables) /\ Now >= 1
    BY <1>1
  <2>8. known \subseteq Account /\ next \subseteq Request /\ current \subseteq Request
        /\ running \in BOOLEAN
    BY Zenon DEF Init
  <2>7. active \in [base: 0..Now, of: [Account -> 0..Now]]
    BY <2>3 DEF Init
  <2> QED
    BY <2>4, <2>5, <2>6, <2>7, <2>8 DEF TypeOK, LoadState, Held
<1>4. LockInv
  BY DEF Init, LockInv, Idle, Loader, NoOne
<1>5. SnapshotInv /\ NewerInv
  BY <1>2 DEF Init, SnapshotInv, NewerInv, OneBase, Idle, NoSnapshot
<1>6. RoundInv /\ GateInv /\ AuditInv
  BY DEF Init, RoundInv, GateInv, AuditInv, Passed, NoRequest
<1> QED BY <1>3, <1>4, <1>5, <1>6 DEF Inv

-----------------------------------------------------------------------------
\* A request's own step: what it holds is replaced, and nothing else it is judged by
\* changes.
LEMMA RequestSet ==
    ASSUME Inv, NEW r \in Request, NEW h \in Held, Set(r, h),
           UNCHANGED <<tables, loader, current>>,
           next' \subseteq Request, running' \in BOOLEAN,
           \A q \in Request : q \in next' /\ q \notin next => q = r,
           audit' \in [Request -> {"none", "released", "denied"}],
           \A q \in Request : q /= r => audit'[q] = audit[q],
           h.at /= "idle",
           h.at = "waiting" => r \notin current,
           h.at = "loaded" => h.since = 1,
           h.at \in {"waiting", "loaded", "reading", "fetching"} \/ h.verdict = "released" => h.since >= 1,
           (h.at = "reading" /\ SenderAt(r) \notin h.restricted) \/ h.at = "fetching" \/ h.verdict = "released"
             => \E v \in h.since..Now : SenderAt(r) \notin Composed(v, AccountAt(r)),
           h.verdict = "released" => h.matches = {},
           h.at = "answered" => audit'[r] = h.verdict
    PROVE  Inv'
<1>1. /\ request'[r] = h
      /\ \A q \in Request : q /= r => request'[q] = request[q]
      /\ request' \in [Request -> Held]
  BY DEF Inv, TypeOK, Set, Held
<1>2. TypeOK'
  BY <1>1 DEF Inv, TypeOK, loader, Now, Held
<1>3. LockInv' /\ SnapshotInv' /\ NewerInv'
  BY DEF Inv, LockInv, SnapshotInv, NewerInv, OneBase, loader, Unread
<1>4. RoundInv'
  <2> SUFFICES ASSUME NEW q \in Request
      PROVE  /\ request'[q].at = "idle" => q \notin current \cup next'
             /\ q \in current /\ request'[q].at = "waiting" => SinceArrival(load["request"], q)'
             /\ request'[q].at = "loaded" =>
                  SinceArrival(active, q)' /\ \A l \in Loader : SinceArrival(load[l], q)'
    BY DEF RoundInv, loader
  <2>1. CASE q = r
    BY <1>1, <2>1 DEF Inv, TypeOK, SinceArrival, loader, Loader
  <2>2. CASE q /= r
    BY <1>1, <2>2 DEF Inv, RoundInv, SinceArrival, loader
  <2> QED BY <2>1, <2>2
<1>5. GateInv'
  <2> SUFFICES ASSUME NEW q \in Request
      PROVE  /\ request'[q].at \in {"waiting", "loaded", "reading", "fetching"} => request'[q].since >= 1
             /\ request'[q].verdict = "released" => request'[q].since >= 1
             /\ Passed(q)' => Allowed(q)'
    BY DEF GateInv
  <2>1. CASE q = r
    <3>1. Allowed(r)' <=> \E v \in h.since..Now : SenderAt(r) \notin Composed(v, AccountAt(r))
      BY <1>1 DEF Allowed, SenderAt, AccountAt, Composed, Now
    <3>2. Passed(r)' <=> \/ h.at = "reading" /\ SenderAt(r) \notin h.restricted
                        \/ h.at = "fetching" \/ h.verdict = "released"
      BY <1>1 DEF Passed, SenderAt
    <3>3. Passed(r)' => Allowed(r)'
      BY <3>1, <3>2
    <3>4. /\ request'[r].at \in {"waiting", "loaded", "reading", "fetching"} => request'[r].since >= 1
          /\ request'[r].verdict = "released" => request'[r].since >= 1
      BY <1>1
    <3> QED BY <2>1, <3>3, <3>4
  <2>2. CASE q /= r
    BY <1>1, <2>2 DEF Inv, GateInv, Passed, Allowed, SenderAt, AccountAt, Composed, Now
  <2> QED BY <2>1, <2>2
<1>6. AuditInv'
  BY <1>1 DEF Inv, AuditInv
<1> QED BY <1>2, <1>3, <1>4, <1>5, <1>6 DEF Inv

\* What a request holds once it is over or turned away.
LEMMA Turned ==
    ASSUME Inv, NEW r \in Request,
           UNCHANGED <<tables, loader, next, current, running>>,
           \/ Error(r) /\ audit' \in [Request -> {"none", "released", "denied"}]
                /\ \A q \in Request : q /= r => audit'[q] = audit[q]
           \/ Deny(r) /\ UNCHANGED audit
    PROVE  Inv'
<1>1. NoRequest \in Held
  <2>1. 0 \in 0..Now
    BY DEF Inv, TypeOK, Now
  <2> QED BY <2>1 DEF NoRequest, Held, At, Rules, RowState, Part
<1>2. CASE Error(r) /\ audit' \in [Request -> {"none", "released", "denied"}]
             /\ \A q \in Request : q /= r => audit'[q] = audit[q]
  <2> DEFINE h == [NoRequest EXCEPT !.at = "error"]
  <2>1. h \in Held /\ h.at = "error" /\ h.verdict = "none"
    BY <1>1 DEF NoRequest, Held, At
  <2>2. Set(r, h)
    BY <1>2 DEF Error
  <2> HIDE DEF h
  <2> QED BY <1>2, <2>1, <2>2, RequestSet DEF Inv, TypeOK
<1>3. CASE Deny(r) /\ UNCHANGED audit
  <2> DEFINE h == [NoRequest EXCEPT !.at = "auditing", !.verdict = "denied"]
  <2>1. h \in Held /\ h.at = "auditing" /\ h.verdict = "denied"
    BY <1>1 DEF NoRequest, Held, At
  <2>2. Set(r, h)
    BY <1>3 DEF Deny
  <2> HIDE DEF h
  <2> QED BY <1>3, <2>1, <2>2, RequestSet DEF Inv, TypeOK
<1> QED BY <1>2, <1>3

\* Every step of a request keeps the invariant.
LEMMA RequestStep ==
    ASSUME Inv, NEW r \in Request, Arrive(r) \/ GiveUp(r) \/ RequestNext(r)
    PROVE  Inv'
<1>0. /\ request[r] \in Held /\ NoRequest \in Held /\ Now >= 1 /\ Now \in Nat
      /\ audit \in [Request -> {"none", "released", "denied"}]
      /\ request[r].since \in Nat
  BY DEF Inv, TypeOK, NoRequest, Held, At, Rules, RowState, Part, Now
<1>1. CASE Arrive(r)
  <2>1. CASE Join(r) /\ Set(r, [NoRequest EXCEPT !.at = "waiting", !.since = Now])
    <3> DEFINE h == [NoRequest EXCEPT !.at = "waiting", !.since = Now]
    <3>1. h \in Held /\ h.at = "waiting" /\ h.since = Now /\ h.verdict = "none"
      <4>1. Now \in 0..Now
        BY <1>0
      <4>2. h.at = "waiting" /\ h.since = Now /\ h.verdict = "none"
        BY DEF NoRequest
      <4> QED BY <1>0, <4>1, <4>2 DEF Held, At
    <3>2. Set(r, h) /\ r \notin current
      BY <1>1, <2>1 DEF Arrive, Inv, RoundInv
    <3>3. /\ UNCHANGED <<tables, loader, current, audit>> /\ next' = next \cup {r}
          /\ next' \subseteq Request /\ running' \in BOOLEAN
      BY <1>1, <2>1 DEF Arrive, Join, RequestKeeps, Inv, TypeOK
    <3> HIDE DEF h
    <3> QED BY <1>0, <3>1, <3>2, <3>3, RequestSet
  <2>2. CASE /\ Set(r, [NoRequest EXCEPT !.at = "loaded", !.since = Since(Now, "failed")])
             /\ UNCHANGED <<next, current, running>>
    <3> DEFINE h == [NoRequest EXCEPT !.at = "loaded", !.since = Since(Now, "failed")]
    <3>1. h \in Held /\ h.at = "loaded" /\ h.since = 1 /\ h.verdict = "none"
      <4>1. 1 \in 0..Now
        BY <1>0
      <4>2. h.at = "loaded" /\ h.since = 1 /\ h.verdict = "none"
        BY DEF NoRequest, Since
      <4> QED BY <1>0, <4>1, <4>2 DEF Held, At, Since
    <3>2. Set(r, h)
      BY <2>2
    <3>3. UNCHANGED <<tables, loader, next, current, running, audit>>
      BY <1>1, <2>2 DEF Arrive, RequestKeeps
    <3>4. /\ next' = next /\ next' \subseteq Request /\ running' \in BOOLEAN
          /\ audit' = audit /\ UNCHANGED <<tables, loader, current>>
      BY <3>3 DEF Inv, TypeOK
    <3> HIDE DEF h
    <3> QED BY <1>0, <3>1, <3>2, <3>4, RequestSet
  <2> QED BY <1>1, <2>1, <2>2 DEF Arrive
<1>2. CASE GiveUp(r)
  BY <1>0, <1>2, Turned DEF GiveUp, RequestKeeps
<1>3. CASE TakePolicy(r)
  <2> DEFINE a == AccountAt(r)
             h == [request[r] EXCEPT !.at = "reading", !.restricted = PolicyOf(active, a)]
  <2>1. a \in Account /\ SenderAt(r) \in Sender
    BY Placed
  <2>2. PolicyOf(active, a) \in Rules
    BY <2>1, ScopeAssumption DEF PolicyOf, Rules, Inv, TypeOK, Tables, SnapshotInv, OneBase, Now
  <2>3. h \in Held /\ h.at = "reading" /\ h.since = request[r].since /\ h.since >= 1
        /\ h.restricted = PolicyOf(active, a) /\ h.verdict = request[r].verdict /\ h.matches = request[r].matches
    BY <1>0, <1>3, <2>2 DEF TakePolicy, Held, At, Inv, GateInv
  <2>4. SenderAt(r) \notin PolicyOf(active, a) =>
          \E v \in request[r].since..Now : SenderAt(r) \notin Composed(v, a)
    <3> SUFFICES ASSUME SenderAt(r) \notin PolicyOf(active, a)
        PROVE  \E v \in request[r].since..Now : SenderAt(r) \notin Composed(v, a)
      OBVIOUS
    <3>1. active.of[a] /= 0
      BY <2>1 DEF PolicyOf
    <3>2. active.of[a] \in request[r].since..Now
      BY <1>0, <1>3, <2>1, <3>1 DEF TakePolicy, Inv, RoundInv, SinceArrival, TypeOK
    <3>3. PolicyOf(active, a) = Composed(active.of[a], a)
      BY <2>1, <3>1, OneMoment DEF Inv, SnapshotInv
    <3> QED BY <3>2, <3>3
  <2>5. request[r].verdict = "released" =>
          /\ request[r].matches = {}
          /\ \E v \in request[r].since..Now : SenderAt(r) \notin Composed(v, a)
    BY DEF Inv, AuditInv, GateInv, Passed, Allowed
  <2>6. Set(r, h) /\ UNCHANGED <<tables, loader, next, current, running, audit>>
    BY <1>3 DEF TakePolicy, RequestKeeps
  <2> HIDE DEF h
  <2> QED BY <1>0, <2>3, <2>4, <2>5, <2>6, RequestSet DEF Inv, TypeOK, a
<1>4. CASE ReadRow(r)
  <2>1. PICK state \in RowState :
           IF state = "none" THEN Error(r)
           ELSE IF state \in Releasable /\ SenderAt(r) \notin request[r].restricted
                THEN Set(r, [request[r] EXCEPT !.at = "fetching", !.state = state])
                ELSE Deny(r)
    BY <1>4 DEF ReadRow
  <2>2. request[r].at = "reading" /\ UNCHANGED <<tables, loader, next, current, running, audit>>
    BY <1>4 DEF ReadRow, RequestKeeps
  <2>3. CASE Error(r) \/ Deny(r)
    BY <1>0, <2>2, <2>3, Turned
  <2>4. CASE SenderAt(r) \notin request[r].restricted
             /\ Set(r, [request[r] EXCEPT !.at = "fetching", !.state = state])
    <3> DEFINE h == [request[r] EXCEPT !.at = "fetching", !.state = state]
    <3>1. h \in Held /\ h.at = "fetching" /\ h.since = request[r].since /\ h.since >= 1
          /\ h.verdict = request[r].verdict /\ h.matches = request[r].matches
      BY <1>0, <2>2 DEF Held, At, Inv, GateInv
    <3>2. \E v \in request[r].since..Now : SenderAt(r) \notin Composed(v, AccountAt(r))
      BY <2>2, <2>4 DEF Inv, GateInv, Passed, Allowed
    <3>3. request[r].verdict = "released" => request[r].matches = {}
      BY DEF Inv, AuditInv
    <3>4. Set(r, h)
      BY <2>4
    <3> HIDE DEF h
    <3> QED BY <1>0, <2>2, <3>1, <3>2, <3>3, <3>4, RequestSet DEF Inv, TypeOK
  <2> QED BY <2>1, <2>3, <2>4
<1>5. CASE Fetch(r)
  <2>2. request[r].at = "fetching" /\ UNCHANGED <<tables, loader, next, current, running, audit>>
    BY <1>5 DEF Fetch, RequestKeeps
  <2>3. CASE Deny(r)
    BY <1>0, <2>2, <2>3, Turned
  <2>4. ASSUME NEW matches \in SUBSET Part, request[r].state = "scanned" => "text" \notin matches,
               matches \cap Checked(request[r].state) = {}, Release(r, matches)
        PROVE  Inv'
    <3> DEFINE h == [request[r] EXCEPT !.at = "auditing", !.verdict = "released", !.matches = matches]
    <3>1. matches = {}
      BY <2>4 DEF Checked, Part
    <3>2. h \in Held /\ h.at = "auditing" /\ h.since = request[r].since /\ h.since >= 1
          /\ h.matches = matches
      BY <1>0, <2>2, <2>4 DEF Held, At, Inv, GateInv
    <3>3. \E v \in request[r].since..Now : SenderAt(r) \notin Composed(v, AccountAt(r))
      BY <2>2 DEF Inv, GateInv, Passed, Allowed
    <3>4. Set(r, h)
      BY <2>4 DEF Release
    <3> HIDE DEF h
    <3> QED BY <1>0, <2>2, <3>1, <3>2, <3>3, <3>4, RequestSet DEF Inv, TypeOK
  <2> QED BY <1>5, <2>3, <2>4 DEF Fetch
<1>6. CASE FailRequest(r)
  BY <1>0, <1>6, Turned DEF FailRequest, RequestKeeps
<1>7. CASE Answer(r)
  <2> DEFINE h == [request[r] EXCEPT !.at = "answered"]
  <2>1. h \in Held /\ h.at = "answered" /\ h.since = request[r].since
        /\ h.verdict = request[r].verdict /\ h.matches = request[r].matches
    BY <1>0 DEF Held, At
  <2>2. request[r].verdict = "released" =>
          /\ request[r].since >= 1 /\ request[r].matches = {}
          /\ \E v \in request[r].since..Now : SenderAt(r) \notin Composed(v, AccountAt(r))
    BY DEF Inv, AuditInv, GateInv, Passed, Allowed
  <2>3. /\ audit' \in [Request -> {"none", "released", "denied"}] /\ audit'[r] = request[r].verdict
        /\ \A q \in Request : q /= r => audit'[q] = audit[q]
    BY <1>0, <1>7 DEF Answer, Held
  <2>4. Set(r, h) /\ UNCHANGED <<tables, loader, next, current, running>>
    BY <1>7 DEF Answer, RequestKeeps
  <2> HIDE DEF h
  <2>5. next' \subseteq Request /\ running' \in BOOLEAN
    BY <1>0, <2>4 DEF Inv, TypeOK
  <2>6. UNCHANGED <<tables, loader, current>> /\ next' = next
    BY <2>4
  <2> QED BY ZenonT(40), <1>0, <2>1, <2>2, <2>3, <2>4, <2>5, <2>6, RequestSet
<1>8. CASE AuditFails(r)
  <2>1. /\ audit' \in [Request -> {"none", "released", "denied"}]
        /\ \A q \in Request : q /= r => audit'[q] = audit[q]
    BY <1>0, <1>8 DEF AuditFails, Held
  <2> QED BY <1>8, <2>1, Turned DEF AuditFails, RequestKeeps
<1> QED
  BY <1>1, <1>2, <1>3, <1>4, <1>5, <1>6, <1>7, <1>8 DEF RequestNext

-----------------------------------------------------------------------------
\* A write keeps the invariant: the versions read stay what they were.
LEMMA WriteStep == ASSUME Inv, Write PROVE Inv'
<1>1. PICK s \in Scope, rules \in Rules : tables' = Append(tables, [tables[Now] EXCEPT ![s] = rules])
  BY DEF Write
<1>2. [tables[Now] EXCEPT ![s] = rules] \in Tables
  <2>1. tables[Now] \in Tables
    BY DEF Inv, TypeOK, Now
  <2>2. rules \in Rules
    BY <1>1
  <2> QED BY <2>1, <2>2, Zenon DEF Tables
<1>3. /\ tables' \in Seq(Tables) /\ Now' = Now + 1 /\ Now \in Nat
      /\ \A v \in 1..Now : tables'[v] = tables[v]
  BY <1>1, <1>2, Appended DEF Inv, TypeOK, Now
<1>4. UNCHANGED <<loader, rounds, requests>>
  BY DEF Write
<1>5. TypeOK'
  <2>1. 0..Now \subseteq 0..Now' /\ Now' >= 1
    BY <1>3 DEF Inv, TypeOK
  <2>2. load' \in [Loader -> [step: Step, base: 0..Now', of: [Account -> 0..Now'], again: BOOLEAN]]
    BY <1>4, <2>1 DEF Inv, TypeOK, loader
  <2>3. active' \in [base: 0..Now', of: [Account -> 0..Now']]
    BY <1>4, <2>1 DEF Inv, TypeOK, loader
  <2>4. request' \in [Request -> [at: At, since: 0..Now', restricted: Rules, state: RowState,
                                  matches: SUBSET Part, verdict: {"none", "released", "denied"}]]
    BY <1>4, <2>1 DEF Inv, TypeOK, requests
  <2> QED
    BY <1>3, <1>4, <2>1, <2>2, <2>3, <2>4 DEF Inv, TypeOK, loader, rounds, requests
<1>6. LockInv' /\ NewerInv' /\ AuditInv'
  BY <1>4 DEF Inv, LockInv, NewerInv, AuditInv, loader, requests, Unread
<1>7. SnapshotInv'
  <2>1. ASSUME NEW s2, s2.base \in 0..Now, s2.of \in [Account -> 0..Now], OneBase(s2)
        PROVE  \A a \in Account : s2.of[a] /= 0 =>
                 s2.base /= 0 /\ tables'[s2.of[a]][Base] = tables'[s2.base][Base]
    BY <1>3, <2>1 DEF OneBase
  <2>2. active.base \in 0..Now /\ active.of \in [Account -> 0..Now]
    BY DEF Inv, TypeOK
  <2>3. \A l \in Loader : load[l].base \in 0..Now /\ load[l].of \in [Account -> 0..Now]
    BY DEF Inv, TypeOK
  <2>4. OneBase(active)'
    BY <1>4, <2>1, <2>2 DEF Inv, SnapshotInv, OneBase, loader
  <2>5. \A l \in Loader : OneBase(load[l])'
    BY <1>4, <2>1, <2>3 DEF Inv, SnapshotInv, OneBase, loader
  <2> QED BY <2>4, <2>5 DEF SnapshotInv
<1>8. RoundInv'
  BY <1>4 DEF Inv, RoundInv, SinceArrival, loader, rounds, requests
<1>9. GateInv'
  <2> SUFFICES ASSUME NEW r \in Request, Passed(r)
      PROVE  Allowed(r)'
    BY <1>4 DEF Inv, GateInv, Passed, SenderAt, requests
  <2>1. PICK v \in request[r].since..Now : SenderAt(r) \notin Composed(v, AccountAt(r))
    BY DEF Inv, GateInv, Allowed
  <2>2. request[r].since >= 1 /\ request[r].since \in Nat
    BY DEF Inv, TypeOK, GateInv, Passed
  <2>3. v \in 1..Now /\ v \in request[r].since..Now'
    BY <1>3, <2>1, <2>2
  <2>4. SenderAt(r) \notin Composed(v, AccountAt(r))'
    BY <1>3, <2>1, <2>3 DEF Composed, SenderAt, AccountAt
  <2> QED BY <1>4, <2>3, <2>4 DEF Allowed, requests, SenderAt, AccountAt
<1> QED BY <1>5, <1>6, <1>7, <1>8, <1>9 DEF Inv

\* A loader's step that leaves the requests alone keeps what is said of them, if it reads
\* nothing older than they are.
LEMMA RequestsKept ==
    ASSUME Inv, UNCHANGED <<tables, requests>>
    PROVE  GateInv' /\ AuditInv'
BY DEF Inv, GateInv, AuditInv, Passed, Allowed, requests, SenderAt, AccountAt, Composed, Now

\* What a loader's caller reads next is as new as the rules are, so its step keeps the
\* invariant; a round's load has read nothing when it takes its round.
LEMMA LoadSet ==
    ASSUME Inv, NEW l \in Loader, NEW h \in LoadState, load' = [load EXCEPT ![l] = h],
           UNCHANGED <<tables, active, requests>>,
           known' \subseteq Account, turn' \in Loader \cup {NoOne}, running' \in BOOLEAN,
           next' \subseteq next, current' \subseteq current \cup next,
           current' = current \/ (l = "request" /\ h.of = Unread),
           h.step = "read" <=> turn' = l,
           h.step /= "read" => h.of = Unread /\ h.base = 0,
           \A k \in Loader : k /= l => (turn' = k <=> turn = k),
           \A a \in Account : h.of[a] = 0 \/ h.of[a] = load[l].of[a] \/ h.of[a] = Now,
           OneBase(h)
    PROVE  Inv'
<1>1. /\ load'[l] = h /\ load' \in [Loader -> LoadState]
      /\ \A k \in Loader : k /= l => load'[k] = load[k]
  BY DEF Inv, TypeOK, LoadState
<1>2. TypeOK'
  <2>1. next' \subseteq Request /\ current' \subseteq Request
    BY DEF Inv, TypeOK
  <2> QED BY <1>1, <2>1 DEF Inv, TypeOK, LoadState, requests, Now
<1>3. LockInv'
  BY <1>1, Zenon DEF Inv, LockInv, Unread
<1>4. SnapshotInv'
  BY <1>1 DEF Inv, SnapshotInv, OneBase
<1>5. NewerInv'
  <2> SUFFICES ASSUME NEW k \in Loader, NEW a \in Account, NEW b \in Account, load'[k].of[a] /= 0
      PROVE  load'[k].of[a] >= active.of[b]
    BY DEF NewerInv
  <2>1. CASE k /= l
    BY <1>1, <2>1 DEF Inv, NewerInv
  <2>2. CASE k = l
    BY SMTT(40), <1>1, <2>2 DEF Inv, NewerInv, TypeOK, Now
  <2> QED BY <2>1, <2>2
<1>6. \A r \in Request : SinceArrival(load[l], r) => SinceArrival(h, r)
  <2> SUFFICES ASSUME NEW r \in Request, SinceArrival(load[l], r), NEW a \in Account, h.of[a] /= 0
      PROVE  h.of[a] >= request[r].since
    BY DEF SinceArrival
  <2> QED BY DEF SinceArrival, Inv, TypeOK, Now
<1>7. RoundInv'
  <2> SUFFICES ASSUME NEW r \in Request
      PROVE  /\ request[r].at = "idle" => r \notin current' \cup next'
             /\ r \in current' /\ request[r].at = "waiting" => SinceArrival(load'["request"], r)
             /\ request[r].at = "loaded" =>
                  SinceArrival(active, r) /\ \A k \in Loader : SinceArrival(load'[k], r)
    BY DEF RoundInv, SinceArrival, requests
  <2>1. request[r].at = "idle" => r \notin current' \cup next'
    BY DEF Inv, RoundInv
  <2>2. r \in current' /\ request[r].at = "waiting" => SinceArrival(load'["request"], r)
    <3>1. CASE l = "request" /\ h.of = Unread
      BY <1>1, <3>1 DEF SinceArrival, Unread
    <3>2. CASE current' = current
      BY <1>1, <1>6, <3>2 DEF Inv, RoundInv, Loader
    <3> QED BY <3>1, <3>2
  <2>3. request[r].at = "loaded" =>
          SinceArrival(active, r) /\ \A k \in Loader : SinceArrival(load'[k], r)
    BY <1>1, <1>6 DEF Inv, RoundInv
  <2> QED BY <2>1, <2>2, <2>3
<1>8. GateInv' /\ AuditInv'
  BY RequestsKept
<1> QED BY <1>2, <1>3, <1>4, <1>5, <1>7, <1>8 DEF Inv

\* A request the load has answered, and the requests of R answered so.
Loaded(h, v) == [h EXCEPT !.at = "loaded", !.since = v]
Answers(R, outcome) ==
    request' = [r \in Request |->
        IF r \in R /\ request[r].at = "waiting"
        THEN [request[r] EXCEPT !.at = "loaded", !.since = Since(@, outcome)] ELSE request[r]]

LEMMA LoadedHeld ==
    ASSUME NEW h \in Held, NEW v \in 0..Now
    PROVE  /\ Loaded(h, v) \in Held /\ Loaded(h, v).at = "loaded" /\ Loaded(h, v).since = v
           /\ Loaded(h, v).verdict = h.verdict /\ Loaded(h, v).matches = h.matches
BY DEF Loaded, Held, At

\* The versions a state may speak of.
LEMMA Versions ==
    ASSUME Inv
    PROVE  /\ Now >= 1 /\ Now \in Nat /\ 0 \in 0..Now /\ 1 \in 0..Now
           /\ \A r \in Request : request[r] \in Held /\ request[r].since \in 0..Now
<1>1. Now >= 1 /\ Now \in Nat
  BY DEF Inv, TypeOK, Now
<1>2. \A r \in Request : request[r] \in Held /\ request[r].since \in 0..Now
  BY DEF Inv, TypeOK, Held
<1> QED BY <1>1, <1>2

\* A load that ends leaves nothing read behind; it answers those it waited for, by what it
\* read or, when it failed, by what is in force.
LEMMA LoadEnds ==
    ASSUME Inv, NEW l \in Loader, load' = [load EXCEPT ![l] = Idle],
           turn' = IF turn = l THEN NoOne ELSE turn,
           UNCHANGED <<tables, known, audit>>,
           next' \subseteq next, current' \subseteq current, running' \in BOOLEAN,
           active' = active \/ (load[l].step = "read" /\ active' = [base |-> load[l].base, of |-> load[l].of]),
           request' \in [Request -> Held],
           \A r \in Request :
             \/ request'[r] = request[r]
             \/ /\ request[r].at = "waiting"
                /\ request'[r] = Loaded(request[r], 1)
             \/ /\ request[r].at = "waiting" /\ r \in current /\ l = "request" /\ load[l].step = "read"
                /\ active' = [base |-> load[l].base, of |-> load[l].of]
                /\ request'[r] = Loaded(request[r], request[r].since)
    PROVE  Inv'
<1>0. Unread \in [Account -> 0..Now] /\ (\A a \in Account : Unread[a] = 0) /\ Now >= 1 /\ Now \in Nat
  BY Versions DEF Unread
<1>1. /\ load'[l] = Idle /\ load' \in [Loader -> LoadState]
      /\ \A k \in Loader : k /= l => load'[k] = load[k]
  <2>2. Idle \in LoadState
    BY <1>0, Versions DEF LoadState, Idle, Step
  <2>3. load \in [Loader -> LoadState]
    BY DEF Inv, TypeOK, LoadState
  <2> QED BY <2>2, <2>3
<1>2. load[l].step = "read" => \A k \in Loader : load'[k].of = Unread
  BY <1>1, Zenon DEF Inv, LockInv, Idle
<1>3. active' \in [base: 0..Now, of: [Account -> 0..Now]]
  <2>1. active \in [base: 0..Now, of: [Account -> 0..Now]]
    BY DEF Inv, TypeOK
  <2>2. load[l].base \in 0..Now /\ load[l].of \in [Account -> 0..Now]
    BY DEF Inv, TypeOK
  <2> QED BY <2>1, <2>2
<1>4. TypeOK'
  BY <1>1, <1>3, Zenon DEF Inv, TypeOK, LoadState, Held, Now
<1>5. LockInv'
  <2>1. Idle.step = "idle" /\ Idle.of = Unread /\ Idle.base = 0
    BY DEF Idle
  <2>2. \A k \in Loader : k /= NoOne
    BY DEF Loader, NoOne
  <2>3. turn' /= l /\ \A k \in Loader : k /= l => (turn' = k <=> turn = k)
    BY <2>2
  <2>4. \A k \in Loader : k /= l => load'[k] = load[k]
    BY <1>1
  <2> QED BY <1>1, <2>1, <2>3, <2>4 DEF Inv, LockInv, Unread
<1>6. SnapshotInv'
  <2>1. OneBase(active)'
    <3>1. CASE active' = active
      BY <3>1 DEF Inv, SnapshotInv, OneBase
    <3>2. CASE active' = [base |-> load[l].base, of |-> load[l].of]
      <4>1. active'.base = load[l].base /\ active'.of = load[l].of
        BY <3>2
      <4> QED BY <4>1 DEF Inv, SnapshotInv, OneBase
    <3> QED BY <3>1, <3>2
  <2>2. \A k \in Loader : OneBase(load[k])'
    BY <1>0, <1>1 DEF Inv, SnapshotInv, OneBase, Idle
  <2> QED BY <2>1, <2>2 DEF SnapshotInv
<1>7. NewerInv'
  <2>1. CASE active' = active
    BY <1>0, <1>1, <2>1 DEF Inv, NewerInv, Idle
  <2>2. CASE load[l].step = "read"
    BY <1>0, <1>2, <2>2 DEF NewerInv
  <2> QED BY <2>1, <2>2
<1>8. \A r \in Request :
        /\ request[r] \in Held /\ request[r].since \in Nat
        /\ request[r].at = "waiting" => request[r].since >= 1
  BY Versions DEF Inv, GateInv
<1>9. RoundInv'
  <2> SUFFICES ASSUME NEW r \in Request
      PROVE  /\ request'[r].at = "idle" => r \notin current' \cup next'
             /\ r \in current' /\ request'[r].at = "waiting" => SinceArrival(load["request"], r)'
             /\ request'[r].at = "loaded" =>
                  SinceArrival(active, r)' /\ \A k \in Loader : SinceArrival(load[k], r)'
    BY DEF RoundInv
  <2>1. CASE request'[r] = request[r]
    <3>1. request'[r].at = "idle" => r \notin current' \cup next'
      BY <2>1 DEF Inv, RoundInv
    <3>2. r \in current' /\ request'[r].at = "waiting" => SinceArrival(load["request"], r)'
      BY <1>0, <1>1, <2>1 DEF Inv, RoundInv, SinceArrival, Loader, Idle
    <3>3. request'[r].at = "loaded" => \A k \in Loader : SinceArrival(load[k], r)'
      BY <1>0, <1>1, <2>1 DEF Inv, RoundInv, SinceArrival, Idle
    <3>4. request'[r].at = "loaded" => SinceArrival(active, r)'
      <4> SUFFICES ASSUME request[r].at = "loaded", NEW a \in Account, active'.of[a] /= 0
          PROVE  active'.of[a] >= request[r].since
        BY <2>1 DEF SinceArrival
      <4>1. SinceArrival(active, r) /\ SinceArrival(load[l], r)
        BY DEF Inv, RoundInv
      <4>2. active'.of = active.of \/ active'.of = load[l].of
        OBVIOUS
      <4> QED BY <4>1, <4>2 DEF SinceArrival
    <3> QED BY <3>1, <3>2, <3>3, <3>4
  <2>2. CASE request[r].at = "waiting" /\ request'[r] = Loaded(request[r], 1)
    <3>1. request'[r].at = "loaded" /\ request'[r].since = 1
      BY <2>2, Versions, LoadedHeld
    <3>2. \A a \in Account : active'.of[a] /= 0 => active'.of[a] >= 1
      <4>1. active'.of \in [Account -> 0..Now]
        BY <1>3
      <4> QED BY <1>0, <4>1
    <3>3. \A k \in Loader, a \in Account : load'[k].of[a] /= 0 => load'[k].of[a] >= 1
      <4>1. \A k \in Loader : load'[k].of \in [Account -> 0..Now]
        BY <1>1 DEF LoadState
      <4> QED BY <1>0, <4>1
    <3> QED BY <3>1, <3>2, <3>3 DEF SinceArrival
  <2>3. CASE /\ request[r].at = "waiting" /\ r \in current /\ l = "request" /\ load[l].step = "read"
             /\ active' = [base |-> load[l].base, of |-> load[l].of]
             /\ request'[r] = Loaded(request[r], request[r].since)
    <3>1. request'[r].at = "loaded" /\ request'[r].since = request[r].since
      <4>1. request[r] \in Held /\ request[r].since \in 0..Now
        BY Versions
      <4> QED BY <2>3, <4>1, LoadedHeld
    <3>2. SinceArrival(load["request"], r)
      BY <2>3 DEF Inv, RoundInv
    <3>3. SinceArrival(active, r)'
      BY <2>3, <3>1, <3>2 DEF SinceArrival
    <3>4. \A k \in Loader : SinceArrival(load[k], r)'
      BY <1>0, <1>2, <2>3 DEF SinceArrival
    <3> QED BY <3>1, <3>3, <3>4
  <2> QED BY <2>1, <2>2, <2>3
<1>10. GateInv' /\ AuditInv'
  <2> SUFFICES ASSUME NEW r \in Request
      PROVE  /\ request'[r].at \in {"waiting", "loaded", "reading", "fetching"} => request'[r].since >= 1
             /\ request'[r].verdict = "released" => request'[r].since >= 1
             /\ Passed(r)' => Allowed(r)'
             /\ request'[r].verdict = "released" => request'[r].matches = {}
             /\ request'[r].at = "answered" => audit'[r] = request'[r].verdict
    BY DEF GateInv, AuditInv
  <2>1. CASE request'[r] = request[r]
    BY <2>1 DEF Inv, GateInv, AuditInv, Passed, Allowed, SenderAt, AccountAt, Composed, Now
  <2>2. CASE request'[r] /= request[r]
    <3>1. /\ request'[r].at = "loaded" /\ request'[r].verdict = request[r].verdict
          /\ request'[r].matches = request[r].matches
          /\ request'[r].since = 1 \/ request'[r].since = request[r].since
          /\ request[r].at = "waiting"
      <4>1. PICK v \in {1, request[r].since} : request'[r] = Loaded(request[r], v)
        BY <2>2
      <4>2. request[r] \in Held /\ v \in 0..Now /\ request[r].at = "waiting"
        BY <2>2, Versions
      <4> QED BY <4>1, <4>2, LoadedHeld
    <3>2. request'[r].since >= 1 /\ request'[r].since <= request[r].since
          /\ request'[r].since \in Nat /\ request[r].since \in Nat /\ Now \in Nat
      BY <1>0, <1>8, <3>1
    <3>3. Passed(r)' => \E v \in request[r].since..Now : SenderAt(r) \notin Composed(v, AccountAt(r))
      BY <3>1 DEF Inv, GateInv, Passed, Allowed, SenderAt
    <3>4. \A v \in request[r].since..Now : v \in request'[r].since..Now
      <4> DEFINE i == request'[r].since
                 j == request[r].since
      <4>1. i <= j /\ i \in Nat /\ j \in Nat /\ Now \in Nat
        BY <3>2
      <4> HIDE DEF i, j
      <4>2. \A v \in j..Now : v \in i..Now
        BY <4>1
      <4> QED BY <4>2 DEF i, j
    <3>5. Passed(r)' => Allowed(r)'
      BY <3>3, <3>4 DEF Allowed, SenderAt, AccountAt, Composed, Now
    <3>6. request[r].verdict = "released" => request[r].matches = {}
      BY DEF Inv, AuditInv
    <3> QED BY <3>1, <3>2, <3>5, <3>6
  <2> QED BY <2>1, <2>2
<1> QED BY <1>4, <1>5, <1>6, <1>7, <1>9, <1>10 DEF Inv

\* The two ways a round's load answers those who wait for it.
LEMMA Answered ==
    ASSUME Inv, NEW outcome \in {"ok", "failed"}, NEW R \in SUBSET Request, Answers(R, outcome)
    PROVE  /\ request' \in [Request -> Held]
           /\ \A r \in Request :
                \/ request'[r] = request[r]
                \/ /\ r \in R /\ request[r].at = "waiting"
                   /\ request'[r] = Loaded(request[r], IF outcome = "ok" THEN request[r].since ELSE 1)
<1>1. \A r \in Request :
        [request[r] EXCEPT !.at = "loaded", !.since = Since(@, outcome)]
          = Loaded(request[r], IF outcome = "ok" THEN request[r].since ELSE 1)
  BY DEF Loaded, Since, Inv, TypeOK
<1>2. \A r \in Request : Loaded(request[r], IF outcome = "ok" THEN request[r].since ELSE 1) \in Held
  BY Versions, LoadedHeld
<1>3. request' = [r \in Request |->
        IF r \in R /\ request[r].at = "waiting"
        THEN Loaded(request[r], IF outcome = "ok" THEN request[r].since ELSE 1) ELSE request[r]]
  BY <1>1 DEF Answers
<1>4. request' \in [Request -> Held]
  BY <1>2, <1>3, Versions
<1> QED BY <1>3, <1>4

-----------------------------------------------------------------------------
\* The accounts are listed before the reload asks for its turn.
LEMMA SetAccountsStep == ASSUME Inv, SetAccounts PROVE Inv'
<1> DEFINE h == [load["reload"] EXCEPT !.step = "turn"]
<1>1. /\ load' = [load EXCEPT !["reload"] = h] /\ turn = NoOne /\ turn' = turn
      /\ known' \subseteq Account /\ load["reload"].step = "idle"
      /\ UNCHANGED <<tables, active, requests, next, current, running>>
  BY DEF SetAccounts, rounds
<1>2. h \in LoadState /\ h.step = "turn" /\ h.of = load["reload"].of /\ h.base = load["reload"].base
  BY DEF Inv, TypeOK, Loader, LoadState, Step
<1>3. "reload" \in Loader /\ \A k \in Loader : k /= NoOne
  BY DEF Loader, NoOne
<1>4. OneBase(h) /\ h.of = Unread /\ h.base = 0
  BY <1>1, <1>2, <1>3 DEF Inv, SnapshotInv, OneBase, LockInv
<1>5. turn' \in Loader \cup {NoOne} /\ running' \in BOOLEAN
  BY <1>1, Zenon DEF Inv, TypeOK
<1> HIDE DEF h
<1> QED BY <1>1, <1>2, <1>3, <1>4, <1>5, LoadSet DEF Unread

\* A caller that has its turn has read nothing yet.
LEMMA BeginStep == ASSUME Inv, NEW l \in Loader, Begin(l) PROVE Inv'
<1> DEFINE h == [load[l] EXCEPT !.step = "read"]
<1>1. /\ load' = [load EXCEPT ![l] = h] /\ turn = NoOne /\ turn' = l
      /\ load[l].step = "turn"
      /\ UNCHANGED <<tables, known, active, requests, next, current, running>>
  BY DEF Begin, Turn, rounds
<1>2. h \in LoadState /\ h.step = "read" /\ h.of = load[l].of /\ h.base = load[l].base
  BY DEF Inv, TypeOK, Loader, LoadState, Step
<1>3. OneBase(h)
  BY <1>1, <1>2 DEF Inv, SnapshotInv, OneBase
<1>4. known' \subseteq Account /\ running' \in BOOLEAN
  BY <1>1, Zenon DEF Inv, TypeOK
<1>5. \A k \in Loader : k /= NoOne
  BY DEF Loader, NoOne
<1> HIDE DEF h
<1> QED BY <1>1, <1>2, <1>3, <1>4, <1>5, LoadSet

\* An account is read with the base rules the first one was read with.
LEMMA ReadAccountStep == ASSUME Inv, NEW l \in Loader, ReadAccount(l) PROVE Inv'
<1>0. Now >= 1 /\ Now \in Nat /\ Now \in 0..Now
  BY DEF Inv, TypeOK, Now
<1>1. PICK a \in Todo(l) :
        load' = [load EXCEPT ![l].of[a] = Now, ![l].base = IF @ = 0 THEN Now ELSE @]
  BY DEF ReadAccount
<1> DEFINE h == [load[l] EXCEPT !.of[a] = Now, !.base = IF @ = 0 THEN Now ELSE @]
<1>2. /\ load' = [load EXCEPT ![l] = h] /\ load[l].step = "read" /\ Agrees(l)
      /\ UNCHANGED <<tables, known, turn, active, requests, next, current, running>>
  BY <1>1 DEF ReadAccount, rounds
<1>3. load[l] \in LoadState /\ a \in Account
  BY <1>1 DEF Inv, TypeOK, LoadState, Todo
<1>4. /\ h.step = "read" /\ h.of = [load[l].of EXCEPT ![a] = Now]
      /\ h.base = IF load[l].base = 0 THEN Now ELSE load[l].base
      /\ h.again = load[l].again
  BY <1>2, <1>3 DEF LoadState
<1>5. h \in LoadState
  BY <1>0, <1>3, <1>4 DEF LoadState
<1>6. OneBase(h)
  <2>1. h.base /= 0 /\ tables[h.base][Base] = tables[Now][Base]
    BY <1>0, <1>2, <1>4 DEF Agrees
  <2>2. ASSUME NEW b \in Account, h.of[b] /= 0
        PROVE  tables[h.of[b]][Base] = tables[h.base][Base]
    <3>1. CASE b = a
      BY <1>3, <1>4, <2>1, <3>1 DEF LoadState
    <3>2. CASE b /= a
      BY <1>3, <1>4, <2>2, <3>2 DEF LoadState, Inv, SnapshotInv, OneBase
    <3> QED BY <3>1, <3>2
  <2> QED BY <2>1, <2>2 DEF OneBase
<1>7. \A b \in Account : h.of[b] = load[l].of[b] \/ h.of[b] = Now
  BY <1>3, <1>4 DEF LoadState
<1>8. turn' = l /\ turn' \in Loader \cup {NoOne} /\ known' \subseteq Account /\ running' \in BOOLEAN
  BY <1>2, Zenon DEF Inv, TypeOK, LockInv
<1> HIDE DEF h
<1> QED BY <1>2, <1>4, <1>5, <1>6, <1>7, <1>8, LoadSet

\* A load made once more starts from nothing.
LEMMA ReadAgainStep == ASSUME Inv, NEW l \in Loader, ReadAgain(l) PROVE Inv'
<1> DEFINE h == [load[l] EXCEPT !.of = Unread, !.base = 0, !.again = TRUE]
<1>1. /\ load' = [load EXCEPT ![l] = h] /\ load[l].step = "read"
      /\ UNCHANGED <<tables, known, turn, active, requests, next, current, running>>
  BY DEF ReadAgain, rounds
<1>2. h.step = "read" /\ h.of = Unread /\ h.base = 0 /\ h.again = TRUE
  BY <1>1 DEF Inv, TypeOK
<1>3. h \in LoadState
  <2>1. 0 \in 0..Now
    BY DEF Inv, TypeOK, Now
  <2>2. Unread \in [Account -> 0..Now] /\ load[l] \in LoadState
    BY <2>1 DEF Unread, Inv, TypeOK, LoadState
  <2> QED BY <2>1, <2>2 DEF LoadState
<1>4. OneBase(h) /\ \A a \in Account : h.of[a] = 0
  BY <1>2 DEF OneBase, Unread
<1>5. turn' = l /\ turn' \in Loader \cup {NoOne} /\ known' \subseteq Account /\ running' \in BOOLEAN
  BY <1>1, Zenon DEF Inv, TypeOK, LockInv
<1> HIDE DEF h
<1> QED BY <1>1, <1>2, <1>3, <1>4, <1>5, LoadSet

\* The round that is taken is loaded by a load that has read nothing yet.
LEMMA PickStep == ASSUME Inv, Pick PROVE Inv'
<1> DEFINE h == [Idle EXCEPT !.step = "turn"]
<1>0. "request" \in Loader /\ load["request"].step = "idle"
      /\ UNCHANGED <<tables, known, turn, active, requests>>
  BY DEF Pick, Loader
<1>1. CASE next = {}
  <2>1. UNCHANGED <<next, current, load>> /\ running' = FALSE
    BY <1>1 DEF Pick
  <2>2. TypeOK'
    BY <1>0, <2>1 DEF Inv, TypeOK, requests, Now
  <2>3. LockInv' /\ SnapshotInv' /\ NewerInv' /\ RoundInv'
    BY <1>0, <2>1 DEF Inv, LockInv, SnapshotInv, OneBase, NewerInv, RoundInv, SinceArrival, requests, Unread
  <2> QED BY <1>0, <2>2, <2>3, RequestsKept DEF Inv
<1>2. CASE next /= {}
  <2>1. load' = [load EXCEPT !["request"] = h] /\ current' = next /\ next' = {} /\ running' = running
    BY <1>2, Zenon DEF Pick
  <2>2. h.step = "turn" /\ h.of = Unread /\ h.base = 0
    BY DEF Idle
  <2>3. h \in LoadState
    <3>1. 0 \in 0..Now
      BY DEF Inv, TypeOK, Now
    <3> QED BY <3>1 DEF Idle, LoadState, Step, Unread
  <2>4. OneBase(h) /\ \A a \in Account : h.of[a] = 0
    BY <2>2 DEF OneBase, Unread
  <2>5. turn' /= "request" /\ turn' \in Loader \cup {NoOne} /\ known' \subseteq Account /\ running' \in BOOLEAN
    BY <1>0, <2>1, Zenon DEF Inv, TypeOK, LockInv
  <2> HIDE DEF h
  <2> QED BY <1>0, <2>1, <2>2, <2>3, <2>4, <2>5, LoadSet
<1> QED BY <1>1, <1>2

\* A load ends, and its caller's round with it.
LEMMA EndStep ==
    ASSUME Inv, NEW l \in Loader, Swap(l) \/ Fail(l)
    PROVE  Inv'
<1>1. PICK outcome \in {"ok", "failed"} :
        /\ EndLoad(l, outcome) /\ load[l].step = "read"
        /\ outcome = "ok" => active' = [base |-> load[l].base, of |-> load[l].of]
        /\ outcome = "failed" => active' = active
  BY DEF Swap, Fail
<1>2. turn = l /\ load' = [load EXCEPT ![l] = Idle] /\ turn' = NoOne
      /\ UNCHANGED <<tables, known, audit, next>> /\ running' \in BOOLEAN
  BY <1>1, Zenon DEF EndLoad, Inv, LockInv, TypeOK
<1>3. CASE l = "request"
  <2>1. current' = {} /\ Answers(current, outcome) /\ current \in SUBSET Request
    BY <1>1, <1>3 DEF EndLoad, EndRound, Answers, Inv, TypeOK
  <2>2. /\ request' \in [Request -> Held]
        /\ \A r \in Request :
             \/ request'[r] = request[r]
             \/ /\ r \in current /\ request[r].at = "waiting"
                /\ request'[r] = Loaded(request[r], IF outcome = "ok" THEN request[r].since ELSE 1)
    BY <2>1, Answered
  <2>4. CASE outcome = "ok"
    BY <1>1, <1>2, <1>3, <2>1, <2>2, <2>4, LoadEnds
  <2>5. CASE outcome = "failed"
    BY <1>1, <1>2, <1>3, <2>1, <2>2, <2>5, LoadEnds
  <2> QED BY <2>4, <2>5
<1>4. CASE l /= "request"
  <2>1. UNCHANGED <<request, current>> /\ request' \in [Request -> Held]
    BY <1>1, <1>4 DEF EndLoad, Inv, TypeOK, Held
  <2> QED BY <1>1, <1>2, <2>1, LoadEnds
<1> QED BY <1>3, <1>4

\* A load that panics leaves what is in force.
LEMMA PanicStep == ASSUME Inv, Panic PROVE Inv'
<1>1. /\ load' = [load EXCEPT !["request"] = Idle] /\ next' = {} /\ current' = {}
      /\ running' \in BOOLEAN /\ UNCHANGED <<tables, known, active, audit>>
      /\ turn' = IF turn = "request" THEN NoOne ELSE turn
  BY DEF Panic
<1>2. current \cup next \in SUBSET Request /\ "request" \in Loader
  BY DEF Inv, TypeOK, Loader
<1>3. /\ request' \in [Request -> Held]
      /\ \A r \in Request :
           \/ request'[r] = request[r]
           \/ /\ request[r].at = "waiting"
              /\ request'[r] = Loaded(request[r], 1)
  <2>1. /\ request' \in [Request -> Held]
        /\ \A r \in Request :
             \/ request'[r] = request[r]
             \/ /\ r \in current \cup next /\ request[r].at = "waiting"
                /\ request'[r] = Loaded(request[r], IF "failed" = "ok" THEN request[r].since ELSE 1)
    <3>1. Answers(current \cup next, "failed")
      BY DEF Panic, Answers
    <3> QED BY <1>2, <3>1, Answered
  <2> QED BY <2>1
<1> QED BY <1>1, <1>2, <1>3, LoadEnds

-----------------------------------------------------------------------------
\* Every step keeps the invariant.
LEMMA StepInv == Inv /\ [Next]_vars => Inv'
<1> SUFFICES ASSUME Inv, [Next]_vars PROVE Inv'
  OBVIOUS
<1>1. CASE UNCHANGED vars
  BY <1>1 DEF vars, loader, rounds, requests, Inv, TypeOK, LockInv, SnapshotInv, NewerInv, RoundInv,
       GateInv, AuditInv, OneBase, SinceArrival, Passed, Allowed, SenderAt, AccountAt, Composed, Now, Unread
<1>2. CASE Write
  BY <1>2, WriteStep
<1>3. CASE SetAccounts
  BY <1>3, SetAccountsStep
<1>4. CASE Pick
  BY <1>4, PickStep
<1>5. CASE Panic
  BY <1>5, PanicStep
<1>6. ASSUME NEW l \in Loader, Begin(l) \/ LoadNext(l)
      PROVE  Inv'
  BY <1>6, BeginStep, ReadAccountStep, ReadAgainStep, EndStep DEF LoadNext
<1>7. ASSUME NEW r \in Request, Arrive(r) \/ GiveUp(r) \/ RequestNext(r)
      PROVE  Inv'
  BY <1>7, RequestStep
<1> QED BY <1>1, <1>2, <1>3, <1>4, <1>5, <1>6, <1>7 DEF Next

\* The inductive invariant holds of every reachable state.
LEMMA Invariant == Spec => []Inv
BY InitInv, StepInv, PTL DEF Spec

\* Every variable keeps its type, for any accounts, rules, messages and requests (reload.go,
\* policyload/load.go, body.go).
THEOREM TypeCorrect == Spec => []TypeOK
<1>1. Inv => TypeOK
  BY DEF Inv
<1> QED BY <1>1, Invariant, PTL

\* What is released was allowed by the rules of one moment since its request came, or, after
\* a failed load, of one the process has read (reload.go:60-121, body.go:146-228).
THEOREM RestrictionCorrect == Spec => []RestrictionBinds
<1>1. Inv => RestrictionBinds
  BY DEF Inv, GateInv, Passed, Allowed, RestrictionBinds, Released
<1> QED BY <1>1, Invariant, PTL

\* What leaves has its audit row, and holds nothing the patterns find (body.go:146-228,
\* 367-388).
THEOREM ReleaseCorrect == Spec => []ReleasesChecked
<1>1. Inv => ReleasesChecked
  BY DEF Inv, AuditInv, ReleasesChecked, Released
<1> QED BY <1>1, Invariant, PTL

\* No reload puts back an older policy than the one in force (load.go:161-186).
THEOREM NeverBackCorrect == Spec => PolicyNeverGoesBack
<1> DEFINE Forward == \A a \in Account : active'.of[a] /= 0 => active'.of[a] >= active.of[a]
<1>1. Inv /\ [Next]_vars => Forward
  <2> SUFFICES ASSUME Inv, [Next]_vars PROVE Forward
    OBVIOUS
  <2>1. CASE UNCHANGED active
    BY <2>1 DEF Inv, TypeOK
  <2>2. ASSUME NEW l \in Loader, Swap(l)
        PROVE  Forward
    BY <2>2 DEF Swap, Inv, NewerInv
  <2>3. UNCHANGED active \/ \E l \in Loader : Swap(l)
    BY DEF Next, vars, loader, Write, SetAccounts, Pick, Panic, Begin, LoadNext, ReadAccount, ReadAgain, Fail,
         Arrive, GiveUp, RequestNext, TakePolicy, ReadRow, Fetch, FailRequest, Answer, AuditFails, RequestKeeps
  <2> QED BY <2>1, <2>2, <2>3
<1> QED BY <1>1, Invariant, PTL DEF Spec, PolicyNeverGoesBack

=============================================================================
