----------------------------- MODULE BodyRelease -----------------------------
(***************************************************************************)
(* How the API server releases a body.  A request has the policy loaded by *)
(* a load that starts after it asked, shared with the requests waiting     *)
(* beside it (api/internal/reload); the loads take turns with the          *)
(* scheduled reload's (executioncontext/assembly, policyload); the gate    *)
(* decides by that policy and by the row the index holds (core/redact);    *)
(* and what was fetched is checked once more, and audited, before it       *)
(* leaves (core/release, api/internal/service).  Meanwhile the operator    *)
(* writes rules, accounts come and go, and the worker scans: a list of     *)
(* accounts and a message's row are read as they may be at that moment.    *)
(***************************************************************************)
EXTENDS Naturals, Sequences, FiniteSets

CONSTANTS
    Account,                \* numbers, in the order of the accounts' names
    Sender, Message, Request,
    AccountOf, SenderOf,    \* a message's account and sender
    MessageOf,              \* a request's message
    Base,                   \* the scope of the base rules; an account is the scope of its own
    Scope,                  \* the scopes the operator writes
    First,                  \* the rules a run starts with
    MaxWrites               \* how many edits the operator makes

ASSUME AccountAssumption == Account \subseteq Nat
ASSUME MessageAssumption ==
    /\ AccountOf \in [Message -> Account] /\ SenderOf \in [Message -> Sender]
    /\ MessageOf \in [Request -> Message]
ASSUME ScopeAssumption == Scope \subseteq Account \cup {Base} /\ Base \notin Account
ASSUME FirstAssumption == First \subseteq [Account \cup {Base} -> SUBSET Sender]
ASSUME BoundAssumption == MaxWrites \in Nat

VARIABLES
    tables,     \* the rules as committed, each version after the one before it
    known,      \* the accounts the policy loader reads
    turn,       \* who holds the policy loader's lock
    load,       \* what each of the loader's two callers has read so far
    active,     \* the snapshot in force, as the versions it was read at
    next,       \* the requests of the round that waits for its load
    current,    \* the requests of the round being loaded
    running,    \* the goroutine of the loads runs
    request,    \* what each request's goroutine holds
    audit       \* the audit row of each request

loader      == <<known, turn, load, active>>
rounds      == <<next, current, running>>
requests    == <<request, audit>>
vars        == <<tables, loader, rounds, requests>>

Loader == {"request", "reload"}
NoOne == "none"
Rules == SUBSET Sender
Tables == [Account \cup {Base} -> Rules]
Now == Len(tables)

\* A message's row: scanned stands for one scanned without a flag, flagged for one with.
RowState == {"none", "pending", "skipped_restricted", "refused", "flagged", "scanned", "skipped_gate"}
Releasable == {"scanned", "skipped_gate"}
\* What a body is checked for matches in: the text with its snippet, and the filenames.
Part == {"text", "names"}

Unread == [a \in Account |-> 0]
NoSnapshot == [base |-> 0, of |-> Unread]
Idle == [step |-> "idle", base |-> 0, of |-> Unread, again |-> FALSE]
NoRequest == [at |-> "idle", since |-> 0, restricted |-> {}, state |-> "none",
              matches |-> {}, verdict |-> "none"]

\* The senders an account restricts at version v, and those it does by snapshot s.
\* An account the snapshot did not read restricts every sender.
Composed(v, a) == tables[v][Base] \cup tables[v][a]
PolicyOf(s, a) == IF s.of[a] = 0 THEN Sender ELSE tables[s.base][Base] \cup tables[s.of[a]][a]

AccountAt(r) == AccountOf[MessageOf[r]]
SenderAt(r) == SenderOf[MessageOf[r]]

Init ==
    /\ tables \in {<<t>> : t \in First}
    /\ known = {} /\ turn = NoOne /\ load = [l \in Loader |-> Idle]
    /\ active = NoSnapshot
    /\ next = {} /\ current = {} /\ running = FALSE
    /\ request = [r \in Request |-> NoRequest]
    /\ audit = [r \in Request |-> "none"]

-----------------------------------------------------------------------------
\* A rule added, edited or lifted, or a file imported, in one scope.
Write ==
    /\ Now <= MaxWrites
    /\ \E s \in Scope, rules \in Rules :
         /\ rules /= tables[Now][s]
         /\ tables' = Append(tables, [tables[Now] EXCEPT ![s] = rules])
    /\ UNCHANGED <<loader, rounds, requests>>

-----------------------------------------------------------------------------
(* The rounds of the coalesced load. *)

\* The rules a request may be decided by are as old as its arrival, or, when its load
\* failed, as the first.
Since(arrived, outcome) == IF outcome = "ok" THEN arrived ELSE 1

\* The load has ended and answers the requests of its round that still wait.
EndRound(outcome) ==
    /\ request' = [r \in Request |->
         IF r \in current /\ request[r].at = "waiting"
         THEN [request[r] EXCEPT !.at = "loaded", !.since = Since(@, outcome)] ELSE request[r]]
    /\ current' = {}

\* The goroutine takes the waiting round, or ends when there is none.
Pick ==
    /\ running /\ load["request"].step = "idle"
    /\ IF next = {} THEN running' = FALSE /\ UNCHANGED <<next, current, load>>
       ELSE /\ current' = next /\ next' = {}
            /\ load' = [load EXCEPT !["request"] = [Idle EXCEPT !.step = "turn"]]
            /\ UNCHANGED running
    /\ UNCHANGED <<tables, known, turn, active, requests>>

\* Mutant: the round that waits is dropped.
PanicForgetting ==
    /\ load["request"].step /= "idle"
    /\ turn' = IF turn = "request" THEN NoOne ELSE turn
    /\ load' = [load EXCEPT !["request"] = Idle]
    /\ EndRound("failed")
    /\ next' = {} /\ running' = FALSE
    /\ UNCHANGED <<tables, known, active, audit>>

\* A load that panics gives its lock back and answers its round and the waiting one.
Panic ==
    /\ load["request"].step /= "idle"
    /\ turn' = IF turn = "request" THEN NoOne ELSE turn
    /\ load' = [load EXCEPT !["request"] = Idle]
    /\ request' = [r \in Request |->
         IF r \in current \cup next /\ request[r].at = "waiting"
         THEN [request[r] EXCEPT !.at = "loaded", !.since = Since(@, "failed")] ELSE request[r]]
    /\ next' = {} /\ current' = {} /\ running' = FALSE
    /\ UNCHANGED <<tables, known, active, audit>>

-----------------------------------------------------------------------------
(* The policy loader, and the scheduled reload around it. *)

\* The loader reads the accounts the database lists by now.  With none there is no
\* policy to load, and what it read stays.
SetAccounts ==
    /\ load["reload"].step = "idle" /\ turn = NoOne
    /\ known' \in (SUBSET Account) \ {{}}
    /\ load' = [load EXCEPT !["reload"].step = "turn"]
    /\ UNCHANGED <<tables, turn, active, rounds, requests>>

\* Mutant: the loader has no lock.
TurnOfAnyone(l) == l \in Loader

Turn(l) == l \in Loader /\ turn = NoOne

Begin(l) ==
    /\ load[l].step = "turn" /\ Turn(l)
    /\ turn' = l
    /\ load' = [load EXCEPT ![l].step = "read"]
    /\ UNCHANGED <<tables, known, active, rounds, requests>>

Todo(l) == {a \in known : load[l].of[a] = 0}

\* The base rules a read returns are those the first account's returned.
Agrees(l) == load[l].base /= 0 => tables[load[l].base][Base] = tables[Now][Base]

\* One account's rules with the base rules, in one transaction.
ReadAccount(l) ==
    /\ load[l].step = "read" /\ Agrees(l)
    /\ \E a \in Todo(l) :
         /\ \A b \in Todo(l) : a <= b
         /\ load' = [load EXCEPT ![l].of[a] = Now, ![l].base = IF @ = 0 THEN Now ELSE @]
    /\ UNCHANGED <<tables, known, turn, active, rounds, requests>>

\* A read whose base rules changed on the way is made once more.
ReadAgain(l) ==
    /\ load[l].step = "read" /\ Todo(l) /= {} /\ ~Agrees(l) /\ ~load[l].again
    /\ load' = [load EXCEPT ![l].of = Unread, ![l].base = 0, ![l].again = TRUE]
    /\ UNCHANGED <<tables, known, turn, active, rounds, requests>>

\* The load is over: the loader's caller goes on.
EndLoad(l, outcome) ==
    /\ turn' = NoOne
    /\ load' = [load EXCEPT ![l] = Idle]
    /\ IF l = "request" THEN EndRound(outcome) ELSE UNCHANGED <<request, current>>
    /\ UNCHANGED <<tables, known, next, running, audit>>

Swap(l) ==
    /\ load[l].step = "read" /\ Todo(l) = {}
    /\ active' = [base |-> load[l].base, of |-> load[l].of]
    /\ EndLoad(l, "ok")

\* A transaction fails, its context ends, or the rows do not validate: the snapshot stays.
Fail(l) ==
    /\ load[l].step = "read"
    /\ EndLoad(l, "failed")
    /\ UNCHANGED active

-----------------------------------------------------------------------------
(* A request. *)

Set(r, held) == request' = [request EXCEPT ![r] = held]
\* It ends with an error, and what it held is gone.
Error(r) == Set(r, [NoRequest EXCEPT !.at = "error"])
Deny(r) == Set(r, [NoRequest EXCEPT !.at = "auditing", !.verdict = "denied"])
Release(r, matches) ==
    Set(r, [request[r] EXCEPT !.at = "auditing", !.verdict = "released", !.matches = matches])
RequestKeeps == <<tables, loader>>

\* Mutant: a request that finds a load running waits for that one.
JoinRunning(r) ==
    IF current /= {} THEN current' = current \cup {r} /\ UNCHANGED <<next, running>>
    ELSE next' = next \cup {r} /\ running' = TRUE /\ UNCHANGED current

Join(r) == next' = next \cup {r} /\ running' = TRUE /\ UNCHANGED current

\* It waits for the next round, whose goroutine it starts if none runs; the host,
\* once it stops, does not.  Accounts are served once a reload has listed some.
Arrive(r) ==
    /\ request[r].at = "idle" /\ known /= {}
    /\ \/ /\ Join(r)
          /\ Set(r, [NoRequest EXCEPT !.at = "waiting", !.since = Now])
       \/ /\ ~running
          /\ Set(r, [NoRequest EXCEPT !.at = "loaded", !.since = Since(Now, "failed")])
          /\ UNCHANGED <<next, current, running>>
    /\ UNCHANGED <<RequestKeeps, audit>>

\* Its caller is gone: it takes the policy that restricts every sender, and its next
\* statement ends with its context.
GiveUp(r) ==
    /\ request[r].at = "waiting"
    /\ Error(r)
    /\ UNCHANGED <<RequestKeeps, next, current, running, audit>>

\* Whatever ended the load, the snapshot in force decides.
TakePolicy(r) ==
    /\ request[r].at = "loaded"
    /\ Set(r, [request[r] EXCEPT !.at = "reading", !.restricted = PolicyOf(active, AccountAt(r))])
    /\ UNCHANGED <<RequestKeeps, next, current, running, audit>>

\* The gate, by the policy taken and the row as the worker has left it by now.
ReadRow(r) ==
    /\ request[r].at = "reading"
    /\ \E state \in RowState :
         IF state = "none" THEN Error(r)
         ELSE IF state \in Releasable /\ SenderAt(r) \notin request[r].restricted
              THEN Set(r, [request[r] EXCEPT !.at = "fetching", !.state = state])
              ELSE Deny(r)
    /\ UNCHANGED <<RequestKeeps, next, current, running, audit>>

\* What is checked as it is served: what no scanner read.
Checked(state) == IF state = "scanned" THEN {"names"} ELSE Part

\* The body comes, holding matches the worker's scan did not look for, or is refused.
Fetch(r) ==
    /\ request[r].at = "fetching"
    /\ \/ Deny(r)
       \/ \E matches \in SUBSET Part :
            /\ request[r].state = "scanned" => "text" \notin matches
            /\ IF matches \cap Checked(request[r].state) = {} THEN Release(r, matches) ELSE Deny(r)
    /\ UNCHANGED <<RequestKeeps, next, current, running, audit>>

\* A read of the row or a call to the provider fails.
FailRequest(r) ==
    /\ request[r].at \in {"reading", "fetching"}
    /\ Error(r)
    /\ UNCHANGED <<RequestKeeps, next, current, running, audit>>

Answer(r) ==
    /\ request[r].at = "auditing"
    /\ audit' = [audit EXCEPT ![r] = request[r].verdict]
    /\ Set(r, [request[r] EXCEPT !.at = "answered"])
    /\ UNCHANGED <<RequestKeeps, next, current, running>>

\* Mutant: an audit row that cannot be written is logged.
AuditLost(r) ==
    /\ request[r].at = "auditing"
    /\ audit' \in {audit, [audit EXCEPT ![r] = request[r].verdict]}
    /\ Set(r, [request[r] EXCEPT !.at = "answered"])
    /\ UNCHANGED <<RequestKeeps, next, current, running>>

\* The audit row is not written, or is and the answer of it is lost.
AuditFails(r) ==
    /\ request[r].at = "auditing"
    /\ audit' \in {audit, [audit EXCEPT ![r] = request[r].verdict]}
    /\ Error(r)
    /\ UNCHANGED <<RequestKeeps, next, current, running>>

-----------------------------------------------------------------------------
LoadNext(l) == ReadAccount(l) \/ ReadAgain(l) \/ Swap(l) \/ Fail(l)
RequestNext(r) == TakePolicy(r) \/ ReadRow(r) \/ Fetch(r) \/ FailRequest(r) \/ Answer(r) \/ AuditFails(r)

Next ==
    \/ Write \/ SetAccounts \/ Pick \/ Panic
    \/ \E l \in Loader : Begin(l) \/ LoadNext(l)
    \/ \E r \in Request : Arrive(r) \/ GiveUp(r) \/ RequestNext(r)

Spec == Init /\ [][Next]_vars

\* Goroutines go on, a lock asked for is given in its turn, and a transaction or a call
\* ends, if only with an error.
FairSpec ==
    /\ Spec
    /\ WF_vars(Pick) /\ SF_vars(Begin("request"))
    /\ \A l \in Loader : WF_vars(LoadNext(l))
    /\ \A r \in Request : WF_vars(RequestNext(r))

-----------------------------------------------------------------------------
Step == {"idle", "turn", "read"}
At == {"idle", "waiting", "loaded", "reading", "fetching", "auditing", "answered", "error"}

TypeOK ==
    /\ tables \in Seq(Tables) /\ Now >= 1
    /\ known \subseteq Account
    /\ turn \in Loader \cup {NoOne}
    /\ load \in [Loader -> [step: Step, base: 0..Now, of: [Account -> 0..Now], again: BOOLEAN]]
    /\ active \in [base: 0..Now, of: [Account -> 0..Now]]
    /\ next \subseteq Request /\ current \subseteq Request
    /\ running \in BOOLEAN
    /\ request \in [Request -> [at: At, since: 0..Now, restricted: Rules,
                                state: RowState, matches: SUBSET Part, verdict: {"none", "released", "denied"}]]
    /\ audit \in [Request -> {"none", "released", "denied"}]

Released(r) == request[r].at = "answered" /\ request[r].verdict = "released"

\* A restriction in force when a request arrived, and kept, binds it: what is released
\* was allowed by the rules of one moment since the request came (reload.go:4-9), and, if
\* the load it waited for failed, of a moment the process has read them.
RestrictionBinds ==
    \A r \in Request : Released(r) =>
        \E v \in request[r].since..Now :
            SenderAt(r) \notin Composed(v, AccountAt(r))

\* No reload puts back an older policy than the one in force, for any account.
PolicyNeverGoesBack ==
    [][\A a \in Account : active'.of[a] /= 0 => active'.of[a] >= active.of[a]]_vars

\* What leaves has its audit row, and holds nothing the patterns find in it.
ReleasesChecked ==
    \A r \in Request : Released(r) => audit[r] = "released" /\ request[r].matches = {}

\* Every request comes to its answer or an error, panics, refused starts and a reload that
\* always asks for the lock notwithstanding.
RequestsAnswered ==
    \A r \in Request : request[r].at \notin {"idle", "answered", "error"} ~> request[r].at \in {"answered", "error"}

=============================================================================
