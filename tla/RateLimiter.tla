----------------------------- MODULE RateLimiter -----------------------------
(***************************************************************************)
(* The rate limiter of one account: the rate state and the grants that    *)
(* every process shares through one Postgres row and one table (package   *)
(* ratelimit/lease over the rules of ratelimit/core), and the workers     *)
(* that spend through it (lease.Call).                                    *)
(*                                                                         *)
(* Every transaction holds the account's advisory lock from before it      *)
(* reads the clock until it commits, so a transaction is one action.  An   *)
(* instant is a tick, LeaseMillis ticks make one second, and the bucket's  *)
(* level is counted in tokens times LeaseMillis so a refill is a whole     *)
(* number.  Rates, costs and shares are whole tokens.                      *)
(***************************************************************************)
EXTENDS Integers, FiniteSets

CONSTANTS
    Worker,             \* the spenders of the account, in any process
    ClassOf,            \* the priority class each worker spends in
    CostsOf,            \* the costs a worker's calls may have
    LeaseMillis,        \* ticks in one second, a lease's life
    Target,             \* the highest rate the controller reaches
    HardCap,            \* the most tokens inside any one second
    Floor,              \* the lowest rate the controller goes to
    InteractiveReserve, \* 30% of Target
    SyncReserve,        \* 20% of Target
    RetryAfters,        \* the waits a throttle may ask for
    BackoffBase,        \* the first full-jitter bound, one second
    BackoffMost,        \* the highest full-jitter bound, 32 seconds
    FirstInstant,       \* the database's clock when the account first spends
    ClockSteps,         \* how far the database's clock may step back at once
    MaxLag,             \* bound: how far the clock may fall behind in all
    MaxNow,             \* bound: the last instant explored
    MaxThrottles        \* bound: throttles counted without a success

Interactive == 1
Sync == 2
Batch == 3
Class == {Interactive, Sync, Batch}

ASSUME ClassAssumption == ClassOf \in [Worker -> Class]
ASSUME CostAssumption == CostsOf \in [Worker -> SUBSET (Nat \ {0})]
ASSUME LimitAssumption ==
    /\ LeaseMillis \in Nat \ {0}
    /\ Target \in Nat /\ HardCap \in Nat /\ Floor \in Nat
    /\ 0 < Floor /\ Floor <= Target /\ Target <= HardCap
    /\ InteractiveReserve \in Nat /\ SyncReserve \in Nat
    /\ InteractiveReserve + SyncReserve <= Target
ASSUME BackoffAssumption ==
    /\ RetryAfters \subseteq Nat \ {0}
    /\ BackoffBase \in Nat /\ BackoffMost \in Nat
ASSUME ClockAssumption ==
    /\ FirstInstant \in Nat /\ MaxNow \in Nat
    /\ MaxLag \in Nat /\ ClockSteps \subseteq Nat \ {0}
    /\ LeaseMillis + MaxLag <= FirstInstant /\ FirstInstant <= MaxNow
ASSUME ThrottleBound == MaxThrottles \in Nat

VARIABLES
    now,       \* time as it really passes, which no process reads
    clock,     \* the database's clock, now less every step back it made
    rate,      \* rate_state.current_rate
    backoff,   \* rate_state.backoff_until
    throttles, \* rate_state.throttles
    level,     \* rate_state.bucket_level, in tokens times LeaseMillis
    filled,    \* rate_state.bucket_filled_at
    asked,     \* rate_state.class_asked_at
    grants,    \* rate_grants: a row for every grant of the last second
    phase,     \* what each worker is doing
    cost,      \* the cost of the call each worker is making
    issued,    \* history: tokens granted up to each instant of now
    quiet      \* history: the end, in now, of the longest wait a throttle set

clocks     == <<now, clock>>
controller == <<rate, backoff, throttles>>
issuance   == <<level, filled, asked, grants>>
workers    == <<phase, cost>>
history    == <<issued, quiet>>
vars == <<clocks, controller, issuance, workers, history>>

Instants == 0..MaxNow
Phases == {"idle", "waiting", "calling"}

\* Mutant: a bucket of one second at the target.
CapacityAtTarget == Target * LeaseMillis

Capacity == HardCap * LeaseMillis

\* A stored grant. Rows are told apart by an identity that only grows.
Row == [id: Nat, class: Class, at: Instants, tokens: 1..HardCap]

Lesser(a, b)  == IF a <= b THEN a ELSE b
Greater(a, b) == IF a >= b THEN a ELSE b

TypeOK ==
    /\ now \in Instants /\ clock \in Instants
    /\ rate \in Nat /\ backoff \in Nat /\ throttles \in Nat
    /\ level \in Nat /\ filled \in Instants
    /\ asked \in [Class -> Instants]
    /\ grants \subseteq Row /\ IsFiniteSet(grants)
    /\ phase \in [Worker -> Phases]
    /\ cost \in [Worker -> Nat]
    /\ issued \in [Instants -> Nat]
    /\ quiet \in Nat

(***************************************************************************)
(* The row an account is given the first time it spends: the rate at the   *)
(* target, an empty bucket and no instant set, which reads as zero.        *)
(***************************************************************************)
Init ==
    /\ now = FirstInstant /\ clock = FirstInstant
    /\ rate = Target /\ backoff = 0 /\ throttles = 0
    /\ level = 0 /\ filled = 0
    /\ asked = [c \in Class |-> 0]
    /\ grants = {}
    /\ phase = [w \in Worker |-> "idle"]
    /\ cost = [w \in Worker |-> 0]
    /\ issued = [i \in Instants |-> 0]
    /\ quiet = 0

-----------------------------------------------------------------------------
(* Issuance: the rules of core.Issue, read over the stored row.            *)

\* Issuance takes the later of the clock and the latest instant it has seen.
Raised == Greater(clock, filled)

\* The rate the bucket refills at, the stored rate held at the target.
RefillRate == Lesser(rate, Target)

\* Mutant: a bucket without a capacity.
RefilledUncapped == level + RefillRate * Greater(Raised - Greater(filled, backoff), 0)

\* The bucket at Raised. It does not fill during a backoff.
Refilled ==
    LET from == Greater(filled, backoff)
        held == Lesser(level, Capacity)
    IN  IF Raised > from
        THEN Lesser(held + RefillRate * (Raised - from), Capacity)
        ELSE held

\* The tokens a set of rows holds, counted one by one.
TokensOf(rows) == {t \in rows \X (1..HardCap) : t[2] <= t[1].tokens}
Tokens(rows) == Cardinality(TokensOf(rows))

\* The tokens issued less than a second before the clock the request read.
Windowed == Tokens({g \in grants : Lesser(g.at, Raised) > clock - LeaseMillis})

\* The tokens a class's live leases hold. A lease lives one second.
Held(c) == Tokens({g \in grants : g.class = c /\ g.at + LeaseMillis > Raised})

\* A class's share of the rate. A cut comes out of batch, then sync.
Share(c) ==
    LET interactive == Lesser(RefillRate, InteractiveReserve)
        sync == Lesser(RefillRate - interactive, SyncReserve)
    IN  CASE c = Interactive -> interactive
          [] c = Sync -> sync
          [] c = Batch -> RefillRate - interactive - sync

\* What a class that asked within the last lease period has still to draw.
Undrawn(c) == IF asked[c] + LeaseMillis > Raised
              THEN Greater(Share(c) - Held(c), 0)
              ELSE 0

\* Mutant: batch draws on what interactive is owed.
OwedUnreserved(c) == IF c = Interactive THEN 0 ELSE Undrawn(Sync)

\* What a class may draw: the bucket less what each class above it is owed.
Owed(c) == CASE c = Interactive -> 0
             [] c = Sync -> Undrawn(Interactive)
             [] c = Batch -> Undrawn(Interactive) + Undrawn(Sync)
Available(c) == Refilled - LeaseMillis * Owed(c)

Refusable(k) == k > HardCap

\* Mutants: the backoff or the last second's grants forgotten.
GrantableInBackoff(c, k) == LeaseMillis * k <= Available(c) /\ Windowed + k <= HardCap
GrantableUnwindowed(c, k) == Raised >= backoff /\ LeaseMillis * k <= Available(c)

Grantable(c, k) ==
    /\ Raised >= backoff
    /\ LeaseMillis * k <= Available(c)
    /\ Windowed + k <= HardCap

\* The stored grants once those a second old are deleted and those stamped
\* ahead of the instant issuance reached are moved back to it.
KeptGrants == {[g EXCEPT !.at = Lesser(g.at, Raised)] :
                  g \in {h \in grants : h.at > clock - LeaseMillis}}

NewGrant(c, k) == [id |-> issued[now], class |-> c, at |-> Raised, tokens |-> k]

\* Mutant: an ask that leaves the instant the bucket was filled at.
StoreAskUnfilled(c) ==
    /\ level' = Refilled /\ filled' = filled
    /\ asked' = [asked EXCEPT ![c] = Raised]
    /\ grants' = KeptGrants
    /\ UNCHANGED issued

\* A request left waiting: the ask is stored and the bucket filled.
StoreAsk(c) ==
    /\ level' = Refilled
    /\ filled' = Raised
    /\ asked' = [asked EXCEPT ![c] = Raised]
    /\ grants' = KeptGrants
    /\ UNCHANGED issued

\* A request granted: drawn from the bucket and given its row.
StoreGrant(c, k) ==
    /\ level' = Refilled - LeaseMillis * k
    /\ filled' = Raised
    /\ asked' = [asked EXCEPT ![c] = Raised]
    /\ grants' = KeptGrants \cup {NewGrant(c, k)}
    /\ issued' = [i \in Instants |-> IF i >= now THEN issued[i] + k ELSE issued[i]]

-----------------------------------------------------------------------------
(* The workers: one lease.Call at a time.                                   *)

Enter(w, p, k) == /\ phase' = [phase EXCEPT ![w] = p]
                  /\ cost' = [cost EXCEPT ![w] = k]
End(w) == Enter(w, "idle", 0)

\* A call of a given cost begins waiting for its lease.
Begin(w) ==
    /\ phase[w] = "idle"
    /\ \E k \in CostsOf[w] : Enter(w, "waiting", k)
    /\ UNCHANGED <<clocks, controller, issuance, history>>

\* An ask for more than a second at the hard cap changes nothing and fails the call.
Refuse(w) ==
    /\ phase[w] = "waiting"
    /\ Refusable(cost[w])
    /\ End(w)
    /\ UNCHANGED <<clocks, controller, issuance, history>>

\* An ask the bucket cannot grant yet. The worker asks again later.
Wait(w) ==
    /\ phase[w] = "waiting"
    /\ ~Refusable(cost[w])
    /\ ~Grantable(ClassOf[w], cost[w])
    /\ StoreAsk(ClassOf[w])
    /\ UNCHANGED <<clocks, controller, workers, quiet>>

\* An ask that is granted. The call is made at once.
Grant(w) ==
    /\ phase[w] = "waiting"
    /\ ~Refusable(cost[w])
    /\ Grantable(ClassOf[w], cost[w])
    /\ StoreGrant(ClassOf[w], cost[w])
    /\ Enter(w, "calling", cost[w])
    /\ UNCHANGED <<clocks, controller, quiet>>

\* The grant commits and its worker never learns of it: the process dies or
\* its connection is lost. The tokens are spent all the same.
GrantUnheard(w) ==
    /\ phase[w] = "waiting"
    /\ ~Refusable(cost[w])
    /\ Grantable(ClassOf[w], cost[w])
    /\ StoreGrant(ClassOf[w], cost[w])
    /\ End(w)
    /\ UNCHANGED <<clocks, controller, quiet>>

\* The wait is cut off: the context ends, the transaction fails, the process dies.
Abandon(w) ==
    /\ phase[w] = "waiting"
    /\ End(w)
    /\ UNCHANGED <<clocks, controller, issuance, history>>

-----------------------------------------------------------------------------
(* The controller: each rule in one transaction under the lock.             *)

Bounded(r) == IF r <= Floor THEN Floor ELSE Lesser(r, Target)

\* The steps a success may add, 2% of the target times the cost over the
\* rate, rounded either way to a whole token.
Steps(r, k) == {s \in 0..Target : /\ 50 * r * (s - 1) < Target * k
                                  /\ Target * k < 50 * r * (s + 1) \/ s = Target}

\* A success grows the rate and ends a run of throttles. When it closes a
\* latency window whose median is twice the baseline, the rate is cut to 90%.
Succeed(w) ==
    /\ phase[w] = "calling"
    /\ \E s \in Steps(Bounded(rate), cost[w]), slow \in BOOLEAN :
         LET grown == Lesser(Bounded(rate) + s, Target)
         IN  rate' = IF slow THEN Greater((9 * grown) \div 10, Floor) ELSE grown
    /\ throttles' = 0
    /\ End(w)
    /\ UNCHANGED <<clocks, backoff, issuance, history>>

\* The waits a throttle without a retry-after may draw.
Jitters(n) == {t \in 0..BackoffMost : t < BackoffBase * 2^n}

\* A throttle halves the rate and holds issuance back for its retry-after,
\* or for a full-jitter backoff. It never ends a backoff sooner.
Throttle(w) ==
    /\ phase[w] = "calling"
    /\ throttles < MaxThrottles
    /\ rate' = Greater(Bounded(rate) \div 2, Floor)
    /\ throttles' = throttles + 1
    /\ \E wait \in RetryAfters \cup Jitters(throttles) :
         /\ backoff' = Greater(backoff, clock + wait)
         /\ quiet' = Greater(quiet, now + wait)
    /\ End(w)
    /\ UNCHANGED <<clocks, issuance, issued>>

\* A server error cuts the rate to 80%.
ServerError(w) ==
    /\ phase[w] = "calling"
    /\ rate' = Greater((4 * Bounded(rate)) \div 5, Floor)
    /\ End(w)
    /\ UNCHANGED <<clocks, backoff, throttles, issuance, history>>

\* The call ends and the controller hears nothing: another kind of answer, a
\* failure to tell the limiter, or the process dying inside the call.
EndUntold(w) ==
    /\ phase[w] = "calling"
    /\ End(w)
    /\ UNCHANGED <<clocks, controller, issuance, history>>

-----------------------------------------------------------------------------
(* Time. *)

Tick ==
    /\ now < MaxNow
    /\ now' = now + 1
    /\ clock' = clock + 1
    /\ UNCHANGED <<controller, issuance, workers, history>>

\* A time server sets the database's clock back.
StepBack ==
    /\ \E d \in ClockSteps : /\ now - (clock - d) <= MaxLag
                             /\ clock' = clock - d
    /\ UNCHANGED <<now, controller, issuance, workers, history>>

WorkerStep(w) ==
    \/ Begin(w) \/ Refuse(w) \/ Wait(w) \/ Grant(w) \/ GrantUnheard(w) \/ Abandon(w)
    \/ Succeed(w) \/ Throttle(w) \/ ServerError(w) \/ EndUntold(w)

Next == Tick \/ StepBack \/ \E w \in Worker : WorkerStep(w)

Spec == Init /\ [][Next]_vars

-----------------------------------------------------------------------------
(* The invariants the two bounds on issuance rest on.                      *)

\* What issuance has recorded: the clock is never ahead of time, a call that
\* waits has a cost, every stored grant was counted when it was made, and the
\* count only grows.
RecordInv ==
    /\ clock <= now /\ FirstInstant <= now
    /\ \A w \in Worker : phase[w] = "waiting" => cost[w] > 0
    /\ rate <= Target
    /\ level <= Capacity
    /\ \A g \in grants : g.at <= filled /\ g.id < issued[now]
    /\ \A t, u \in Instants : t <= u => issued[t] <= issued[u]
    /\ \A t \in Instants : t >= now => issued[t] = issued[now]

\* The most the bucket could hold if it were filled at the target right now.
Fillable == Lesser(Capacity, level + Target * Greater(clock - filled, 0))

\* Issuance since any instant, with all the bucket could still give, is within
\* the politeness bound.
PoliteInv ==
    \A t \in Instants : t <= now =>
        LeaseMillis * (issued[now] - issued[t]) + Fillable
            <= Target * (now - t) + Capacity

\* The stored grants cover everything issued since any instant of the last
\* second. A stamp never falls further behind than the clock has.
Since(t) == {g \in grants : g.at > clock - (now - t)}
CoverInv ==
    \A t \in Instants : now - LeaseMillis <= t /\ t <= now =>
        issued[now] - issued[t] <= Tokens(Since(t))

\* What issuance keeps is enough to hold both bounds: a step of any worker leaves
\* the record, the bucket and the stored grants in these relations to what was
\* really issued (core.Issue, lease.storeIssuance).
IssuanceInv == RecordInv /\ PoliteInv /\ CoverInv

-----------------------------------------------------------------------------
(* Properties. *)

\* In any second, as time really passes, the tokens granted to all workers of
\* all processes sum to at most the hard cap, whatever the rate, the crashes
\* and the steps back of the clock (core.Issue, lease.storeIssuance).
HardCapKept == issued[now] - issued[now - LeaseMillis] <= HardCap

\* Over any stretch of time issuance stays within the target times its length
\* plus one second's worth at the hard cap (core.Issue, core.refill).
PolitenessKept ==
    \A t \in Instants : t <= now =>
        LeaseMillis * (issued[now] - issued[t]) <= Target * (now - t) + Capacity

\* As long as the database's clock has not stepped back, nothing is granted before
\* the longest wait any throttle so far asked for has really passed, whoever
\* reported the throttle (core.Throttled, core.Issue).
RetryAfterKept == [][clock = now /\ issued' # issued => now >= quiet]_vars

\* The row, the grants and the lock keep the account's budget: every step of every
\* process, however it crashes and the clock steps back, is one the budget allows
\* (core.Issue, core.Throttled, lease.storeIssuance).
Budget == INSTANCE AccountBudget WITH setBack <- clock # now, spent <- issued
BudgetKept == Budget!Spec

=============================================================================
