-------------------------- MODULE RateLimiterTimed --------------------------
(***************************************************************************)
(* RateLimiter with the timers that pace a waiting worker's asks (Acquire  *)
(* and waitFor of ratelimit/lease), so that how long a worker waits can be *)
(* bounded.  A timer that is due fires before time moves on, so no bound   *)
(* is missed for the want of an ask.                                       *)
(***************************************************************************)
EXTENDS RateLimiter

CONSTANTS
    ShortestWait, \* the least a waiting worker sleeps, 20 ms
    LongestWait   \* the most it sleeps, half a second

ASSUME WaitAssumption ==
    /\ ShortestWait \in Nat \ {0} /\ LongestWait \in Nat
    /\ ShortestWait <= LongestWait /\ LongestWait < LeaseMillis

VARIABLES
    askAt, \* when each waiting worker asks next
    since, \* history: when each waiting worker began to wait
    left   \* history: when each worker last stopped waiting

timedVars == <<vars, askAt, since, left>>

TimedInit ==
    /\ Init
    /\ askAt = [w \in Worker |-> 0]
    /\ since = [w \in Worker |-> 0]
    /\ left = [w \in Worker |-> 0]

CeilDiv(a, b) == (a + b - 1) \div b

\* How long a worker left waiting for k tokens sleeps: out the backoff, or
\* until the bucket holds k, and else the shortest time.
WaitFor(k, held) ==
    LET pause ==
        IF backoff > clock THEN Lesser(backoff - clock, LeaseMillis)
        ELSE IF RefillRate > 0 /\ LeaseMillis * k > held
             THEN Lesser(CeilDiv(LeaseMillis * k - held, RefillRate), LeaseMillis)
             ELSE ShortestWait
    IN  Lesser(Greater(pause, ShortestWait), LongestWait)

\* The first ask is made at once.
TimedBegin(w) ==
    /\ Begin(w)
    /\ askAt' = [askAt EXCEPT ![w] = now]
    /\ since' = [since EXCEPT ![w] = now]
    /\ UNCHANGED left

TimedWait(w) ==
    /\ now >= askAt[w]
    /\ Wait(w)
    /\ askAt' = [askAt EXCEPT ![w] = now + WaitFor(cost[w], level')]
    /\ UNCHANGED <<since, left>>

Settled(w) == /\ askAt' = [askAt EXCEPT ![w] = 0]
              /\ since' = [since EXCEPT ![w] = 0]
              /\ left' = [left EXCEPT ![w] = now]

TimedGrant(w) == /\ now >= askAt[w]
                 /\ Grant(w) \/ GrantUnheard(w) \/ Refuse(w)
                 /\ Settled(w)

TimedLeave(w) == Abandon(w) /\ Settled(w)

CallEnds(w) == /\ Succeed(w) \/ Throttle(w) \/ ServerError(w) \/ EndUntold(w)
               /\ UNCHANGED <<askAt, since, left>>

TimedTick == /\ \A w \in Worker : phase[w] = "waiting" => askAt[w] > now
             /\ Tick
             /\ UNCHANGED <<askAt, since, left>>

TimedNext ==
    \/ TimedTick
    \/ \E w \in Worker : TimedBegin(w) \/ TimedWait(w) \/ TimedGrant(w)
                         \/ TimedLeave(w) \/ CallEnds(w)

TimedSpec == TimedInit /\ [][TimedNext]_timedVars

-----------------------------------------------------------------------------
(* Properties. *)

\* How long worker w has waited, outside the waits that throttles asked for.
Waited(w) == IF phase[w] = "waiting" THEN now - Greater(since[w], quiet) ELSE 0

\* A second seen from asks ShortestWait apart, and the fewest tokens whose grants
\* in one second leave the hard cap no room for k more.
Spell == LeaseMillis + ShortestWait - 1
Crowd(k) == HardCap - k + 1

\* The interactive class's only worker, asking for no more than its share at the
\* lowest rate, when the target leaves the hard cap room for as much.
Favoured(w) ==
    /\ phase[w] = "waiting"
    /\ \A o \in Worker : ClassOf[o] = Interactive <=> o = w
    /\ cost[w] <= Floor /\ cost[w] <= InteractiveReserve
    /\ LeaseMillis * Crowd(cost[w]) > Target * Spell

\* A lent lease is spent within a second, the bucket refills to the cost at the
\* floor and the worker asks again; after that, others can go on crowding it out of
\* one second after another only by what they spend above the target.
InteractiveBound(k) ==
    LeaseMillis + CeilDiv(LeaseMillis * k, Floor) + LongestWait - 1
        + Spell * ((LeaseMillis * (HardCap - k)) \div (LeaseMillis * Crowd(k) - Target * Spell))

\* An interactive call is granted soon however much the lower classes ask for, at
\* every rate the controller goes to (core.Issue's reservations, lease.waitFor).
InteractiveWaitsBriefly ==
    \A w \in Worker : Favoured(w) => Waited(w) <= InteractiveBound(cost[w])

\* When every other worker had left the account alone for a second.
Latest(instants) == CHOOSE i \in instants : \A j \in instants : j <= i
LoneFrom(w) == Latest({since[w], quiet} \cup {left[o] + LeaseMillis : o \in Worker \ {w}})
Lone(w) == phase[w] = "waiting" /\ \A o \in Worker \ {w} : phase[o] # "waiting"

\* The bucket refills to a cost k at the floor while the worker's own last second
\* passes, and the worker asks again.
LoneBound(k) == Greater(LeaseMillis, CeilDiv(LeaseMillis * k, Floor)) + LongestWait - 1

\* A worker with the account to itself is granted any call the hard cap admits
\* within the bound, at the floor's rate too (core.refill's capacity, lease.waitFor).
LoneWaitBounded ==
    \A w \in Worker : Lone(w) => now - LoneFrom(w) <= LoneBound(cost[w])

=============================================================================
