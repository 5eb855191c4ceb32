-------------------------- MODULE RateLimiter_proofs --------------------------
(***************************************************************************)
(* The proofs about RateLimiter and RateLimiterTimed: their types, that    *)
(* issuance stays within the target over every stretch of time and within  *)
(* the hard cap in every second, whatever the clock does, and that a lone  *)
(* worker and the interactive class wait no longer than their bounds, for  *)
(* every set of workers, every cost and limit.                             *)
(***************************************************************************)
EXTENDS RateLimiterTimed, FiniteSetTheorems, WellFoundedInduction, TLAPS

USE DEF Class, Interactive, Sync, Batch

\* A product grows with each of its factors (used for rate times time).
LEMMA ProductMonotone ==
    ASSUME NEW a \in Nat, NEW b \in Nat, NEW x \in Nat, NEW y \in Nat,
           a <= b, x <= y
    PROVE  a * x \in Nat /\ b * y \in Nat /\ a * x <= b * y
<1>1. PICK d \in Nat : b = a + d
  <2>1. b - a \in Nat /\ b = a + (b - a) OBVIOUS
  <2> QED BY <2>1
<1>2. PICK e \in Nat : y = x + e
  <2>1. y - x \in Nat /\ y = x + (y - x) OBVIOUS
  <2> QED BY <2>1
<1>3. b * y = a * x + a * e + d * x + d * e
  BY <1>1, <1>2
<1>4. a * e \in Nat /\ d * x \in Nat /\ d * e \in Nat /\ a * x \in Nat
  OBVIOUS
<1> QED BY <1>3, <1>4

\* The capacity is a whole number of bucket units.
LEMMA CapacityIsNat == Capacity \in Nat
BY LimitAssumption DEF Capacity

\* What a refill leaves in the bucket: no more than the capacity, and no more
\* than a refill at the target since the bucket was last filled (core.refill).
LEMMA RefillBound ==
    ASSUME TypeOK, rate <= Target, level <= Capacity
    PROVE  /\ Raised \in Instants
           /\ clock <= Raised
           /\ Refilled \in Nat
           /\ Refilled <= Capacity
           /\ Refilled <= Fillable
<1> DEFINE from == Greater(filled, backoff)
           gap == Greater(clock - filled, 0)
<1>1. /\ Raised \in Instants /\ Raised \in Nat
      /\ clock <= Raised
      /\ clock \in Nat /\ filled \in Nat
      /\ gap \in Nat /\ Raised - filled = gap
  BY ClockAssumption DEF TypeOK, Raised, Greater, Instants
<1>2. RefillRate = rate /\ rate \in Nat /\ Target \in Nat
  BY LimitAssumption DEF RefillRate, Lesser, TypeOK
<1>3. Lesser(level, Capacity) = level /\ level \in Nat
  BY CapacityIsNat DEF Lesser, TypeOK
<1>4. Target * gap \in Nat
  BY <1>1, <1>2, ProductMonotone
<1>5. level <= Fillable
  BY <1>3, <1>4, CapacityIsNat DEF Fillable, Lesser
<1>6. CASE Raised > from
  <2>1. Raised - from \in Nat /\ Raised - from <= gap
    BY <1>1, <1>6 DEF Greater, TypeOK
  <2>2. rate * (Raised - from) \in Nat /\ rate * (Raised - from) <= Target * gap
    BY <2>1, <1>1, <1>2, ProductMonotone
  <2>3. Refilled = Lesser(level + rate * (Raised - from), Capacity)
    BY <1>2, <1>3, <1>6 DEF Refilled
  <2> HIDE DEF from, gap
  <2>4. /\ Refilled \in Nat /\ Refilled <= Capacity
        /\ Refilled <= Lesser(Capacity, level + Target * gap)
    BY <2>2, <2>3, <1>3, <1>4, CapacityIsNat DEF Lesser
  <2> QED BY <2>4, <1>1 DEF Fillable, gap
<1>7. CASE ~(Raised > from)
  <2>1. Refilled = level
    BY <1>3, <1>7 DEF Refilled
  <2> QED BY <2>1, <1>1, <1>3, <1>5
<1> QED BY <1>6, <1>7

-----------------------------------------------------------------------------
(* Counting tokens. *)

\* A finite set of rows holds finitely many tokens.
LEMMA TokensAreFinite ==
    ASSUME NEW rows, IsFiniteSet(rows)
    PROVE  IsFiniteSet(TokensOf(rows)) /\ Tokens(rows) \in Nat
<1>1. IsFiniteSet(1..HardCap)
  BY LimitAssumption, FS_Interval
<1>2. IsFiniteSet(rows \X (1..HardCap))
  BY <1>1, FS_Product
<1>3. TokensOf(rows) \in SUBSET (rows \X (1..HardCap))
  BY DEF TokensOf
<1>4. IsFiniteSet(TokensOf(rows))
  BY <1>2, <1>3, FS_Subset
<1> QED BY <1>4, FS_CardinalityType DEF Tokens

\* More rows hold no fewer tokens.
LEMMA TokensGrow ==
    ASSUME NEW rows, IsFiniteSet(rows), NEW some \in SUBSET rows
    PROVE  /\ IsFiniteSet(some)
           /\ Tokens(some) \in Nat /\ Tokens(rows) \in Nat
           /\ Tokens(some) <= Tokens(rows)
<1>1. IsFiniteSet(some)
  BY FS_Subset
<1>2. TokensOf(some) \in SUBSET TokensOf(rows)
  BY DEF TokensOf
<1>3. IsFiniteSet(TokensOf(rows)) /\ Tokens(rows) \in Nat /\ Tokens(some) \in Nat
  BY <1>1, TokensAreFinite
<1>4. Cardinality(TokensOf(some)) <= Cardinality(TokensOf(rows))
  BY <1>2, <1>3, FS_Subset
<1> QED BY <1>1, <1>3, <1>4 DEF Tokens

\* A row holds the tokens its field says.
LEMMA TokensOfOne ==
    ASSUME NEW g \in Row
    PROVE  Tokens({g}) = g.tokens
<1> DEFINE n == g.tokens
           count == [i \in 1..n |-> <<g, i>>]
<1>1. n \in Nat /\ n <= HardCap /\ HardCap \in Nat
  BY LimitAssumption DEF Row
<1>2. TokensOf({g}) = {g} \X (1..n)
  BY <1>1 DEF TokensOf
<1> HIDE DEF n
<1>3. count \in [1..n -> TokensOf({g})]
  BY <1>2
<1>4. \A i, j \in 1..n : count[i] = count[j] => i = j
  OBVIOUS
<1>5. \A t \in TokensOf({g}) : \E i \in 1..n : count[i] = t
  BY <1>2
<1>6. count \in Bijection(1..n, TokensOf({g}))
  BY <1>3, <1>4, <1>5 DEF Bijection, Injection, Surjection, IsInjective
<1>7. Cardinality(TokensOf({g})) = n
  BY <1>1, <1>6, FS_CountingElements DEF ExistsBijection
<1> QED BY <1>7 DEF Tokens, n

\* A new row adds its own tokens and no others.
LEMMA TokensAdd ==
    ASSUME NEW rows, IsFiniteSet(rows), NEW g \in Row, g \notin rows
    PROVE  /\ IsFiniteSet(rows \cup {g})
           /\ Tokens(rows \cup {g}) = Tokens(rows) + g.tokens
<1>1. IsFiniteSet(rows \cup {g}) /\ IsFiniteSet({g})
  BY FS_AddElement, FS_Singleton
<1>2. /\ TokensOf(rows \cup {g}) = TokensOf(rows) \cup TokensOf({g})
      /\ TokensOf(rows) \cap TokensOf({g}) = {}
  BY DEF TokensOf
<1>3. IsFiniteSet(TokensOf(rows)) /\ IsFiniteSet(TokensOf({g}))
  BY <1>1, TokensAreFinite
<1>4. Cardinality(TokensOf(rows \cup {g})) =
        Cardinality(TokensOf(rows)) + Cardinality(TokensOf({g})) - Cardinality({})
  BY <1>2, <1>3, FS_Union
<1>5. Cardinality({}) = 0
  BY FS_EmptySet
<1>6. Tokens(rows) \in Nat /\ Tokens({g}) = g.tokens /\ g.tokens \in Nat
  BY TokensAreFinite, TokensOfOne, LimitAssumption DEF Row
<1> QED BY <1>1, <1>4, <1>5, <1>6 DEF Tokens

-----------------------------------------------------------------------------
(* Types. *)

\* The rows kept by a transaction are rows (lease.storeIssuance).
LEMMA KeptAreRows ==
    ASSUME TypeOK, Raised \in Instants
    PROVE  KeptGrants \subseteq Row
<1>1. ASSUME NEW g \in Row
      PROVE  [g EXCEPT !.at = Lesser(g.at, Raised)] \in Row
  BY <1>1 DEF Row, Lesser
<1> QED BY <1>1 DEF KeptGrants, TypeOK

\* The rules keep the rate a natural number (core.Succeeded, core.Throttled,
\* core.ServerErrored), between the floor and the target.
LEMMA RateRules ==
    ASSUME rate \in Nat
    PROVE  /\ Bounded(rate) \in Nat /\ Bounded(rate) <= Target /\ Bounded(rate) >= Floor
           /\ \A s \in Nat : LET grown == Lesser(Bounded(rate) + s, Target) IN
                /\ grown \in Nat /\ grown <= Target
                /\ Greater((9 * grown) \div 10, Floor) \in Nat
                /\ Greater((9 * grown) \div 10, Floor) <= Target
           /\ Greater(Bounded(rate) \div 2, Floor) \in Nat
           /\ Greater(Bounded(rate) \div 2, Floor) <= Target
           /\ Greater((4 * Bounded(rate)) \div 5, Floor) \in Nat
           /\ Greater((4 * Bounded(rate)) \div 5, Floor) <= Target
<1>1. Bounded(rate) \in Nat /\ Bounded(rate) <= Target /\ Bounded(rate) >= Floor
  BY LimitAssumption DEF Bounded, Lesser
<1>2. ASSUME NEW s \in Nat
      PROVE  LET grown == Lesser(Bounded(rate) + s, Target) IN
                /\ grown \in Nat /\ grown <= Target
                /\ Greater((9 * grown) \div 10, Floor) \in Nat
                /\ Greater((9 * grown) \div 10, Floor) <= Target
  <2> DEFINE grown == Lesser(Bounded(rate) + s, Target)
  <2>1. grown \in Nat /\ grown <= Target
    BY <1>1, LimitAssumption DEF Lesser
  <2> HIDE DEF grown
  <2>2. (9 * grown) \div 10 \in Nat /\ (9 * grown) \div 10 <= grown
    BY <2>1
  <2>3. Greater((9 * grown) \div 10, Floor) \in Nat /\ Greater((9 * grown) \div 10, Floor) <= Target
    BY <2>1, <2>2, LimitAssumption DEF Greater
  <2> QED BY <2>1, <2>3 DEF grown
<1>3. /\ Bounded(rate) \div 2 \in Nat /\ Bounded(rate) \div 2 <= Target
      /\ (4 * Bounded(rate)) \div 5 \in Nat /\ (4 * Bounded(rate)) \div 5 <= Target
  BY <1>1, LimitAssumption
<1> QED BY <1>1, <1>2, <1>3, LimitAssumption DEF Greater


\* What a transaction keeps is the rows of the last second, unmoved, for no row
\* is stamped ahead of the instant issuance reached (lease.storeIssuance).
LEMMA KeptAreRecent ==
    ASSUME TypeOK, RecordInv
    PROVE  /\ KeptGrants = {g \in grants : g.at > clock - LeaseMillis}
           /\ IsFiniteSet(KeptGrants)
           /\ \A g \in grants : g.at <= Raised
<1>1. ASSUME NEW g \in grants
      PROVE  g.at \in Nat /\ g.at <= Raised
  <2>1. g \in Row /\ filled \in Nat /\ clock \in Nat
    BY ClockAssumption DEF TypeOK, Instants
  <2>2. g.at \in Nat
    BY <2>1 DEF Row, Instants
  <2>3. g.at <= filled
    BY DEF RecordInv
  <2> QED BY <2>1, <2>2, <2>3 DEF Raised, Greater
<1>2. ASSUME NEW g \in grants
      PROVE  [g EXCEPT !.at = Lesser(g.at, Raised)] = g
  <2>1. Lesser(g.at, Raised) = g.at
    BY <1>1 DEF Lesser
  <2>2. g \in Row
    BY DEF TypeOK
  <2> QED BY <2>1, <2>2 DEF Row
<1>3. KeptGrants = {g \in grants : g.at > clock - LeaseMillis}
  BY <1>2 DEF KeptGrants
<1>4. IsFiniteSet(grants)
  BY DEF TypeOK
<1>5. IsFiniteSet({g \in grants : g.at > clock - LeaseMillis})
  <2>1. {g \in grants : g.at > clock - LeaseMillis} \in SUBSET grants
    OBVIOUS
  <2> QED BY <1>4, <2>1, FS_Subset
<1> QED BY <1>1, <1>3, <1>5

\* What a class is owed is never less than nothing (core.Issue).
LEMMA OwedIsNat ==
    ASSUME TypeOK, NEW c \in Class
    PROVE  Owed(c) \in Nat
<1>1. RefillRate \in Nat
  BY LimitAssumption DEF TypeOK, RefillRate, Lesser
<1>2. \A d \in Class : Share(d) \in Int
  BY <1>1, LimitAssumption DEF Share, Lesser
<1>3. \A d \in Class : Held(d) \in Nat
  <2> TAKE d \in Class
  <2>1. {g \in grants : g.class = d /\ g.at + LeaseMillis > Raised} \in SUBSET grants
    OBVIOUS
  <2> QED BY <2>1, TokensGrow DEF TypeOK, Held
<1>4. \A d \in Class : Undrawn(d) \in Nat
  BY <1>2, <1>3 DEF Undrawn, Greater
<1> QED BY <1>4 DEF Owed

\* A grant fits the bucket and the window (core.Issue).
LEMMA GrantFits ==
    ASSUME TypeOK, RecordInv, NEW c \in Class, NEW k \in Nat, Grantable(c, k)
    PROVE  /\ LeaseMillis * k \in Nat
           /\ LeaseMillis * k <= Refilled
           /\ k <= HardCap
<1>1. Refilled \in Nat
  BY RefillBound DEF RecordInv
<1>2. Owed(c) \in Nat
  BY OwedIsNat
<1>3. LeaseMillis \in Nat /\ HardCap \in Nat
  BY LimitAssumption
<1>4. LeaseMillis * Owed(c) \in Nat /\ LeaseMillis * k \in Nat
  BY <1>2, <1>3
<1>5. LeaseMillis * k <= Refilled - LeaseMillis * Owed(c)
  BY DEF Grantable, Available
<1>6. Windowed \in Nat
  <2>1. {g \in grants : Lesser(g.at, Raised) > clock - LeaseMillis} \in SUBSET grants
    OBVIOUS
  <2> QED BY <2>1, TokensGrow DEF TypeOK, Windowed
<1> QED BY <1>1, <1>3, <1>4, <1>5, <1>6 DEF Grantable

(***************************************************************************)
(* The type invariant and RecordInv, by the part of the state they are     *)
(* about: no action disturbs more than two parts.                          *)
(***************************************************************************)
ClocksOK ==
    /\ now \in Instants /\ clock \in Instants
    /\ clock <= now /\ FirstInstant <= now

ControllerOK ==
    /\ rate \in Nat /\ rate <= Target
    /\ backoff \in Nat /\ throttles \in Nat /\ quiet \in Nat

RowsOK ==
    /\ grants \subseteq Row /\ IsFiniteSet(grants)
    /\ \A g \in grants : g.at <= filled /\ g.id < issued[now]

IssuedOK ==
    /\ issued \in [Instants -> Nat]
    /\ \A t, u \in Instants : t <= u => issued[t] <= issued[u]
    /\ \A t \in Instants : t >= now => issued[t] = issued[now]

BucketOK ==
    /\ level \in Nat /\ level <= Capacity
    /\ filled \in Instants
    /\ asked \in [Class -> Instants]

WorkersOK ==
    /\ phase \in [Worker -> Phases]
    /\ cost \in [Worker -> Nat]
    /\ \A w \in Worker : phase[w] = "waiting" => cost[w] > 0

\* The parts are the whole.
LEMMA Parts ==
    (TypeOK /\ RecordInv) <=>
        ClocksOK /\ ControllerOK /\ RowsOK /\ IssuedOK /\ BucketOK /\ WorkersOK
BY DEF TypeOK, RecordInv, ClocksOK, ControllerOK, RowsOK, IssuedOK, BucketOK, WorkersOK

\* An ask left waiting keeps the stored state sound (lease.storeIssuance).
LEMMA AskKeeps ==
    ASSUME TypeOK, RecordInv, NEW c \in Class, StoreAsk(c), UNCHANGED clocks
    PROVE  RowsOK' /\ IssuedOK' /\ BucketOK'
<1>1. Raised \in Instants /\ Refilled \in Nat /\ Refilled <= Capacity
  BY RefillBound DEF RecordInv
<1>2. /\ level' = Refilled /\ filled' = Raised /\ asked' = [asked EXCEPT ![c] = Raised]
      /\ grants' = KeptGrants /\ issued' = issued /\ now' = now
  BY DEF StoreAsk, clocks
<1>3. BucketOK'
  BY <1>1, <1>2 DEF BucketOK, TypeOK, Capacity
<1>4. IssuedOK'
  BY <1>2 DEF IssuedOK, TypeOK, RecordInv
<1>5. RowsOK'
  <2>1. KeptGrants \subseteq grants /\ IsFiniteSet(KeptGrants)
    BY KeptAreRecent
  <2>2. \A g \in KeptGrants : g.at <= Raised /\ g.id < issued[now]
    BY <2>1, KeptAreRecent DEF RecordInv
  <2>3. KeptGrants \subseteq Row
    BY <2>1 DEF TypeOK
  <2> QED BY <1>2, <2>1, <2>2, <2>3 DEF RowsOK
<1> QED BY <1>3, <1>4, <1>5

\* What a grant counts: its tokens from this instant on (core.Issue).
LEMMA GrantCounts ==
    ASSUME TypeOK, RecordInv, NEW c \in Class, NEW k \in Nat \ {0}, StoreGrant(c, k)
    PROVE  /\ issued' \in [Instants -> Nat]
           /\ \A t \in Instants : t >= now => issued'[t] = issued[now] + k
           /\ \A t \in Instants : t < now => issued'[t] = issued[t]
<1>1. issued \in [Instants -> Nat] /\ \A t \in Instants : t >= now => issued[t] = issued[now]
  BY DEF TypeOK, RecordInv
<1>2. issued' = [t \in Instants |-> IF t >= now THEN issued[t] + k ELSE issued[t]]
  BY DEF StoreGrant
<1>3. Instants \subseteq Nat /\ now \in Instants
  BY DEF TypeOK, Instants
<1> QED BY <1>1, <1>2, <1>3

\* The row of a grant is a new one (lease.storeIssuance).
LEMMA GrantIsNew ==
    ASSUME TypeOK, RecordInv, NEW c \in Class, NEW k \in Nat \ {0}, Grantable(c, k)
    PROVE  /\ NewGrant(c, k) \in Row
           /\ NewGrant(c, k) \notin grants
<1>1. Raised \in Instants /\ k \in 1..HardCap
  BY RefillBound, GrantFits, LimitAssumption DEF RecordInv
<1>2. issued[now] \in Nat
  BY DEF TypeOK
<1>3. NewGrant(c, k) \in Row
  BY <1>1, <1>2 DEF NewGrant, Row
<1>4. NewGrant(c, k).id = issued[now]
  BY DEF NewGrant
<1> QED BY <1>2, <1>3, <1>4 DEF RecordInv

\* A grant keeps the stored state sound (lease.storeIssuance).
LEMMA GrantKeeps ==
    ASSUME TypeOK, RecordInv, NEW c \in Class, NEW k \in Nat \ {0},
           Grantable(c, k), StoreGrant(c, k), UNCHANGED clocks
    PROVE  RowsOK' /\ IssuedOK' /\ BucketOK'
<1>1. Raised \in Instants /\ Refilled \in Nat /\ Refilled <= Capacity
  BY RefillBound DEF RecordInv
<1>2. LeaseMillis * k \in Nat /\ LeaseMillis * k <= Refilled
  BY GrantFits
<1>3. /\ level' = Refilled - LeaseMillis * k /\ filled' = Raised
      /\ asked' = [asked EXCEPT ![c] = Raised]
      /\ grants' = KeptGrants \cup {NewGrant(c, k)} /\ now' = now
  BY DEF StoreGrant, clocks
<1>4. BucketOK'
  <2>1. level' \in Nat /\ level' <= Capacity
    <3> HIDE DEF Capacity
    <3> QED BY <1>1, <1>2, <1>3, CapacityIsNat
  <2> QED BY <1>1, <1>3, <2>1 DEF BucketOK, TypeOK, Capacity
<1>5. IssuedOK'
  <2>1. now \in Instants /\ Instants \subseteq Nat
    BY DEF TypeOK, Instants
  <2>2. \A t, u \in Instants : t <= u => issued[t] <= issued[u]
    BY DEF RecordInv
  <2>3. issued[now] \in Nat /\ issued \in [Instants -> Nat]
    BY DEF TypeOK
  <2>4. ASSUME NEW t \in Instants, NEW u \in Instants, t <= u
        PROVE  issued'[t] <= issued'[u]
    BY <2>1, <2>2, <2>3, <2>4, GrantCounts
  <2> QED BY <1>3, <2>1, <2>4, GrantCounts DEF IssuedOK
<1>6. RowsOK'
  <2>1. KeptGrants \subseteq grants /\ IsFiniteSet(KeptGrants)
    BY KeptAreRecent
  <2>2. grants' \subseteq Row /\ IsFiniteSet(grants')
    BY <1>3, <2>1, GrantIsNew, FS_AddElement DEF TypeOK
  <2>3. issued'[now] = issued[now] + k /\ issued[now] \in Nat
    <3>1. now \in Instants /\ now >= now
      BY DEF TypeOK, Instants
    <3> QED BY <3>1, GrantCounts DEF TypeOK
  <2>4. ASSUME NEW g \in KeptGrants
        PROVE  g.at <= Raised /\ g.id < issued'[now]
    <3>1. g \in Row /\ g.at <= Raised /\ g.id < issued[now]
      BY <2>1, KeptAreRecent DEF RecordInv, TypeOK
    <3> QED BY <3>1, <2>3 DEF Row
  <2>5. NewGrant(c, k).at <= Raised /\ NewGrant(c, k).id < issued'[now]
    BY <1>1, <2>3 DEF NewGrant, Instants
  <2> QED BY <1>3, <2>2, <2>4, <2>5 DEF RowsOK
<1> QED BY <1>4, <1>5, <1>6

\* Init is sound: nothing is issued and no row is stored (lease.Acquire's
\* first read of an account).
LEMMA InitSound == Init => TypeOK /\ RecordInv
<1> SUFFICES ASSUME Init PROVE TypeOK /\ RecordInv
  OBVIOUS
<1>1. ClocksOK
  BY ClockAssumption DEF Init, ClocksOK, Instants
<1>2. ControllerOK
  BY LimitAssumption DEF Init, ControllerOK
<1>3. RowsOK
  BY FS_EmptySet DEF Init, RowsOK
<1>4. IssuedOK
  <2>1. now \in Instants
    BY <1>1 DEF ClocksOK
  <2> QED BY <2>1 DEF Init, IssuedOK, Instants
<1>5. BucketOK
  <2>1. 0 \in Instants
    BY ClockAssumption DEF Instants
  <2> QED BY <2>1, CapacityIsNat DEF Init, BucketOK
<1>6. WorkersOK
  BY DEF Init, WorkersOK, Phases
<1> QED BY <1>1, <1>2, <1>3, <1>4, <1>5, <1>6, Parts

\* Every step keeps the state sound, action by action.
LEMMA StepSound ==
    TypeOK /\ RecordInv /\ [Next]_vars => TypeOK' /\ RecordInv'
<1> SUFFICES ASSUME TypeOK, RecordInv, [Next]_vars PROVE TypeOK' /\ RecordInv'
  OBVIOUS
<1>0. ClocksOK /\ ControllerOK /\ RowsOK /\ IssuedOK /\ BucketOK /\ WorkersOK
  BY Parts
<1> SUFFICES ClocksOK' /\ ControllerOK' /\ RowsOK' /\ IssuedOK' /\ BucketOK' /\ WorkersOK'
  BY Parts, PTL
<1> DEFINE
      SameClocks == UNCHANGED clocks => ClocksOK'
      SameIssuance == UNCHANGED <<now, issuance, issued>> => RowsOK' /\ IssuedOK' /\ BucketOK'
      SameController == UNCHANGED <<controller, quiet>> => ControllerOK'
      SameWorkers == UNCHANGED workers => WorkersOK'
<1>1. SameClocks /\ SameIssuance /\ SameController /\ SameWorkers
  <2>1. SameClocks
    BY <1>0 DEF clocks, ClocksOK
  <2>2. SameIssuance
    BY <1>0 DEF issuance, RowsOK, IssuedOK, BucketOK
  <2>3. SameController
    BY <1>0 DEF controller, ControllerOK
  <2>4. SameWorkers
    BY <1>0 DEF workers, WorkersOK
  <2> QED BY <2>1, <2>2, <2>3, <2>4
<1>2. ASSUME NEW w \in Worker, NEW p \in Phases, NEW k \in Nat, Enter(w, p, k),
             p = "waiting" => k > 0
      PROVE  WorkersOK'
  BY <1>0, <1>2 DEF Enter, WorkersOK
<1>3. ASSUME NEW w \in Worker, End(w)
      PROVE  WorkersOK'
  BY <1>2, <1>3 DEF End, Phases
<1>4. CASE Tick
  <2>1. ClocksOK'
    BY <1>0, <1>4, ClockAssumption DEF Tick, ClocksOK, Instants
  <2>2. IssuedOK'
    <3>1. issued' = issued /\ now' = now + 1 /\ now \in Instants /\ now' \in Instants
      BY <1>0, <1>4, <2>1 DEF Tick, ClocksOK, history
    <3>2. \A t \in Instants : t >= now => issued[t] = issued[now]
      BY <1>0 DEF IssuedOK
    <3>3. Instants \subseteq Nat
      BY DEF Instants
    <3>4. \A t \in Instants : t >= now' => issued'[t] = issued'[now']
      BY <3>1, <3>2, <3>3
    <3> QED BY <1>0, <3>1, <3>4 DEF IssuedOK
  <2>3. RowsOK'
    <3>1. issued'[now'] = issued[now]
      BY <1>0, <1>4, <2>1 DEF Tick, IssuedOK, ClocksOK, history, Instants
    <3> QED BY <1>0, <1>4, <3>1 DEF Tick, RowsOK, issuance
  <2>4. BucketOK'
    BY <1>0, <1>4 DEF Tick, BucketOK, issuance
  <2> QED BY <1>1, <1>4, <2>1, <2>2, <2>3, <2>4 DEF Tick, history
<1>5. CASE StepBack
  <2>1. ClocksOK'
    <3>1. PICK d \in ClockSteps : now - (clock - d) <= MaxLag /\ clock' = clock - d
      BY <1>5 DEF StepBack
    <3>2. d \in Nat \ {0} /\ LeaseMillis \in Nat /\ now' = now
      BY <1>5, ClockAssumption, LimitAssumption DEF StepBack
    <3>3. /\ now \in Nat /\ clock \in Nat /\ now <= MaxNow
          /\ clock <= now /\ FirstInstant <= now
      BY <1>0, ClockAssumption DEF ClocksOK, Instants
    <3>4. clock' \in Nat /\ clock' <= now
      BY <3>1, <3>2, <3>3, ClockAssumption
    <3> QED BY <3>2, <3>3, <3>4, ClockAssumption DEF ClocksOK, Instants
  <2> QED BY <1>1, <1>5, <2>1 DEF StepBack, history
<1>6. ASSUME NEW w \in Worker, Begin(w)
      PROVE  WorkersOK' /\ UNCHANGED <<clocks, controller, issuance, history>>
  <2>1. PICK k \in CostsOf[w] : Enter(w, "waiting", k)
    BY <1>6 DEF Begin
  <2>2. k \in Nat /\ k > 0
    BY CostAssumption
  <2> QED BY <1>2, <1>6, <2>1, <2>2 DEF Begin, Phases
<1>7. ASSUME NEW w \in Worker, Wait(w)
      PROVE  ClocksOK' /\ ControllerOK' /\ RowsOK' /\ IssuedOK' /\ BucketOK' /\ WorkersOK'
  <2>1. ClassOf[w] \in Class
    BY ClassAssumption
  <2>2. StoreAsk(ClassOf[w]) /\ UNCHANGED <<clocks, controller, workers, quiet>>
    BY <1>7 DEF Wait
  <2>3. UNCHANGED clocks
    BY <2>2
  <2>4. RowsOK' /\ IssuedOK' /\ BucketOK'
    BY <2>1, <2>2, <2>3, AskKeeps
  <2> QED BY <1>1, <2>2, <2>4
<1>8. ASSUME NEW w \in Worker, Grant(w) \/ GrantUnheard(w)
      PROVE  ClocksOK' /\ ControllerOK' /\ RowsOK' /\ IssuedOK' /\ BucketOK' /\ WorkersOK'
  <2>1. ClassOf[w] \in Class
    BY ClassAssumption
  <2>2. cost[w] \in Nat \ {0}
    BY <1>0, <1>8 DEF Grant, GrantUnheard, WorkersOK
  <2>3. /\ Grantable(ClassOf[w], cost[w]) /\ StoreGrant(ClassOf[w], cost[w])
        /\ UNCHANGED clocks /\ UNCHANGED <<controller, quiet>>
    BY <1>8 DEF Grant, GrantUnheard
  <2>4. RowsOK' /\ IssuedOK' /\ BucketOK'
    BY <2>1, <2>2, <2>3, GrantKeeps
  <2>5. WorkersOK'
    BY <1>2, <1>3, <1>8, <2>2 DEF Grant, GrantUnheard, Phases
  <2> QED BY <1>1, <2>3, <2>4, <2>5
<1>9. ASSUME NEW w \in Worker, Succeed(w)
      PROVE  ControllerOK'
  <2>1. PICK s \in Steps(Bounded(rate), cost[w]), slow \in BOOLEAN :
          LET grown == Lesser(Bounded(rate) + s, Target)
          IN  rate' = IF slow THEN Greater((9 * grown) \div 10, Floor) ELSE grown
    BY <1>9 DEF Succeed
  <2>2. s \in Nat
    BY LimitAssumption DEF Steps
  <2>3. rate' \in Nat /\ rate' <= Target
    BY <1>0, <2>1, <2>2, RateRules DEF ControllerOK
  <2> QED BY <1>0, <1>9, <2>3 DEF Succeed, ControllerOK, history
<1>10. ASSUME NEW w \in Worker, Throttle(w)
       PROVE  ControllerOK'
  <2>1. rate' \in Nat /\ rate' <= Target
    BY <1>0, <1>10, RateRules DEF Throttle, ControllerOK
  <2>2. PICK wait \in RetryAfters \cup Jitters(throttles) :
          backoff' = Greater(backoff, clock + wait) /\ quiet' = Greater(quiet, now + wait)
    BY <1>10 DEF Throttle
  <2>3. wait \in Nat
    BY BackoffAssumption DEF Jitters
  <2>4. backoff' \in Nat /\ quiet' \in Nat
    BY <1>0, <2>2, <2>3 DEF Greater, ControllerOK, ClocksOK, Instants
  <2> QED BY <1>0, <1>10, <2>1, <2>4 DEF Throttle, ControllerOK
<1>11. ASSUME NEW w \in Worker, ServerError(w)
       PROVE  ControllerOK'
  BY <1>0, <1>11, RateRules DEF ServerError, ControllerOK, history
<1>12. ASSUME NEW w \in Worker, WorkerStep(w)
       PROVE  ClocksOK' /\ ControllerOK' /\ RowsOK' /\ IssuedOK' /\ BucketOK' /\ WorkersOK'
  <2>1. CASE Begin(w)
    BY <1>1, <1>6, <2>1 DEF clocks, history
  <2>2. CASE Refuse(w) \/ Abandon(w) \/ EndUntold(w)
    BY <1>1, <1>3, <2>2 DEF Refuse, Abandon, EndUntold, clocks, history
  <2>3. CASE Wait(w)
    BY <1>7, <2>3
  <2>4. CASE Grant(w) \/ GrantUnheard(w)
    BY <1>8, <2>4
  <2>5. CASE Succeed(w)
    BY <1>1, <1>3, <1>9, <2>5 DEF Succeed, clocks, history
  <2>6. CASE Throttle(w)
    BY <1>1, <1>3, <1>10, <2>6 DEF Throttle, clocks
  <2>7. CASE ServerError(w)
    BY <1>1, <1>3, <1>11, <2>7 DEF ServerError, clocks, history
  <2> QED BY <1>12, <2>1, <2>2, <2>3, <2>4, <2>5, <2>6, <2>7 DEF WorkerStep
<1>13. CASE UNCHANGED vars
  BY <1>1, <1>13 DEF vars, clocks, history
<1> QED BY <1>4, <1>5, <1>12, <1>13 DEF Next

\* The state is always sound: the type invariant and the record of issuance
\* hold in every state any workers can reach.
THEOREM RecordCorrect == Spec => [](TypeOK /\ RecordInv)
BY InitSound, StepSound, PTL DEF Spec

\* The type invariant holds: no transaction stores a negative level, a rate out
\* of range or a row that holds more than the hard cap.
THEOREM TypeCorrect == Spec => []TypeOK
BY RecordCorrect, PTL

-----------------------------------------------------------------------------
(* The two bounds on issuance.                                              *)

\* What a step may do to the history of issuance and what it is judged by.
Granted(c, k) == Grantable(c, k) /\ StoreGrant(c, k) /\ UNCHANGED clocks
Left(c) == StoreAsk(c) /\ UNCHANGED clocks
Untouched == UNCHANGED <<clocks, issuance, issued>>

\* A step grants, leaves an ask waiting, moves a clock, or does none of these.
LEMMA StepKinds ==
    ASSUME TypeOK, RecordInv, [Next]_vars
    PROVE  \/ \E c \in Class, k \in Nat \ {0} : Granted(c, k)
           \/ \E c \in Class : Left(c)
           \/ Tick
           \/ StepBack
           \/ Untouched
<1>1. ASSUME NEW w \in Worker, Grant(w) \/ GrantUnheard(w)
      PROVE  \E c \in Class, k \in Nat \ {0} : Granted(c, k)
  <2>1. ClassOf[w] \in Class /\ cost[w] \in Nat \ {0}
    BY <1>1, ClassAssumption DEF TypeOK, RecordInv, Grant, GrantUnheard
  <2>2. Granted(ClassOf[w], cost[w])
    BY <1>1 DEF Grant, GrantUnheard, Granted
  <2> QED BY <2>1, <2>2
<1>2. ASSUME NEW w \in Worker, Wait(w)
      PROVE  \E c \in Class : Left(c)
  BY <1>2, ClassAssumption DEF Wait, Left
<1>3. ASSUME NEW w \in Worker,
             Begin(w) \/ Refuse(w) \/ Abandon(w) \/ Succeed(w) \/ Throttle(w)
               \/ ServerError(w) \/ EndUntold(w)
      PROVE  Untouched
  BY <1>3 DEF Begin, Refuse, Abandon, Succeed, Throttle, ServerError, EndUntold,
              Untouched, clocks, issuance, history
<1>4. CASE UNCHANGED vars
  BY <1>4 DEF vars, history, Untouched
<1> QED BY <1>1, <1>2, <1>3, <1>4 DEF Next, WorkerStep

\* The politeness bound holds at the start.
LEMMA PoliteInit == Init => PoliteInv
<1> SUFFICES ASSUME Init, NEW t \in Instants, t <= now
             PROVE  LeaseMillis * (issued[now] - issued[t]) + Fillable
                      <= Target * (now - t) + Capacity
  BY DEF PoliteInv
<1>1. issued[now] = 0 /\ issued[t] = 0
  BY ClockAssumption DEF Init, Instants
<1>2. now - t \in Nat /\ Target \in Nat /\ LeaseMillis \in Nat
  BY ClockAssumption, LimitAssumption DEF Init, Instants
<1>3. Target * (now - t) \in Nat
  BY <1>2
<1>4. Target * Greater(clock - filled, 0) \in Nat
  BY <1>2, ClockAssumption DEF Init, Greater
<1>5. Fillable <= Capacity /\ Fillable \in Int
  BY <1>4, CapacityIsNat DEF Fillable, Lesser, Init
<1> QED BY <1>1, <1>2, <1>3, <1>5, CapacityIsNat

\* What the bucket could hold never passes its capacity.
LEMMA FillableBound == TypeOK => Fillable \in Nat /\ Fillable <= Capacity
<1> SUFFICES ASSUME TypeOK PROVE Fillable \in Nat /\ Fillable <= Capacity
  OBVIOUS
<1>1. Target \in Nat /\ Greater(clock - filled, 0) \in Nat
  BY LimitAssumption DEF TypeOK, Greater, Instants
<1>2. Target * Greater(clock - filled, 0) \in Nat
  BY <1>1
<1> QED BY <1>2, CapacityIsNat DEF TypeOK, Fillable, Lesser

\* A bucket just filled could hold no more than it does, the clock being no
\* later than the instant it was filled to.
LEMMA FillableWhenFilled ==
    (TypeOK /\ RecordInv /\ clock <= filled) => Fillable = level
<1> SUFFICES ASSUME TypeOK, RecordInv, clock <= filled PROVE Fillable = level
  OBVIOUS
<1>1. clock \in Int /\ filled \in Int /\ level \in Nat /\ level <= Capacity
  BY DEF TypeOK, RecordInv, Instants
<1>2. Greater(clock - filled, 0) = 0
  BY <1>1 DEF Greater
<1>3. Target * Greater(clock - filled, 0) = 0
  BY <1>2, LimitAssumption
<1> QED BY <1>1, <1>3, CapacityIsNat DEF Fillable, Lesser

\* Each step keeps the politeness bound: a grant moves tokens from what the
\* bucket could hold to what was issued, and a tick adds the target to both sides.
LEMMA PoliteStep ==
    ASSUME TypeOK, RecordInv, TypeOK', RecordInv', PoliteInv, [Next]_vars
    PROVE  PoliteInv'
<1> SUFFICES ASSUME NEW t \in Instants, t <= now'
             PROVE  LeaseMillis * (issued'[now'] - issued'[t]) + Fillable'
                      <= Target * (now' - t) + Capacity
  BY DEF PoliteInv, Capacity
<1>0. /\ now \in Nat /\ t \in Nat /\ now \in Instants /\ now' \in Instants /\ now' \in Nat
      /\ Fillable \in Nat /\ Fillable <= Capacity
      /\ Fillable' \in Nat /\ Fillable' <= Capacity
      /\ LeaseMillis \in Nat /\ Target \in Nat
      /\ issued \in [Instants -> Nat] /\ issued' \in [Instants -> Nat]
  <2>1. (Fillable \in Nat /\ Fillable <= Capacity)'
    BY FillableBound, PTL
  <2>2. now \in Instants /\ now' \in Instants /\ Instants \subseteq Nat
    BY DEF TypeOK, Instants
  <2>3. issued \in [Instants -> Nat] /\ issued' \in [Instants -> Nat]
    BY DEF TypeOK
  <2> QED BY <2>1, <2>2, <2>3, FillableBound, LimitAssumption DEF Capacity
<1>1. t <= now =>
        LeaseMillis * (issued[now] - issued[t]) + Fillable <= Target * (now - t) + Capacity
  BY DEF PoliteInv
<1>2. t = now' => LeaseMillis * (issued'[now'] - issued'[t]) + Fillable'
                    <= Target * (now' - t) + Capacity
  <2>1. issued'[now'] \in Nat
    BY <1>0
  <2>2. issued'[now'] - issued'[now'] = 0 /\ now' - now' = 0
    <3>1. \A x \in Nat : x - x = 0
      OBVIOUS
    <3> QED BY <1>0, <2>1, <3>1
  <2>3. LeaseMillis * 0 = 0 /\ Target * 0 = 0
    BY <1>0
  <2> QED BY <2>2, <2>3, <1>0, CapacityIsNat
<1>3. ASSUME NEW c \in Class, NEW k \in Nat \ {0}, Granted(c, k), t < now
      PROVE  LeaseMillis * (issued'[now'] - issued'[t]) + Fillable'
               <= Target * (now' - t) + Capacity
  <2>1. now' = now /\ clock' = clock /\ StoreGrant(c, k) /\ Grantable(c, k)
    BY <1>3 DEF Granted, clocks
  <2>2. issued'[now'] = issued[now] + k /\ issued'[t] = issued[t]
    BY <1>0, <1>3, <2>1, GrantCounts
  <2>3. level' = Refilled - LeaseMillis * k /\ filled' = Raised
    BY <2>1 DEF StoreGrant
  <2>4. Refilled \in Nat /\ Refilled <= Fillable /\ clock <= Raised
    BY RefillBound DEF RecordInv
  <2>5. clock' <= filled'
    BY <2>1, <2>3, <2>4
  <2>6. Fillable' = Refilled - LeaseMillis * k
    <3>1. (clock <= filled)'
      BY <2>5
    <3>2. (Fillable = level)'
      BY <3>1, FillableWhenFilled, PTL
    <3> QED BY <2>3, <3>2
  <2>7. LeaseMillis * (issued'[now'] - issued'[t])
          = LeaseMillis * (issued[now] - issued[t]) + LeaseMillis * k
    <3>1. issued[now] \in Nat /\ issued[t] \in Nat
      BY <1>0
    <3> HIDE DEF Granted
    <3>2. \A x, y, z, l \in Int : l * ((x + z) - y) = l * (x - y) + l * z
      OBVIOUS
    <3> QED BY <1>0, <2>2, <3>1, <3>2
  <2>8. /\ LeaseMillis * k \in Nat
        /\ LeaseMillis * (issued[now] - issued[t]) \in Int
        /\ Target * (now - t) \in Int
    <3>1. issued[now] - issued[t] \in Int /\ now - t \in Int
      BY <1>0
    <3>2. \A x, y \in Int : x * y \in Int
      OBVIOUS
    <3>3. LeaseMillis * k \in Nat
      BY <1>0
    <3> QED BY <1>0, <3>1, <3>2, <3>3
  <2>9. t <= now
    BY <1>0, <1>3
  <2> QED BY <1>1, <2>1, <2>4, <2>6, <2>7, <2>8, <2>9, <1>0, CapacityIsNat
<1>4. \A x, y, l \in Int : l * (x - y) \in Int
  OBVIOUS
<1>5. ASSUME UNCHANGED <<now, issued>>, Fillable' <= Fillable, t <= now
      PROVE  LeaseMillis * (issued'[now'] - issued'[t]) + Fillable'
               <= Target * (now' - t) + Capacity
  <2>1. LeaseMillis * (issued[now] - issued[t]) \in Int /\ Target * (now - t) \in Int
    BY <1>0, <1>4
  <2> QED BY <1>0, <1>1, <1>5, <2>1, CapacityIsNat
<1>6. CASE \E c \in Class : Left(c)
  <2>1. PICK c \in Class : Left(c)
    BY <1>6
  <2>2. /\ UNCHANGED <<now, issued, clock>>
        /\ level' = Refilled /\ filled' = Raised
    BY <2>1 DEF Left, StoreAsk, clocks
  <2>3. Refilled <= Fillable /\ clock <= Raised
    BY RefillBound DEF RecordInv
  <2>4. (clock <= filled)'
    BY <2>2, <2>3
  <2>5. (Fillable = level)'
    BY <2>4, FillableWhenFilled, PTL
  <2> QED BY <1>5, <2>2, <2>3, <2>5
<1>7. CASE Untouched
  <2>1. UNCHANGED <<now, issued, clock, level, filled>>
    BY <1>7 DEF Untouched, clocks, issuance
  <2>2. Fillable' = Fillable
    BY <2>1 DEF Fillable, Capacity
  <2> QED BY <1>0, <1>5, <2>1, <2>2
<1>8. CASE StepBack
  <2>1. PICK d \in ClockSteps : clock' = clock - d
    BY <1>8 DEF StepBack
  <2>2. UNCHANGED <<now, issued, level, filled>> /\ d \in Nat
    BY <1>8, ClockAssumption DEF StepBack, issuance, history
  <2>3. /\ Greater(clock' - filled, 0) \in Nat /\ Greater(clock - filled, 0) \in Nat
        /\ Greater(clock' - filled, 0) <= Greater(clock - filled, 0)
    <3>1. clock \in Int /\ filled \in Int
      BY DEF TypeOK, Instants
    <3> QED BY <2>1, <2>2, <3>1 DEF Greater
  <2>4. /\ Target * Greater(clock' - filled, 0) \in Nat
        /\ Target * Greater(clock - filled, 0) \in Nat
        /\ Target * Greater(clock' - filled, 0) <= Target * Greater(clock - filled, 0)
    BY <1>0, <2>3, ProductMonotone
  <2>5. Fillable' = Lesser(Capacity, level + Target * Greater(clock' - filled, 0))
    BY <2>2 DEF Fillable, Capacity
  <2>6. Fillable' <= Fillable
    BY <2>4, <2>5, CapacityIsNat DEF Fillable, Lesser, TypeOK
  <2> QED BY <1>5, <2>2, <2>6
<1>9. CASE Tick
  <2>1. UNCHANGED <<issued, level, filled>> /\ now' = now + 1 /\ clock' = clock + 1
    BY <1>9 DEF Tick, issuance, history
  <2>2. issued'[now'] = issued[now]
    BY <1>0, <2>1 DEF RecordInv
  <2>3. Fillable' <= Fillable + Target
    <3> DEFINE a == Greater(clock - filled, 0)
               b == Greater(clock' - filled, 0)
    <3>1. a \in Nat /\ b \in Nat /\ (b = a \/ b = a + 1)
      <4>1. clock \in Int /\ filled \in Int
        BY DEF TypeOK, Instants
      <4> QED BY <2>1, <4>1 DEF Greater
    <3>2. Fillable' = Lesser(Capacity, level + Target * b)
      BY <2>1 DEF Fillable, Capacity
    <3>3. Fillable = Lesser(Capacity, level + Target * a)
      BY DEF Fillable
    <3> HIDE DEF a, b
    <3>4. /\ Target * a \in Nat /\ Target * b \in Nat
          /\ Target * b <= Target * a + Target
      BY <1>0, <3>1
    <3> QED BY <1>0, <3>2, <3>3, <3>4, CapacityIsNat DEF Lesser, TypeOK
  <2>4. ASSUME t <= now
        PROVE  LeaseMillis * (issued'[now'] - issued'[t]) + Fillable'
                 <= Target * (now' - t) + Capacity
    <3>1. LeaseMillis * (issued[now] - issued[t]) \in Int /\ Target * (now - t) \in Int
      BY <1>0, <1>4
    <3>2. Target * (now' - t) = Target * (now - t) + Target
      <4>1. \A x, y, z \in Int : z * ((x + 1) - y) = z * (x - y) + z
        OBVIOUS
      <4> QED BY <1>0, <2>1, <4>1
    <3> QED BY <1>0, <1>1, <2>1, <2>2, <2>3, <2>4, <3>1, <3>2, CapacityIsNat
  <2>5. t <= now \/ t = now'
    BY <1>0, <2>1
  <2> QED BY <1>2, <2>4, <2>5
<1>10. CASE \E c \in Class, k \in Nat \ {0} : Granted(c, k)
  <2>1. PICK c \in Class, k \in Nat \ {0} : Granted(c, k)
    BY <1>10
  <2>2. now' = now
    BY <2>1 DEF Granted, clocks
  <2>3. t < now \/ t = now'
    BY <1>0, <2>2
  <2> QED BY <1>2, <1>3, <2>1, <2>3
<1> QED BY <1>6, <1>7, <1>8, <1>9, <1>10, StepKinds

\* Within the bound with all the bucket could still give is within the bound.
LEMMA PoliteIsPolite == TypeOK /\ PoliteInv => PolitenessKept
<1> SUFFICES ASSUME TypeOK, PoliteInv, NEW t \in Instants, t <= now
             PROVE  LeaseMillis * (issued[now] - issued[t]) <= Target * (now - t) + Capacity
  BY DEF PolitenessKept
<1>1. LeaseMillis * (issued[now] - issued[t]) + Fillable <= Target * (now - t) + Capacity
  BY DEF PoliteInv
<1>2. issued[now] - issued[t] \in Int /\ now - t \in Int
  BY SMTT(30) DEF TypeOK, Instants
<1>3. \A x, y \in Int : x * y \in Int
  OBVIOUS
<1>4. LeaseMillis * (issued[now] - issued[t]) \in Int /\ Target * (now - t) \in Int
  BY <1>2, <1>3, LimitAssumption
<1> QED BY <1>1, <1>4, FillableBound, CapacityIsNat

\* Over any stretch of time, whatever the workers ask for, what all of them are
\* granted stays within the target times its length plus one second's worth at
\* the hard cap (core.Issue, core.refill).
THEOREM PolitenessCorrect == Spec => []PolitenessKept
<1>1. Init => TypeOK /\ RecordInv /\ PoliteInv
  BY InitSound, PoliteInit
<1>2. (TypeOK /\ RecordInv /\ PoliteInv) /\ [Next]_vars
        => (TypeOK /\ RecordInv /\ PoliteInv)'
  BY StepSound, PoliteStep
<1>3. TypeOK /\ PoliteInv => PolitenessKept
  BY PoliteIsPolite
<1> QED BY <1>1, <1>2, <1>3, PTL DEF Spec

\* The hard cap's invariants hold at the start: nothing is issued.
LEMMA CoverInit == Init => CoverInv /\ HardCapKept
<1> SUFFICES ASSUME Init PROVE CoverInv /\ HardCapKept
  OBVIOUS
<1>1. \A t \in Instants : issued[t] = 0
  BY DEF Init
<1>2. now \in Instants /\ now - LeaseMillis \in Instants
  BY ClockAssumption, LimitAssumption DEF Init, Instants
<1>3. \A t \in Instants : Tokens(Since(t)) \in Nat
  <2> TAKE t \in Instants
  <2>1. Since(t) \in SUBSET grants /\ IsFiniteSet(grants)
    BY InitSound DEF Since, TypeOK
  <2> QED BY <2>1, TokensGrow
<1> QED BY <1>1, <1>2, <1>3, LimitAssumption DEF CoverInv, HardCapKept

\* A stored grant's stamp is an instant.
LEMMA RowStamp ==
    ASSUME TypeOK, NEW g \in grants
    PROVE  g.at \in Nat
<1>1. g \in Row
  BY DEF TypeOK
<1> QED BY <1>1 DEF Row, Instants

\* What was issued since an instant is a natural number.
LEMMA IssuedSince ==
    ASSUME TypeOK, RecordInv
    PROVE  /\ Instants \subseteq Nat /\ now \in Instants /\ now - LeaseMillis \in Instants
           /\ \A t \in Instants : issued[t] \in Nat
<1>1. now \in 0..MaxNow /\ FirstInstant <= now
  BY DEF TypeOK, RecordInv, Instants
<1>2. now - LeaseMillis \in 0..MaxNow
  BY <1>1, ClockAssumption, LimitAssumption
<1> QED BY <1>1, <1>2 DEF TypeOK, Instants

\* The second that ends now lies among the instants.
LEMMA IssuedInstants ==
    (TypeOK /\ RecordInv) => now \in Instants /\ now - LeaseMillis \in Instants
BY IssuedSince

\* The window a request is judged by is the rows of the last second, as time
\* really passed, or more (core.windowed).
LEMMA WindowCovers ==
    ASSUME TypeOK, RecordInv
    PROVE  Windowed = Tokens(Since(now - LeaseMillis))
<1>1. clock \in Int /\ now \in Int /\ LeaseMillis \in Int /\ Raised \in Int
  BY LimitAssumption, RefillBound DEF TypeOK, RecordInv, Instants
<1>2. clock - (now - (now - LeaseMillis)) = clock - LeaseMillis
  BY <1>1
<1>3. ASSUME NEW g \in grants
      PROVE  Lesser(g.at, Raised) = g.at
  BY KeptAreRecent DEF Lesser
<1>4. {g \in grants : Lesser(g.at, Raised) > clock - LeaseMillis}
        = {g \in grants : g.at > clock - (now - (now - LeaseMillis))}
  BY <1>2, <1>3
<1> QED BY <1>4 DEF Windowed, Since

\* Each step keeps the stored grants covering what was issued in the last
\* second: a row is deleted only once it is a second old by the very clock
\* the next request is judged by (lease.storeIssuance).
LEMMA CoverStep ==
    ASSUME TypeOK, RecordInv, TypeOK', RecordInv', CoverInv, [Next]_vars
    PROVE  CoverInv'
<1> SUFFICES ASSUME NEW t \in Instants, now' - LeaseMillis <= t, t <= now'
             PROVE  issued'[now'] - issued'[t] <= Tokens(Since(t)')
  BY DEF CoverInv, Tokens, TokensOf
<1>0. /\ now \in Nat /\ t \in Nat /\ now \in Instants /\ now' \in Instants /\ now' \in Nat
      /\ clock \in Int /\ clock' \in Int /\ LeaseMillis \in Nat
      /\ \A u \in Instants : issued[u] \in Nat /\ issued'[u] \in Nat
      /\ IsFiniteSet(grants) /\ IsFiniteSet(grants')
  <2>1. /\ now \in Instants /\ now' \in Instants /\ clock \in Instants /\ clock' \in Instants
        /\ IsFiniteSet(grants) /\ IsFiniteSet(grants')
        /\ issued \in [Instants -> Nat] /\ issued' \in [Instants -> Nat]
    BY DEF TypeOK
  <2> QED BY <2>1, LimitAssumption DEF Instants
<1>1. Since(t)' = {g \in grants' : g.at > clock' - (now' - t)}
  BY DEF Since
<1>2. IsFiniteSet(Since(t)') /\ Tokens(Since(t)') \in Nat
  <2>1. Since(t)' \in SUBSET grants'
    BY <1>1
  <2> QED BY <1>0, <2>1, TokensGrow
<1>3. t = now' => issued'[now'] - issued'[t] <= Tokens(Since(t)')
  <2>1. \A x \in Nat : x - x = 0
    OBVIOUS
  <2> QED BY <1>0, <1>2, <2>1
<1>4. now - LeaseMillis <= t /\ t <= now => issued[now] - issued[t] <= Tokens(Since(t))
  BY DEF CoverInv
<1>5. ASSUME UNCHANGED <<now, issued>>, Since(t) \subseteq Since(t)'
      PROVE  issued'[now'] - issued'[t] <= Tokens(Since(t)')
  <2>1. Tokens(Since(t)) <= Tokens(Since(t)') /\ Tokens(Since(t)) \in Nat
    BY <1>2, <1>5, TokensGrow
  <2>2. issued[now] - issued[t] <= Tokens(Since(t))
    BY <1>4, <1>5
  <2>3. issued[now] \in Nat /\ issued[t] \in Nat
    BY <1>0
  <2> QED BY <1>2, <1>5, <2>1, <2>2, <2>3
<1>6. CASE \E c \in Class : Left(c)
  <2>1. PICK c \in Class : Left(c)
    BY <1>6
  <2>2. UNCHANGED <<now, issued, clock>> /\ grants' = KeptGrants
    BY <2>1 DEF Left, StoreAsk, clocks
  <2>3. KeptGrants = {g \in grants : g.at > clock - LeaseMillis}
    BY KeptAreRecent
  <2>4. ASSUME NEW g \in Since(t)
        PROVE  g \in Since(t)'
    <3>1. g \in grants /\ g.at > clock - (now - t) /\ g.at \in Int
      BY RowStamp DEF Since
    <3>2. g.at > clock - LeaseMillis
      BY <1>0, <2>2, <3>1
    <3> QED BY <1>1, <2>2, <2>3, <3>1, <3>2
  <2> QED BY <1>5, <2>2, <2>4
<1>7. CASE Untouched
  <2>1. UNCHANGED <<now, issued, clock, grants>>
    BY <1>7 DEF Untouched, clocks, issuance
  <2> QED BY <1>1, <1>5, <2>1 DEF Since
<1>8. CASE StepBack
  <2>1. PICK d \in ClockSteps : clock' = clock - d
    BY <1>8 DEF StepBack
  <2>2. UNCHANGED <<now, issued, grants>> /\ d \in Nat
    BY <1>8, ClockAssumption DEF StepBack, issuance, history
  <2>3. ASSUME NEW g \in Since(t)
        PROVE  g \in Since(t)'
    <3>1. g \in grants /\ g.at > clock - (now - t) /\ g.at \in Int
      BY RowStamp DEF Since
    <3>2. g.at > clock' - (now' - t)
      BY <1>0, <2>1, <2>2, <3>1
    <3> QED BY <1>1, <2>2, <3>1, <3>2
  <2> QED BY <1>5, <2>2, <2>3
<1>9. CASE Tick
  <2>1. UNCHANGED <<issued, grants>> /\ now' = now + 1 /\ clock' = clock + 1
    BY <1>9 DEF Tick, issuance, history
  <2>2. issued'[now'] = issued[now]
    BY <1>0, <2>1 DEF RecordInv
  <2>3. clock' - (now' - t) = clock - (now - t)
    BY <1>0, <2>1
  <2>4. Since(t)' = Since(t)
    BY <1>1, <2>1, <2>3 DEF Since
  <2>5. t = now' \/ (now - LeaseMillis <= t /\ t <= now)
    BY <1>0, <2>1
  <2> QED BY <1>3, <1>4, <2>1, <2>2, <2>4, <2>5
<1>10. CASE \E c \in Class, k \in Nat \ {0} : Granted(c, k)
  <2>1. PICK c \in Class, k \in Nat \ {0} : Granted(c, k)
    BY <1>10
  <2>2. /\ UNCHANGED <<now, clock>> /\ grants' = KeptGrants \cup {NewGrant(c, k)}
        /\ StoreGrant(c, k) /\ Grantable(c, k)
    BY <2>1 DEF Granted, StoreGrant, clocks
  <2>3. KeptGrants = {g \in grants : g.at > clock - LeaseMillis}
    BY KeptAreRecent
  <2>4. /\ NewGrant(c, k) \in Row /\ NewGrant(c, k) \notin grants
        /\ NewGrant(c, k).at >= clock /\ NewGrant(c, k).tokens = k
    <3>1. Raised >= clock /\ clock \in Int /\ Raised \in Int
      BY <1>0, RefillBound DEF RecordInv, Instants
    <3>2. NewGrant(c, k).at = Raised /\ NewGrant(c, k).tokens = k
      BY DEF NewGrant
    <3> QED BY <2>2, <3>1, <3>2, GrantIsNew
  <2>5. ASSUME t < now
        PROVE  issued'[now'] - issued'[t] <= Tokens(Since(t)')
    <3>1. Since(t)' = Since(t) \cup {NewGrant(c, k)}
      <4>1. ASSUME NEW g \in grants, g.at > clock - (now - t)
            PROVE  g.at > clock - LeaseMillis
        <5>1. g.at \in Int
          BY RowStamp
        <5> QED BY <1>0, <2>2, <4>1, <5>1
      <4>2. NewGrant(c, k).at > clock - (now - t)
        <5>1. NewGrant(c, k).at \in Int
          BY <2>4 DEF Row, Instants
        <5> QED BY <1>0, <2>4, <2>5, <5>1
      <4> QED BY <1>1, <2>2, <2>3, <4>1, <4>2 DEF Since
    <3>2. Since(t) \in SUBSET grants /\ NewGrant(c, k) \notin Since(t)
      BY <2>4 DEF Since
    <3>3. IsFiniteSet(Since(t)) /\ Tokens(Since(t)) \in Nat
      BY <1>0, <3>2, TokensGrow
    <3>4. Tokens(Since(t)') = Tokens(Since(t)) + k
      BY <2>4, <3>1, <3>2, <3>3, TokensAdd
    <3>5. issued'[now'] = issued[now] + k /\ issued'[t] = issued[t]
      BY <1>0, <2>2, <2>5, GrantCounts
    <3>6. issued[now] - issued[t] <= Tokens(Since(t)) /\ issued[now] \in Nat /\ issued[t] \in Nat
      BY <1>0, <1>4, <2>2, <2>5
    <3> QED BY <3>3, <3>4, <3>5, <3>6
  <2>6. t < now \/ t = now'
    BY <1>0, <2>2
  <2> QED BY <1>3, <2>5, <2>6
<1> QED BY <1>6, <1>7, <1>8, <1>9, <1>10, StepKinds

\* Each step keeps the hard cap: a grant is made only when the window has room
\* for it, and the window holds everything issued in the last second.
LEMMA HardCapStep ==
    ASSUME TypeOK, RecordInv, TypeOK', RecordInv', CoverInv, HardCapKept, [Next]_vars
    PROVE  HardCapKept'
<1> DEFINE start == now - LeaseMillis
<1>0. /\ Instants \subseteq Nat /\ now \in Instants /\ start \in Instants /\ start < now
      /\ now' \in Instants /\ now' - LeaseMillis \in Instants
      /\ \A t \in Instants : issued[t] \in Nat
      /\ issued[now] - issued[start] <= HardCap
      /\ LeaseMillis \in Nat \ {0}
  <2>1. (now \in Instants /\ now - LeaseMillis \in Instants)'
    BY IssuedInstants, PTL
  <2>2. now \in Nat /\ start < now
    BY IssuedSince, LimitAssumption
  <2> QED BY <2>1, <2>2, IssuedSince, LimitAssumption DEF HardCapKept, Instants
<1>1. ASSUME UNCHANGED <<now, issued>>
      PROVE  HardCapKept'
  BY <1>0, <1>1 DEF HardCapKept
<1>2. CASE Tick
  <2>1. UNCHANGED issued /\ now' = now + 1
    BY <1>2 DEF Tick, history
  <2>2. issued'[now'] = issued[now]
    BY <1>0, <2>1 DEF RecordInv
  <2>3. issued[start] <= issued[now' - LeaseMillis]
    <3>1. start <= now' - LeaseMillis
      BY <1>0, <2>1
    <3> QED BY <1>0, <3>1 DEF RecordInv
  <2> QED BY <1>0, <2>1, <2>2, <2>3, LimitAssumption DEF HardCapKept
<1>3. CASE \E c \in Class, k \in Nat \ {0} : Granted(c, k)
  <2>1. PICK c \in Class, k \in Nat \ {0} : Granted(c, k)
    BY <1>3
  <2>2. now' = now /\ StoreGrant(c, k) /\ Windowed + k <= HardCap
    BY <2>1 DEF Granted, Grantable, clocks
  <2>3. Windowed = Tokens(Since(start))
    BY WindowCovers
  <2>4. Tokens(Since(start)) \in Nat
    <3>1. Since(start) \in SUBSET grants /\ IsFiniteSet(grants)
      BY DEF Since, TypeOK
    <3> QED BY <3>1, TokensGrow
  <2>5. issued[now] - issued[start] <= Tokens(Since(start))
    <3>1. now - LeaseMillis <= start /\ start <= now
      BY <1>0
    <3> QED BY <1>0, <3>1 DEF CoverInv
  <2>6. issued'[now] = issued[now] + k /\ issued'[start] = issued[start]
    <3>1. now >= now
      BY <1>0
    <3> QED BY <1>0, <2>2, <3>1, GrantCounts
  <2>7. issued[now] \in Nat /\ issued[start] \in Nat
    BY <1>0
  <2>8. issued'[now] - issued'[start] <= HardCap
    <3> HIDE DEF start
    <3> QED BY <2>2, <2>3, <2>4, <2>5, <2>6, <2>7, LimitAssumption
  <2> QED BY <2>2, <2>8 DEF HardCapKept
<1>4. CASE (\E c \in Class : Left(c)) \/ StepBack \/ Untouched
  BY <1>1, <1>4 DEF Left, StoreAsk, StepBack, Untouched, clocks, history
<1> QED BY <1>2, <1>3, <1>4, StepKinds

\* In every second, as time really passes and however far the database's clock
\* steps back, all workers of all processes are granted at most the hard cap
\* (core.Issue, lease.storeIssuance).
THEOREM HardCapCorrect == Spec => []HardCapKept
<1>1. Init => TypeOK /\ RecordInv /\ CoverInv /\ HardCapKept
  BY InitSound, CoverInit
<1>2. (TypeOK /\ RecordInv /\ CoverInv /\ HardCapKept) /\ [Next]_vars
        => (TypeOK /\ RecordInv /\ CoverInv /\ HardCapKept)'
  BY StepSound, CoverStep, HardCapStep
<1> QED BY <1>1, <1>2, PTL DEF Spec

\* Whatever the workers, the costs, the limits and the steps back of the clock, the
\* record, the bucket and the stored grants keep to what was really issued
\* (core.Issue, lease.storeIssuance).
THEOREM IssuanceCorrect == Spec => []IssuanceInv
<1>1. Init => TypeOK /\ RecordInv /\ PoliteInv /\ CoverInv
  BY InitSound, PoliteInit, CoverInit
<1>2. (TypeOK /\ RecordInv /\ PoliteInv /\ CoverInv) /\ [Next]_vars
        => (TypeOK /\ RecordInv /\ PoliteInv /\ CoverInv)'
  BY StepSound, PoliteStep, CoverStep
<1>3. RecordInv /\ PoliteInv /\ CoverInv => IssuanceInv
  BY DEF IssuanceInv
<1> QED BY <1>1, <1>2, <1>3, PTL DEF Spec

-----------------------------------------------------------------------------
(* The controller keeps the rate between the floor and the target. *)

\* No cut goes below the floor (core.Succeeded, core.Throttled, core.ServerErrored).
LEMMA FloorStep ==
    ASSUME TypeOK, Floor <= rate, [Next]_vars
    PROVE  Floor <= rate'
<1>1. rate \in Nat /\ Floor \in Nat
  BY LimitAssumption DEF TypeOK
<1>2. ASSUME NEW w \in Worker, Succeed(w) PROVE Floor <= rate'
  <2>1. PICK s \in Steps(Bounded(rate), cost[w]), slow \in BOOLEAN :
          LET grown == Lesser(Bounded(rate) + s, Target)
          IN  rate' = IF slow THEN Greater((9 * grown) \div 10, Floor) ELSE grown
    BY <1>2 DEF Succeed
  <2>2. s \in Nat
    BY <2>1, LimitAssumption DEF Steps
  <2>3. Bounded(rate) \in Nat /\ Bounded(rate) >= Floor
    BY <1>1, RateRules
  <2> DEFINE grown == Lesser(Bounded(rate) + s, Target)
  <2>4. grown \in Nat /\ grown >= Floor
    BY <2>2, <2>3, LimitAssumption DEF Lesser
  <2>5. rate' = IF slow THEN Greater((9 * grown) \div 10, Floor) ELSE grown
    BY <2>1
  <2> HIDE DEF grown
  <2>6. Greater((9 * grown) \div 10, Floor) >= Floor
    BY <1>1, <2>4 DEF Greater
  <2> QED BY <2>4, <2>5, <2>6
<1>3. ASSUME NEW w \in Worker, Throttle(w) \/ ServerError(w) PROVE Floor <= rate'
  <2>1. Bounded(rate) \div 2 \in Nat /\ (4 * Bounded(rate)) \div 5 \in Nat
    BY <1>1, RateRules
  <2> QED BY <1>1, <1>3, <2>1 DEF Throttle, ServerError, Greater
<1>4. ASSUME NEW w \in Worker,
             \/ Begin(w) \/ Refuse(w) \/ Wait(w) \/ Grant(w) \/ GrantUnheard(w)
             \/ Abandon(w) \/ EndUntold(w)
      PROVE  UNCHANGED rate
  BY <1>4 DEF Begin, Refuse, Wait, Grant, GrantUnheard, Abandon, EndUntold, controller
<1>5. CASE Tick \/ StepBack \/ UNCHANGED vars
  BY <1>5 DEF Tick, StepBack, vars, controller
<1> QED BY <1>2, <1>3, <1>4, <1>5 DEF Next, WorkerStep

\* However many throttles, server errors, slow windows and successes, of however many
\* processes, the rate stays between the floor and the target (core.Succeeded,
\* core.Throttled, core.ServerErrored).
THEOREM RateCorrect == Spec => [](Floor <= rate /\ rate <= Target)
<1>1. Init => TypeOK /\ RecordInv /\ Floor <= rate
  BY InitSound, LimitAssumption DEF Init
<1>2. (TypeOK /\ RecordInv /\ Floor <= rate) /\ [Next]_vars
        => (TypeOK /\ RecordInv /\ Floor <= rate)'
  BY StepSound, FloorStep
<1>3. RecordInv /\ Floor <= rate => Floor <= rate /\ rate <= Target
  BY DEF RecordInv
<1> QED BY <1>1, <1>2, <1>3, PTL DEF Spec

-----------------------------------------------------------------------------
(* A retry-after is honored until the database's clock steps back. *)

\* While the clock keeps time, the stored backoff ends when the wait does.
TrueTimeInv == clock = now => filled <= now /\ backoff = quiet

\* Every step keeps the stored backoff and the wait together (core.Throttled).
LEMMA TrueTimeStep ==
    ASSUME TypeOK, RecordInv, TrueTimeInv, [Next]_vars
    PROVE  TrueTimeInv'
<1>0. /\ now \in Int /\ clock \in Int /\ clock <= now /\ filled \in Int
      /\ clock = now => filled <= now /\ backoff = quiet
  BY DEF TrueTimeInv, TypeOK, RecordInv, Instants
<1>1. clock = now => Raised = now
  BY <1>0 DEF Raised, Greater
<1>2. ASSUME UNCHANGED <<backoff, quiet, clocks>>, filled' = filled \/ filled' = Raised
      PROVE  TrueTimeInv'
  BY <1>0, <1>1, <1>2 DEF TrueTimeInv, clocks
<1>3. CASE Tick
  BY <1>0, <1>3 DEF Tick, TrueTimeInv, controller, issuance, history
<1>4. CASE StepBack
  <2>1. PICK d \in ClockSteps : clock' = clock - d
    BY <1>4 DEF StepBack
  <2>2. d \in Nat \ {0} /\ now' = now
    BY <1>4, ClockAssumption DEF StepBack
  <2> QED BY <1>0, <2>1, <2>2 DEF TrueTimeInv
<1>5. ASSUME NEW w \in Worker, WorkerStep(w)
      PROVE  TrueTimeInv'
  <2>1. CASE Throttle(w)
    BY <1>0, <2>1 DEF Throttle, TrueTimeInv, clocks, issuance
  <2>2. CASE Wait(w) \/ Grant(w) \/ GrantUnheard(w)
    BY <1>2, <2>2 DEF Wait, Grant, GrantUnheard, StoreAsk, StoreGrant, controller
  <2>3. CASE Begin(w) \/ Refuse(w) \/ Abandon(w) \/ Succeed(w) \/ ServerError(w) \/ EndUntold(w)
    BY <1>2, <2>3 DEF Begin, Refuse, Abandon, Succeed, ServerError, EndUntold,
                      controller, issuance, history
  <2> QED BY <1>5, <2>1, <2>2, <2>3 DEF WorkerStep
<1>6. CASE UNCHANGED vars
  BY <1>2, <1>6 DEF vars, controller, issuance, history
<1> QED BY <1>3, <1>4, <1>5, <1>6 DEF Next

\* As long as the database's clock has not stepped back, nothing is granted before
\* the longest wait a throttle asked for has passed (core.Throttled, core.Issue).
THEOREM RetryAfterCorrect == Spec => RetryAfterKept
<1>1. Init => TypeOK /\ RecordInv /\ TrueTimeInv
  BY InitSound, ClockAssumption DEF Init, TrueTimeInv
<1>2. ASSUME TypeOK, RecordInv, TrueTimeInv, [Next]_vars
      PROVE  [clock = now /\ issued' # issued => now >= quiet]_vars
  <2>0. /\ now \in Int /\ filled \in Int
        /\ clock = now => filled <= now /\ backoff = quiet
    BY <1>2 DEF TrueTimeInv, TypeOK, Instants
  <2>1. clock = now => Raised = now
    BY <2>0 DEF Raised, Greater
  <2>2. CASE \E c \in Class, k \in Nat \ {0} : Granted(c, k)
    BY <2>0, <2>1, <2>2 DEF Granted, Grantable
  <2>3. CASE \/ \E c \in Class : Left(c)
             \/ Tick \/ StepBack \/ Untouched
    BY <2>3 DEF Left, StoreAsk, Tick, StepBack, Untouched, history
  <2> QED BY <1>2, <2>2, <2>3, StepKinds
<1>3. TypeOK /\ RecordInv /\ TrueTimeInv /\ [Next]_vars
        => TypeOK' /\ RecordInv' /\ TrueTimeInv'
  BY TrueTimeStep, StepSound
<1> QED BY <1>1, <1>2, <1>3, PTL DEF Spec, RetryAfterKept

-----------------------------------------------------------------------------
(* The limiter implements the budget of an account.                          *)

\* The limiter starts as the budget does: nothing spent, no wait asked for.
LEMMA BudgetInit == Init => Budget!Init
<1> SUFFICES ASSUME Init PROVE Budget!Init
  OBVIOUS
<1> QED BY DEF Init, Budget!Init, Instants, Budget!Instants

\* The two bounds on issuance are the budget's.
LEMMA BoundsAreBudget == HardCapKept /\ PolitenessKept => Budget!InBudget
BY DEF HardCapKept, PolitenessKept, Capacity, Budget!InBudget, Instants, Budget!Instants

\* A grant spends within the budget, and not before the wait is over while the clock
\* keeps time (core.Issue).
LEMMA GrantSpends ==
    ASSUME TypeOK, RecordInv, TrueTimeInv, (HardCapKept /\ PolitenessKept)',
           NEW c \in Class, NEW k \in Nat \ {0}, Granted(c, k), UNCHANGED quiet
    PROVE  Budget!Spend
<1>1. UNCHANGED clocks /\ Grantable(c, k) /\ StoreGrant(c, k)
  BY DEF Granted
<1>2. now >= quiet \/ clock # now
  <2> SUFFICES ASSUME clock = now PROVE now >= quiet
    OBVIOUS
  <2>1. now \in Int /\ filled \in Int /\ filled <= now /\ backoff = quiet
    BY DEF TrueTimeInv, TypeOK, Instants
  <2>2. Raised = now
    BY <2>1 DEF Raised, Greater
  <2> QED BY <1>1, <2>1, <2>2 DEF Grantable
<1>3. k \in 1..HardCap
  <2>1. k <= HardCap
    BY <1>1, GrantFits
  <2> QED BY <2>1, LimitAssumption
<1>4. issued' = [i \in Budget!Instants |-> IF i >= now THEN issued[i] + k ELSE issued[i]]
  BY <1>1 DEF StoreGrant, Instants, Budget!Instants
<1>5. Budget!InBudget'
  BY BoundsAreBudget, PTL
<1> QED BY <1>1, <1>2, <1>3, <1>4, <1>5 DEF Budget!Spend, clocks

\* A throttle asks for a longer quiet or changes nothing of the budget (core.Throttled).
LEMMA ThrottleAsks ==
    ASSUME TypeOK, NEW w \in Worker, Throttle(w)
    PROVE  Budget!AskForQuiet \/ UNCHANGED Budget!vars
<1>1. UNCHANGED <<now, clock, issued>>
  BY DEF Throttle, clocks
<1>2. PICK wait \in RetryAfters \cup Jitters(throttles) : quiet' = Greater(quiet, now + wait)
  BY DEF Throttle
<1>3. wait \in Nat
  BY BackoffAssumption DEF Jitters
<1>4. now \in Nat /\ quiet \in Nat
  BY DEF TypeOK, Instants
<1>5. CASE quiet >= now + wait
  BY <1>1, <1>2, <1>5 DEF Greater, Budget!vars
<1>6. CASE ~(quiet >= now + wait)
  <2>1. quiet' \in Nat /\ quiet' > quiet /\ quiet' >= now
    BY <1>2, <1>3, <1>4, <1>6 DEF Greater
  <2> QED BY <1>1, <2>1 DEF Budget!AskForQuiet
<1> QED BY <1>5, <1>6

\* Every step of the limiter is one the budget allows.
LEMMA BudgetStep ==
    ASSUME TypeOK, RecordInv, TrueTimeInv, (HardCapKept /\ PolitenessKept)', [Next]_vars
    PROVE  [Budget!Next]_Budget!vars
<1>0. now \in Int /\ clock \in Int /\ clock <= now
  BY DEF TypeOK, RecordInv, Instants
<1>1. CASE Tick
  <2>1. (clock # now)' = (clock # now)
    BY <1>0, <1>1 DEF Tick
  <2> QED BY <1>1, <2>1 DEF Tick, history, Budget!Next, Budget!Pass
<1>2. CASE StepBack
  <2>1. PICK d \in ClockSteps : clock' = clock - d
    BY <1>2 DEF StepBack
  <2>2. d \in Nat \ {0} /\ UNCHANGED <<now, issued, quiet>>
    BY <1>2, ClockAssumption DEF StepBack, history
  <2>3. clock' # now'
    BY <1>0, <2>1, <2>2
  <2> QED BY <2>2, <2>3 DEF Budget!Next, Budget!SetBack
<1>3. ASSUME NEW w \in Worker, Grant(w) \/ GrantUnheard(w)
      PROVE  Budget!Next
  <2>1. ClassOf[w] \in Class /\ cost[w] \in Nat \ {0}
    BY <1>3, ClassAssumption DEF TypeOK, RecordInv, Grant, GrantUnheard
  <2>2. Granted(ClassOf[w], cost[w]) /\ UNCHANGED quiet
    BY <1>3 DEF Grant, GrantUnheard, Granted
  <2> QED BY <2>1, <2>2, GrantSpends DEF Budget!Next
<1>4. ASSUME NEW w \in Worker, Throttle(w)
      PROVE  [Budget!Next]_Budget!vars
  BY <1>4, ThrottleAsks DEF Budget!Next
<1>5. ASSUME NEW w \in Worker,
             \/ Begin(w) \/ Refuse(w) \/ Wait(w) \/ Abandon(w)
             \/ Succeed(w) \/ ServerError(w) \/ EndUntold(w)
      PROVE  UNCHANGED Budget!vars
  BY <1>5 DEF Begin, Refuse, Wait, StoreAsk, Abandon, Succeed, ServerError, EndUntold,
              clocks, issuance, history, Budget!vars
<1>6. CASE UNCHANGED vars
  BY <1>6 DEF vars, clocks, history, Budget!vars
<1> QED BY <1>1, <1>2, <1>3, <1>4, <1>5, <1>6 DEF Next, WorkerStep

\* The row, the grants and the lock keep the budget of the account, whatever the
\* workers, the costs and the limits, the crashes and the steps back of the clock
\* (core.Issue, core.Throttled, lease.storeIssuance).
THEOREM BudgetCorrect == Spec => BudgetKept
<1> DEFINE Inv == /\ TypeOK /\ RecordInv /\ PoliteInv
                  /\ CoverInv /\ HardCapKept /\ TrueTimeInv
<1>1. Init => Inv /\ Budget!Init
  BY InitSound, PoliteInit, CoverInit, BudgetInit, ClockAssumption DEF Init, TrueTimeInv
<1>2. Inv /\ [Next]_vars => Inv'
  BY StepSound, PoliteStep, CoverStep, HardCapStep, TrueTimeStep
<1>3. Inv => HardCapKept /\ PolitenessKept
  BY PoliteIsPolite
<1>4. Inv /\ [Next]_vars /\ (HardCapKept /\ PolitenessKept)' => [Budget!Next]_Budget!vars
  BY BudgetStep
<1> HIDE DEF Inv
<1> QED BY <1>1, <1>2, <1>3, <1>4, PTL DEF Spec, BudgetKept, Budget!Spec

-----------------------------------------------------------------------------
(* The timed limiter: its steps are the limiter's.                          *)

\* A timer only holds a worker's ask back: every step of the timed limiter is one the
\* limiter takes, and its clock is never set back (lease.waitFor).
LEMMA TimedStep ==
    [TimedNext]_timedVars => [Next]_vars /\ (Tick \/ UNCHANGED clocks)
<1>1. ASSUME NEW w \in Worker, TimedBegin(w) \/ TimedWait(w) \/ TimedGrant(w)
                                 \/ TimedLeave(w) \/ CallEnds(w)
      PROVE  WorkerStep(w) /\ UNCHANGED clocks
  BY <1>1 DEF TimedBegin, TimedWait, TimedGrant, TimedLeave, CallEnds, WorkerStep,
              Begin, Refuse, Wait, Grant, GrantUnheard, Abandon,
              Succeed, Throttle, ServerError, EndUntold
<1>2. CASE TimedTick
  BY <1>2 DEF TimedTick, Next
<1>3. CASE UNCHANGED timedVars
  BY <1>3 DEF timedVars, vars
<1> QED BY <1>1, <1>2, <1>3 DEF TimedNext, Next

\* The timed limiter implements the limiter, so all that is proved of the limiter holds
\* of it (lease.Acquire).
THEOREM TimedImplements == TimedSpec => Spec
<1>1. TimedInit => Init
  BY DEF TimedInit
<1> QED BY <1>1, TimedStep, PTL DEF TimedSpec, Spec

TimedTypeOK ==
    /\ askAt \in [Worker -> Nat]
    /\ since \in [Worker -> Nat]
    /\ left \in [Worker -> Nat]

\* The clock is time itself, which no instant the account keeps is after.
TimeInv ==
    /\ clock = now
    /\ filled <= now /\ \A c \in Class : asked[c] <= now
    /\ backoff <= quiet
    /\ Floor <= rate

\* What the rules read when the clock keeps time.
LEMMA TimeIsRead ==
    ASSUME TypeOK, RecordInv, TimeInv
    PROVE  /\ Raised = now /\ RefillRate = rate
           /\ now \in Nat /\ filled \in Nat /\ backoff \in Nat /\ quiet \in Nat
           /\ LeaseMillis \in Nat \ {0} /\ LeaseMillis <= now
           /\ rate \in Nat /\ Floor \in Nat \ {0} /\ Floor <= rate /\ rate <= Target
           /\ HardCap \in Nat /\ Target \in Nat
           /\ level \in Nat /\ level <= Capacity
           /\ asked \in [Class -> Nat]
<1>1. Instants \subseteq Nat
  BY DEF Instants
<1>2. now \in Nat /\ filled \in Nat /\ asked \in [Class -> Nat]
  BY <1>1 DEF TypeOK
<1>3. Raised = now
  BY <1>2 DEF Raised, Greater, TimeInv
<1>4. RefillRate = rate
  BY LimitAssumption DEF RefillRate, Lesser, TypeOK, RecordInv
<1>5. LeaseMillis <= now
  BY <1>2, LimitAssumption, ClockAssumption DEF RecordInv
<1> QED BY <1>2, <1>3, <1>4, <1>5, LimitAssumption DEF TypeOK, RecordInv, TimeInv

\* An ask reaches the instant it is made at, and a grant takes what it costs.
LEMMA TimeStep ==
    ASSUME TypeOK, RecordInv, TimeInv, [Next]_vars, Tick \/ UNCHANGED clocks
    PROVE  TimeInv'
<1>1. /\ Raised = now /\ now \in Nat /\ filled \in Nat /\ rate \in Nat /\ Floor \in Nat
      /\ asked \in [Class -> Nat] /\ backoff \in Nat /\ quiet \in Nat
  BY TimeIsRead
<1>2. CASE Tick
  BY <1>1, <1>2 DEF Tick, TimeInv, controller, issuance, history
<1>3. CASE UNCHANGED vars
  BY <1>3 DEF vars, clocks, controller, issuance, history, TimeInv
<1>4. ASSUME UNCHANGED clocks, NEW w \in Worker, WorkerStep(w)
      PROVE  TimeInv'
  <2>0. Floor <= rate'
    BY FloorStep DEF TimeInv
  <2>1. clock' = clock /\ now' = now
    BY <1>4 DEF clocks
  <2>2. CASE Wait(w) \/ Grant(w) \/ GrantUnheard(w)
    <3>1. /\ filled' = Raised /\ asked' = [asked EXCEPT ![ClassOf[w]] = Raised]
          /\ UNCHANGED <<controller, quiet>>
      BY <2>2 DEF Wait, Grant, GrantUnheard, StoreAsk, StoreGrant
    <3> QED BY <1>1, <2>1, <3>1 DEF TimeInv, controller
  <2>3. CASE Begin(w) \/ Refuse(w) \/ Abandon(w) \/ EndUntold(w)
    BY <2>1, <2>3 DEF Begin, Refuse, Abandon, EndUntold, TimeInv, controller, issuance, history
  <2>4. CASE Succeed(w)
    BY <2>0, <2>1, <2>4 DEF Succeed, TimeInv, issuance, history
  <2>5. CASE ServerError(w)
    BY <2>0, <2>1, <2>5 DEF ServerError, TimeInv, issuance, history
  <2>6. CASE Throttle(w)
    <3>1. PICK wait \in RetryAfters \cup Jitters(throttles) :
            /\ backoff' = Greater(backoff, clock + wait)
            /\ quiet' = Greater(quiet, now + wait)
      BY <2>6 DEF Throttle
    <3>2. wait \in Nat
      BY BackoffAssumption DEF Jitters
    <3>3. backoff' <= quiet'
      BY <1>1, <3>1, <3>2 DEF TimeInv, Greater
    <3> QED BY <2>1, <2>6, <2>0, <3>3 DEF Throttle, TimeInv, issuance
  <2> QED BY <1>4, <2>2, <2>3, <2>4, <2>5, <2>6 DEF WorkerStep
<1>5. CASE StepBack
  <2>1. PICK d \in ClockSteps : clock' = clock - d
    BY <1>5 DEF StepBack
  <2>2. d \in Nat \ {0} /\ clock \in Nat
    BY ClockAssumption DEF TypeOK, Instants
  <2>3. now' = now
    BY <1>5 DEF StepBack
  <2> QED BY <2>1, <2>2, <2>3, <1>1, <1>2 DEF clocks
<1> QED BY <1>2, <1>3, <1>4, <1>5, <1>1 DEF Next, Tick

\* A waiting worker sleeps between the two waits, and the shortest when the bucket holds
\* what it asks for (lease.waitFor).
LEMMA WaitForBounds ==
    ASSUME TypeOK, RecordInv, TimeInv, NEW k \in Nat, NEW held \in Nat
    PROVE  /\ ShortestWait \in Nat \ {0} /\ LongestWait \in Nat
           /\ ShortestWait <= LongestWait /\ LongestWait < LeaseMillis
           /\ WaitFor(k, held) \in Nat
           /\ ShortestWait <= WaitFor(k, held) /\ WaitFor(k, held) <= LongestWait
           /\ backoff <= now /\ LeaseMillis * k <= held => WaitFor(k, held) = ShortestWait
<1> DEFINE pause ==
      IF backoff > clock THEN Lesser(backoff - clock, LeaseMillis)
      ELSE IF RefillRate > 0 /\ LeaseMillis * k > held
           THEN Lesser(CeilDiv(LeaseMillis * k - held, RefillRate), LeaseMillis)
           ELSE ShortestWait
<1>1. /\ clock = now /\ now \in Nat /\ backoff \in Nat /\ LeaseMillis \in Nat
      /\ RefillRate \in Nat /\ RefillRate > 0
  BY TimeIsRead DEF TimeInv
<1>2. LeaseMillis * k \in Nat
  BY <1>1
<1>3. ASSUME LeaseMillis * k > held
      PROVE  CeilDiv(LeaseMillis * k - held, RefillRate) \in Nat
  <2>1. \A n \in Nat, b \in Nat \ {0} : n \div b \in Nat
    OBVIOUS
  <2>2. LeaseMillis * k - held + RefillRate - 1 \in Nat
    BY <1>1, <1>2, <1>3
  <2> QED BY <1>1, <2>1, <2>2 DEF CeilDiv
<1>4. pause \in Int
  BY <1>1, <1>3, WaitAssumption DEF Lesser
<1>5. backoff <= now /\ LeaseMillis * k <= held => pause = ShortestWait
  BY <1>1, <1>2
<1>6. WaitFor(k, held) = Lesser(Greater(pause, ShortestWait), LongestWait)
  BY DEF WaitFor
<1> HIDE DEF pause
<1> QED BY <1>4, <1>5, <1>6, WaitAssumption DEF Lesser, Greater

\* A call that ends leaves the account's issuance and every timer as they are.
LEMMA EndsQuietly ==
    ASSUME TypeOK, NEW o \in Worker, CallEnds(o)
    PROVE  /\ UNCHANGED <<clocks, issuance, issued, askAt, since, left>>
           /\ quiet' >= quiet
           /\ phase[o] = "calling" /\ End(o)
<1>1. CASE Throttle(o)
  <2>1. PICK wait \in RetryAfters \cup Jitters(throttles) : quiet' = Greater(quiet, now + wait)
    BY <1>1 DEF Throttle
  <2>2. wait \in Nat /\ quiet \in Nat /\ now \in Nat
    BY BackoffAssumption DEF Jitters, TypeOK, Instants
  <2> QED BY <1>1, <2>1, <2>2 DEF Throttle, CallEnds, Greater
<1>2. CASE Succeed(o) \/ ServerError(o) \/ EndUntold(o)
  BY <1>2 DEF Succeed, ServerError, EndUntold, CallEnds, history, TypeOK
<1> QED BY <1>1, <1>2 DEF CallEnds

\* A step changes a worker's timer and the instant it began to wait only when that worker
\* begins, asks or stops.
LEMMA TimedTypeStep ==
    ASSUME TypeOK, RecordInv, TimeInv, TimedTypeOK, TypeOK', [TimedNext]_timedVars
    PROVE  TimedTypeOK'
<1>1. now \in Nat
  BY TimeIsRead
<1>2. ASSUME NEW w \in Worker, TimedWait(w)
      PROVE  TimedTypeOK'
  <2>1. level' \in Nat /\ cost[w] \in Nat
    BY DEF TypeOK
  <2>2. \A held \in Nat : WaitFor(cost[w], held) \in Nat
    BY <2>1, WaitForBounds
  <2>3. now + WaitFor(cost[w], level') \in Nat
    BY <1>1, <2>1, <2>2
  <2> QED BY <1>2, <2>3 DEF TimedWait, TimedTypeOK
<1> QED BY <1>1, <1>2 DEF TimedNext, TimedTick, TimedBegin, TimedGrant, TimedLeave, Settled,
                           CallEnds, TimedTypeOK, timedVars

\* Nothing the account keeps, and no instant a worker stopped waiting, goes back; and
\* what changes is set to the present.
LEMMA StepGrows ==
    ASSUME TypeOK, RecordInv, TimeInv, TimedTypeOK, [TimedNext]_timedVars
    PROVE  /\ now' \in Nat /\ now <= now'
           /\ quiet' >= quiet
           /\ \A c \in Class : asked'[c] = asked[c] \/ asked'[c] = now
           /\ \A o \in Worker : left'[o] = left[o] \/ left'[o] = now
           /\ \A o \in Worker : phase[o] = "waiting" /\ phase'[o] # "waiting" => left'[o] = now
<1>1. now \in Nat /\ Raised = now /\ asked \in [Class -> Nat] /\ quiet \in Nat
  BY TimeIsRead
<1>2. phase \in [Worker -> Phases] /\ left \in [Worker -> Nat]
  BY DEF TypeOK, TimedTypeOK
<1>3. CASE TimedTick
  BY <1>1, <1>2, <1>3 DEF TimedTick, Tick, workers, history, issuance
<1>4. CASE UNCHANGED timedVars
  BY <1>1, <1>2, <1>4 DEF timedVars, vars, clocks, workers, history, issuance
<1>5. ASSUME NEW w \in Worker, TimedBegin(w)
      PROVE  /\ UNCHANGED <<now, quiet, asked, left>>
             /\ \A o \in Worker : phase[o] = "waiting" => phase'[o] = "waiting"
  BY <1>2, <1>5 DEF TimedBegin, Begin, Enter, clocks, history, issuance
<1>6. ASSUME NEW w \in Worker, TimedWait(w)
      PROVE  /\ UNCHANGED <<now, quiet, left, phase>>
             /\ asked' = [asked EXCEPT ![ClassOf[w]] = now]
  BY <1>1, <1>6 DEF TimedWait, Wait, StoreAsk, clocks, workers
<1>7. ASSUME NEW w \in Worker, TimedGrant(w) \/ TimedLeave(w)
      PROVE  /\ UNCHANGED <<now, quiet>> /\ left' = [left EXCEPT ![w] = now]
             /\ asked' = asked \/ asked' = [asked EXCEPT ![ClassOf[w]] = now]
             /\ \A o \in Worker : o # w /\ phase[o] = "waiting" => phase'[o] = "waiting"
  BY <1>1, <1>2, <1>7 DEF TimedGrant, TimedLeave, Settled, Grant, GrantUnheard, Refuse, Abandon,
                          StoreGrant, End, Enter, clocks, history, issuance
<1>8. ASSUME NEW w \in Worker, CallEnds(w)
      PROVE  /\ UNCHANGED <<now, asked, left>> /\ quiet' >= quiet
             /\ \A o \in Worker : phase[o] = "waiting" => phase'[o] = "waiting"
  BY <1>2, <1>8, EndsQuietly DEF End, Enter, clocks, issuance
<1> QED BY <1>1, <1>2, <1>3, <1>4, <1>5, <1>6, <1>7, <1>8 DEF TimedNext

\* What a worker that waits after a step sees of it: it began to wait, it asked, or it
\* waits on while time moves or another worker acts.
Stays(w) == phase[w] = "waiting" /\ UNCHANGED <<phase[w], cost[w], askAt[w], since[w]>>
OtherActs(w) ==
    \E o \in Worker \ {w} :
        TimedBegin(o) \/ TimedWait(o) \/ TimedGrant(o) \/ TimedLeave(o) \/ CallEnds(o)

LEMMA WaiterSees ==
    ASSUME TypeOK, TimedTypeOK, [TimedNext]_timedVars, NEW w \in Worker, phase'[w] = "waiting"
    PROVE  \/ TimedBegin(w) /\ since'[w] = now /\ askAt'[w] = now
           \/ TimedWait(w) /\ phase[w] = "waiting" /\ UNCHANGED <<cost[w], since[w]>>
           \/ Stays(w) /\ (TimedTick \/ UNCHANGED timedVars \/ OtherActs(w))
<1>1. /\ phase \in [Worker -> Phases] /\ cost \in [Worker -> Nat]
      /\ askAt \in [Worker -> Nat] /\ since \in [Worker -> Nat]
  BY DEF TypeOK, TimedTypeOK
<1>2. CASE TimedTick
  BY <1>2 DEF TimedTick, Tick, workers, Stays
<1>3. CASE UNCHANGED timedVars
  BY <1>3 DEF timedVars, vars, workers, Stays
<1>4. CASE TimedBegin(w)
  BY <1>1, <1>4 DEF TimedBegin
<1>5. CASE TimedWait(w)
  BY <1>5 DEF TimedWait, Wait, workers
<1>6. CASE TimedGrant(w) \/ TimedLeave(w) \/ CallEnds(w)
  <2>1. phase'[w] # "waiting"
    BY <1>1, <1>6, EndsQuietly
       DEF TimedGrant, TimedLeave, Grant, GrantUnheard, Refuse, Abandon, End, Enter
  <2> QED BY <2>1
<1>7. ASSUME NEW o \in Worker, o # w,
             TimedBegin(o) \/ TimedWait(o) \/ TimedGrant(o) \/ TimedLeave(o) \/ CallEnds(o)
      PROVE  Stays(w)
  <2>1. CASE TimedBegin(o)
    BY <1>1, <1>7, <2>1 DEF TimedBegin, Begin, Enter, Stays
  <2>2. CASE TimedWait(o)
    BY <1>1, <1>7, <2>2 DEF TimedWait, Wait, workers, Stays
  <2>3. CASE TimedGrant(o) \/ TimedLeave(o)
    BY <1>1, <1>7, <2>3 DEF TimedGrant, TimedLeave, Settled, Grant, GrantUnheard, Refuse, Abandon,
                            End, Enter, Stays
  <2>4. CASE CallEnds(o)
    BY <1>1, <1>7, <2>4, EndsQuietly DEF End, Enter, Stays
  <2> QED BY <1>7, <2>1, <2>2, <2>3, <2>4
<1> QED BY <1>2, <1>3, <1>4, <1>5, <1>6, <1>7 DEF TimedNext, OtherActs

\* A waiting worker's timer has not passed, is set LongestWait ahead at most, and was set
\* at its class's last ask or before; a worker that will be refused has not asked.
PaceInv ==
    \A w \in Worker :
        /\ left[w] <= now
        /\ phase[w] = "waiting" =>
              /\ left[w] <= since[w] /\ since[w] <= now /\ now <= askAt[w]
              /\ \/ askAt[w] = since[w]
                 \/ cost[w] <= HardCap /\ askAt[w] <= asked[ClassOf[w]] + LongestWait

\* An ask made sets the timer anew from the present (lease.Acquire).
LEMMA AskSetsTimer ==
    ASSUME TypeOK, RecordInv, TimeInv, TimedTypeOK, TypeOK', NEW w \in Worker, TimedWait(w)
    PROVE  /\ now <= now' /\ now' = now
           /\ cost[w] \in Nat \ {0} /\ cost[w] <= HardCap
           /\ askAt'[w] \in Nat /\ now < askAt'[w] /\ askAt'[w] <= now + LongestWait
           /\ backoff <= now /\ LeaseMillis * cost[w] <= Refilled => askAt'[w] = now + ShortestWait
           /\ asked'[ClassOf[w]] = now
           /\ left' = left /\ since' = since
           /\ level' = Refilled /\ filled' = now
<1>1. /\ now \in Nat /\ Raised = now /\ asked \in [Class -> Nat] /\ HardCap \in Nat
      /\ ClassOf[w] \in Class
  BY TimeIsRead, ClassAssumption
<1>2. cost[w] \in Nat \ {0} /\ cost[w] <= HardCap
  BY <1>1 DEF TimedWait, Wait, Refusable, TypeOK, RecordInv
<1>3. level' = Refilled /\ level' \in Nat
  BY DEF TimedWait, Wait, StoreAsk, TypeOK
<1>4. \A held \in Nat :
        /\ WaitFor(cost[w], held) \in Nat /\ LongestWait \in Nat /\ ShortestWait \in Nat \ {0}
        /\ ShortestWait <= WaitFor(cost[w], held) /\ WaitFor(cost[w], held) <= LongestWait
        /\ backoff <= now /\ LeaseMillis * cost[w] <= held => WaitFor(cost[w], held) = ShortestWait
  BY <1>2, WaitForBounds
<1>5. askAt'[w] = now + WaitFor(cost[w], level')
  BY DEF TimedWait, TimedTypeOK
<1>6. asked'[ClassOf[w]] = now /\ now' = now /\ left' = left /\ since' = since /\ filled' = now
  BY <1>1 DEF TimedWait, Wait, StoreAsk, clocks
<1> QED BY <1>1, <1>2, <1>3, <1>4, <1>5, <1>6

\* A timer that is due fires before time moves on.
LEMMA PaceStep ==
    ASSUME TypeOK, RecordInv, TimeInv, TimedTypeOK, TypeOK', TimedTypeOK', PaceInv,
           [TimedNext]_timedVars
    PROVE  PaceInv'
<1> SUFFICES ASSUME NEW w \in Worker
             PROVE  /\ left'[w] <= now'
                    /\ phase'[w] = "waiting" =>
                          /\ left'[w] <= since'[w] /\ since'[w] <= now' /\ now' <= askAt'[w]
                          /\ \/ askAt'[w] = since'[w]
                             \/ /\ cost'[w] <= HardCap
                                /\ askAt'[w] <= asked'[ClassOf[w]] + LongestWait
  BY DEF PaceInv
<1>1. /\ now \in Nat /\ now' \in Nat /\ now <= now'
      /\ left[w] \in Nat /\ left'[w] \in Nat /\ since[w] \in Nat /\ askAt[w] \in Nat
      /\ since'[w] \in Nat /\ askAt'[w] \in Nat
      /\ left'[w] = left[w] \/ left'[w] = now
      /\ ClassOf[w] \in Class /\ LongestWait \in Nat
  <2>1. /\ left[w] \in Nat /\ since[w] \in Nat /\ askAt[w] \in Nat
        /\ left'[w] \in Nat /\ since'[w] \in Nat /\ askAt'[w] \in Nat
    BY DEF TimedTypeOK
  <2>2. ClassOf[w] \in Class /\ LongestWait \in Nat
    BY ClassAssumption, WaitAssumption
  <2> QED BY <2>1, <2>2, StepGrows, TimeIsRead
<1>2. left'[w] <= now'
  BY <1>1 DEF PaceInv
<1>3. /\ asked[ClassOf[w]] \in Nat /\ asked[ClassOf[w]] <= now
      /\ asked'[ClassOf[w]] = asked[ClassOf[w]] \/ asked'[ClassOf[w]] = now
  BY <1>1, TimeIsRead, StepGrows DEF TimeInv
<1>4. CASE TimedBegin(w) /\ since'[w] = now /\ askAt'[w] = now
  <2>1. now' = now
    BY <1>4 DEF TimedBegin, Begin, clocks
  <2> QED BY <1>1, <1>2, <1>4, <2>1
<1>5. CASE TimedWait(w) /\ phase[w] = "waiting" /\ UNCHANGED <<cost[w], since[w]>>
  BY <1>1, <1>5, AskSetsTimer DEF PaceInv
<1>6. CASE Stays(w) /\ (TimedTick \/ UNCHANGED timedVars \/ OtherActs(w))
  <2>1. now' <= askAt[w]
    <3>1. CASE TimedTick
      BY <1>1, <1>6, <3>1 DEF TimedTick, Tick, Stays
    <3>2. CASE ~TimedTick
      <4>1. now' = now
        <5>1. CASE UNCHANGED timedVars
          BY <5>1 DEF timedVars, vars, clocks
        <5>2. ASSUME NEW o \in Worker, CallEnds(o) PROVE now' = now
          BY <5>2, EndsQuietly DEF clocks
        <5> QED BY <1>6, <3>2, <5>1, <5>2
                DEF OtherActs, TimedBegin, Begin, TimedWait, Wait, TimedGrant, Grant, GrantUnheard,
                    Refuse, TimedLeave, Abandon, clocks
      <4> QED BY <1>6, <4>1 DEF PaceInv, Stays
    <3> QED BY <3>1, <3>2
  <2>2. left'[w] = left[w]
    <3>1. ASSUME NEW o \in Worker \ {w}, CallEnds(o) PROVE left'[w] = left[w]
      BY <3>1, EndsQuietly
    <3>2. left \in [Worker -> Nat]
      BY DEF TimedTypeOK
    <3> QED BY <1>6, <3>1, <3>2 DEF OtherActs, TimedBegin, TimedWait, TimedGrant, TimedLeave,
                               Settled, TimedTick, timedVars
  <2>3. /\ left[w] <= since[w] /\ since[w] <= now
        /\ \/ askAt[w] = since[w]
           \/ cost[w] <= HardCap /\ askAt[w] <= asked[ClassOf[w]] + LongestWait
    BY <1>6 DEF PaceInv, Stays
  <2>4. UNCHANGED <<cost[w], askAt[w], since[w]>>
    BY <1>6 DEF Stays
  <2> QED BY <1>1, <1>2, <1>3, <2>1, <2>2, <2>3, <2>4
<1> QED BY <1>2, <1>4, <1>5, <1>6, WaiterSees

\* Whoever asked last in a class waits still or has left since, and whoever was given a
\* stored grant has left since.
AskerInv ==
    \A c \in Class : asked[c] = 0 \/
        \E o \in Worker : ClassOf[o] = c /\ (phase[o] = "waiting" \/ asked[c] <= left[o])
HolderInv ==
    \A g \in grants : \E o \in Worker : ClassOf[o] = g.class /\ g.at <= left[o]

\* An ask is a waiting worker's, and one that is granted ends the wait.
LEMMA AskerStep ==
    ASSUME TypeOK, RecordInv, TimeInv, TimedTypeOK, AskerInv, [TimedNext]_timedVars
    PROVE  AskerInv'
<1> SUFFICES ASSUME NEW c \in Class, asked'[c] # 0
             PROVE  \E o \in Worker :
                       ClassOf[o] = c /\ (phase'[o] = "waiting" \/ asked'[c] <= left'[o])
  BY DEF AskerInv
<1>1. /\ now \in Nat /\ asked \in [Class -> Nat] /\ left \in [Worker -> Nat]
      /\ \A d \in Class : asked[d] <= now
      /\ Raised = now
  BY TimeIsRead DEF TimedTypeOK, TimeInv
<1>2. CASE asked'[c] = asked[c]
  <2>1. PICK o \in Worker : ClassOf[o] = c /\ (phase[o] = "waiting" \/ asked[c] <= left[o])
    BY <1>2 DEF AskerInv
  <2>2. /\ left'[o] = left[o] \/ left'[o] = now
        /\ phase[o] = "waiting" /\ phase'[o] # "waiting" => left'[o] = now
    BY StepGrows
  <2>3. asked[c] \in Nat /\ asked[c] <= now /\ left[o] \in Nat
    BY <1>1
  <2> QED BY <1>1, <1>2, <2>1, <2>2, <2>3
<1>3. CASE asked'[c] # asked[c]
  <2>1. PICK w \in Worker : TimedWait(w) \/ TimedGrant(w)
    <3>1. ASSUME NEW o \in Worker, CallEnds(o) PROVE asked' = asked
      BY <3>1, EndsQuietly DEF issuance
    <3> QED BY <1>3, <3>1 DEF TimedNext, TimedTick, Tick, TimedBegin, Begin, TimedLeave, Abandon,
                              timedVars, vars, issuance
  <2>2. asked' = [asked EXCEPT ![ClassOf[w]] = now]
    BY <1>1, <1>3, <2>1 DEF TimedWait, Wait, StoreAsk, TimedGrant, Grant, GrantUnheard, StoreGrant,
                            Refuse, issuance
  <2>3. ClassOf[w] = c /\ asked'[c] = now
    BY <1>1, <1>3, <2>2
  <2>4. phase'[w] = "waiting" \/ left'[w] = now
    BY <1>1, <2>1 DEF TimedWait, Wait, workers, TimedGrant, Settled
  <2> QED BY <1>1, <2>3, <2>4
<1> QED BY <1>2, <1>3

\* A grant ends its worker's wait at the instant it is stamped with.
LEMMA HolderStep ==
    ASSUME TypeOK, RecordInv, TimeInv, TimedTypeOK, PaceInv, HolderInv, [TimedNext]_timedVars
    PROVE  HolderInv'
<1> SUFFICES ASSUME NEW g \in grants'
             PROVE  \E o \in Worker : ClassOf[o] = g.class /\ g.at <= left'[o]
  BY DEF HolderInv
<1>1. now \in Nat /\ Raised = now /\ left \in [Worker -> Nat]
  BY TimeIsRead DEF TimedTypeOK
<1>2. CASE g \in grants
  <2>1. PICK o \in Worker : ClassOf[o] = g.class /\ g.at <= left[o]
    BY <1>2 DEF HolderInv
  <2>2. g.at \in Nat
    BY <1>2, RowStamp
  <2>3. left[o] \in Nat /\ left[o] <= now /\ (left'[o] = left[o] \/ left'[o] = now)
    BY <1>1, StepGrows DEF PaceInv
  <2> QED BY <1>1, <2>1, <2>2, <2>3
<1>3. CASE g \notin grants
  <2>1. KeptGrants \subseteq grants
    BY KeptAreRecent
  <2>2. PICK w \in Worker : TimedGrant(w) /\ g = NewGrant(ClassOf[w], cost[w])
    <3>1. ASSUME NEW o \in Worker, CallEnds(o) PROVE grants' = grants
      BY <3>1, EndsQuietly DEF issuance
    <3>2. ASSUME NEW o \in Worker, TimedWait(o) PROVE grants' = KeptGrants
      BY <3>2 DEF TimedWait, Wait, StoreAsk
    <3>3. ASSUME NEW o \in Worker, TimedGrant(o)
          PROVE  grants' = grants \/ grants' = KeptGrants \cup {NewGrant(ClassOf[o], cost[o])}
      BY <3>3 DEF TimedGrant, Grant, GrantUnheard, Refuse, StoreGrant, issuance
    <3>4. grants' = grants
          \/ \E o \in Worker : TimedWait(o) \/ TimedGrant(o)
      BY <3>1 DEF TimedNext, TimedTick, Tick, TimedBegin, Begin, TimedLeave, Abandon,
                  timedVars, vars, issuance
    <3> QED BY <1>3, <2>1, <3>2, <3>3, <3>4
  <2>3. g.class = ClassOf[w] /\ g.at = now
    BY <1>1, <2>2 DEF NewGrant
  <2>4. left'[w] = now
    BY <1>1, <2>2 DEF TimedGrant, Settled
  <2> QED BY <1>1, <2>3, <2>4
<1> QED BY <1>2, <1>3

\* The stored grants are no more than what was issued.
StoredInv ==
    \A t \in Instants : t <= now => Tokens({g \in grants : g.at > t}) <= issued[now] - issued[t]

\* A row is written for what is issued and never twice.
LEMMA StoredStep ==
    ASSUME TypeOK, RecordInv, TimeInv, TypeOK', RecordInv', TimeInv', StoredInv, [Next]_vars
    PROVE  StoredInv'
<1> SUFFICES ASSUME NEW t \in Instants, t <= now'
             PROVE  Tokens({g \in grants' : g.at > t}) <= issued'[now'] - issued'[t]
  BY DEF StoredInv, Tokens, TokensOf
<1> DEFINE before == {g \in grants : g.at > t}
           after == {g \in grants' : g.at > t}
<1>1. /\ now \in Nat /\ t \in Nat /\ now \in Instants /\ now' \in Instants /\ now' \in Nat
      /\ \A u \in Instants : issued[u] \in Nat /\ issued'[u] \in Nat
      /\ IsFiniteSet(grants) /\ Raised = now
  <2>1. /\ now \in Instants /\ now' \in Instants /\ IsFiniteSet(grants)
        /\ issued \in [Instants -> Nat] /\ issued' \in [Instants -> Nat]
    BY DEF TypeOK
  <2>2. Instants \subseteq Nat
    BY DEF Instants
  <2> QED BY <2>1, <2>2, TimeIsRead
<1>2. /\ IsFiniteSet(before)
      /\ \A some \in SUBSET before : Tokens(some) \in Nat /\ Tokens(some) <= Tokens(before)
  <2>1. before \in SUBSET grants
    OBVIOUS
  <2> HIDE DEF before
  <2> QED BY <1>1, <2>1, TokensGrow
<1>3. ASSUME after = {}
      PROVE  Tokens(after) <= issued'[now'] - issued'[t]
  <2>1. Tokens({}) = 0
    BY FS_EmptySet DEF Tokens, TokensOf
  <2>2. issued'[t] <= issued'[now']
    BY <1>1 DEF RecordInv
  <2> QED BY <1>1, <1>3, <2>1, <2>2
<1>4. ASSUME UNCHANGED <<now, issued>>, after \subseteq before
      PROVE  Tokens(after) <= issued'[now'] - issued'[t]
  <2>1. Tokens(before) <= issued[now] - issued[t]
    BY <1>4 DEF StoredInv
  <2>2. Tokens(before) \in Nat /\ Tokens(after) \in Nat /\ Tokens(after) <= Tokens(before)
    BY <1>2, <1>4
  <2> QED BY <1>1, <1>4, <2>1, <2>2
<1>5. KeptGrants \subseteq grants
  BY KeptAreRecent
<1>6. CASE \E c \in Class : Left(c)
  <2>1. UNCHANGED <<now, issued>> /\ grants' = KeptGrants
    BY <1>6 DEF Left, StoreAsk, clocks
  <2> QED BY <1>4, <1>5, <2>1
<1>7. CASE StepBack \/ Untouched
  BY <1>4, <1>7 DEF StepBack, Untouched, clocks, issuance, history
<1>8. CASE Tick
  <2>1. UNCHANGED <<issued, grants>> /\ now' = now + 1
    BY <1>8 DEF Tick, issuance, history
  <2>2. CASE t = now'
    <3>1. after = {}
      <4>1. ASSUME NEW g \in grants PROVE ~(g.at > t)
        BY <1>1, <2>1, <2>2, RowStamp, KeptAreRecent
      <4> QED BY <2>1, <4>1
    <3> QED BY <1>3, <3>1
  <2>3. CASE t <= now
    <3>1. issued'[now'] = issued[now]
      BY <1>1, <2>1 DEF RecordInv
    <3> QED BY <2>1, <2>3, <3>1 DEF StoredInv
  <2> QED BY <1>1, <2>1, <2>2, <2>3
<1>9. CASE \E c \in Class, k \in Nat \ {0} : Granted(c, k)
  <2>1. PICK c \in Class, k \in Nat \ {0} : Granted(c, k)
    BY <1>9
  <2> DEFINE new == NewGrant(c, k)
  <2>2. now' = now /\ grants' = KeptGrants \cup {new} /\ StoreGrant(c, k)
    BY <2>1 DEF Granted, StoreGrant, clocks
  <2>3. new \in Row /\ new \notin grants /\ new.at = now /\ new.tokens = k
    BY <1>1, <2>1, GrantIsNew DEF Granted, NewGrant
  <2> HIDE DEF new
  <2>4. CASE t = now
    <3>1. after = {}
      <4>1. ASSUME NEW g \in grants PROVE ~(g.at > t)
        BY <1>1, <2>4, RowStamp, KeptAreRecent
      <4> QED BY <1>1, <1>5, <2>2, <2>3, <2>4, <4>1
    <3> QED BY <1>3, <3>1
  <2>5. CASE t < now
    <3> DEFINE kept == {g \in KeptGrants : g.at > t}
    <3>1. after = kept \cup {new} /\ new \notin kept /\ kept \in SUBSET before
      BY <1>1, <1>5, <2>2, <2>3, <2>5
    <3>2. IsFiniteSet(kept) /\ Tokens(kept) \in Nat /\ Tokens(kept) <= Tokens(before)
      BY <1>2, <3>1, FS_Subset
    <3>3. Tokens(after) = Tokens(kept) + k
      <4> HIDE DEF kept, after
      <4> QED BY <2>3, <3>1, <3>2, TokensAdd
    <3>4. issued'[now'] = issued[now] + k /\ issued'[t] = issued[t]
      BY <1>1, <2>2, <2>5, GrantCounts
    <3>5. Tokens(before) <= issued[now] - issued[t] /\ Tokens(before) \in Nat
      <4>1. t <= now
        BY <1>1, <2>5
      <4> QED BY <1>2, <4>1 DEF StoredInv
    <3>6. Tokens(after) <= issued'[now'] - issued'[t]
      <4> HIDE DEF kept, before, after
      <4> QED BY <1>1, <3>2, <3>3, <3>4, <3>5
    <3> QED BY <3>6
  <2> QED BY <1>1, <2>2, <2>4, <2>5
<1> QED BY <1>6, <1>7, <1>8, <1>9, StepKinds

\* A bucket that has filled for a call of cost k since an instant, at the floor's rate at
\* the least, and of which nobody has drawn what the call needs.
Filled(k, from) == level >= Lesser(LeaseMillis * k, Floor * (filled - from))

\* Dividing up gives enough.
LEMMA CeilEnough ==
    ASSUME NEW a \in Nat, NEW b \in Nat \ {0}
    PROVE  CeilDiv(a, b) \in Nat /\ a <= b * CeilDiv(a, b)
<1> DEFINE n == a + b - 1
<1>1. n \in Nat /\ CeilDiv(a, b) = n \div b
  BY DEF CeilDiv
<1> HIDE DEF n
<1>2. n \div b \in Nat /\ n < b * (n \div b) + b /\ b * (n \div b) \in Nat
  BY <1>1
<1> QED BY <1>1, <1>2 DEF n

\* Two factors of a difference, taken apart.
LEMMA Distribute ==
    ASSUME NEW f \in Nat, NEW x \in Int, NEW y \in Int, NEW z \in Int
    PROVE  /\ f * (x - y) \in Int /\ f * (y - z) \in Int
           /\ f * (x - z) = f * (x - y) + f * (y - z)
OBVIOUS

\* A refill from where the bucket stands keeps it filling at the floor's rate or better,
\* once the backoff is over (core.refill).
LEMMA FillsOn ==
    ASSUME TypeOK, RecordInv, TimeInv,
           NEW k \in Nat, k <= HardCap, NEW from \in Nat, quiet <= from, Filled(k, from)
    PROVE  Refilled \in Nat /\ Refilled >= Lesser(LeaseMillis * k, Floor * (now - from))
<1> DEFINE start == Greater(filled, backoff)
           need == LeaseMillis * k
<1>1. /\ now \in Nat /\ filled \in Nat /\ backoff \in Nat /\ quiet \in Nat /\ level \in Nat
      /\ rate \in Nat /\ Floor \in Nat /\ Floor <= rate /\ LeaseMillis \in Nat /\ HardCap \in Nat
      /\ Raised = now /\ RefillRate = rate /\ level <= Capacity
      /\ filled <= now /\ backoff <= quiet /\ backoff <= from
  BY TimeIsRead DEF TimeInv
<1>2. need \in Nat /\ need <= Capacity
  <2>1. LeaseMillis * k \in Nat /\ LeaseMillis * k <= LeaseMillis * HardCap
    BY <1>1, ProductMonotone
  <2> QED BY <1>1, <2>1 DEF Capacity
<1>3. Refilled \in Nat
  BY RefillBound DEF RecordInv
<1>4. level >= Lesser(need, Floor * (filled - from))
  BY DEF Filled
<1>5. Lesser(level, Capacity) = level
  BY <1>1, CapacityIsNat DEF Lesser
<1>6. CASE now > start
  <2>1. Refilled = Lesser(level + rate * (now - start), Capacity)
    BY <1>1, <1>5, <1>6 DEF Refilled
  <2>2. start \in Nat /\ now - start \in Nat
    BY <1>1, <1>6 DEF Greater
  <2>3. /\ rate * (now - start) \in Nat /\ Floor * (now - start) \in Nat
        /\ Floor * (now - start) <= rate * (now - start)
    BY <1>1, <2>2, ProductMonotone
  <2>4. level + rate * (now - start) >= Lesser(need, Floor * (now - from))
    <3>1. CASE level >= need
      BY <1>1, <1>2, <2>3, <3>1, Distribute DEF Lesser
    <3>2. CASE level < need
      <4>1. level >= Floor * (filled - from)
        BY <1>1, <1>2, <1>4, <3>2, Distribute DEF Lesser
      <4>2. Floor * (now - from) = Floor * (now - filled) + Floor * (filled - from)
        BY <1>1, Distribute
      <4>3. Floor * (now - filled) \in Nat /\ Floor * (filled - from) \in Int
        BY <1>1, ProductMonotone, Distribute
      <4>4. CASE filled >= from
        <5>1. start = filled
          BY <1>1, <4>4 DEF Greater
        <5> QED BY <1>1, <1>2, <2>3, <4>1, <4>2, <4>3, <5>1 DEF Lesser
      <4>5. CASE filled < from
        <5>1. start <= from /\ now - from \in Int
          BY <1>1, <4>5 DEF Greater
        <5>2. Floor * (now - from) = Floor * (now - start) + Floor * (start - from)
          BY <1>1, <2>2, Distribute
        <5>3. Floor * (from - start) \in Nat /\ Floor * (start - from) = -(Floor * (from - start))
          BY <1>1, <2>2, <5>1
        <5>4. Floor * (now - from) <= rate * (now - start)
          BY <2>3, <5>2, <5>3
        <5> HIDE DEF start, need
        <5> QED BY <1>1, <1>2, <2>3, <4>2, <4>3, <5>4 DEF Lesser
      <4> QED BY <1>1, <4>4, <4>5
    <3> QED BY <1>1, <1>2, <3>1, <3>2
  <2> HIDE DEF start, need
  <2>5. Floor * (now - from) \in Int
    BY <1>1, Distribute
  <2> QED BY <1>1, <1>2, <1>3, <2>1, <2>3, <2>4, <2>5, CapacityIsNat DEF Lesser, need
<1>7. CASE ~(now > start)
  <2>1. Refilled = level
    BY <1>1, <1>5, <1>7 DEF Refilled
  <2>2. CASE now > from
    <3>1. filled = now
      BY <1>1, <1>7, <2>2 DEF Greater
    <3> QED BY <1>3, <1>4, <2>1, <3>1
  <2>3. CASE now <= from
    <3>1. Floor * (now - from) = -(Floor * (from - now)) /\ Floor * (from - now) \in Nat
      BY <1>1, <2>3
    <3> HIDE DEF need
    <3> QED BY <1>2, <1>3, <3>1 DEF Lesser, need
  <2> QED BY <1>1, <2>2, <2>3
<1> QED BY <1>1, <1>6, <1>7 DEF Greater

-----------------------------------------------------------------------------
(* A lone worker. *)

\* A nonempty bounded set of instants has a latest one.
LEMMA LatestIs ==
    ASSUME NEW n \in Nat, NEW S, S \subseteq 0..n, S # {}
    PROVE  Latest(S) \in S /\ \A i \in S : i <= Latest(S)
<1> DEFINE T == {t \in Nat : \E i \in S : t = n - i}
<1>1. T \subseteq Nat /\ T # {}
  <2>1. PICK i \in S : i \in 0..n
    OBVIOUS
  <2>2. n - i \in T
    BY <2>1
  <2> QED BY <2>2
<1>2. PICK x \in T : \A y \in T : ~(<<y, x>> \in OpToRel(<, Nat))
  BY <1>1, WFMin, NatLessThanWellFounded
<1>3. \A y \in T : ~(y < x)
  BY <1>1, <1>2 DEF OpToRel
<1>4. PICK i \in S : x = n - i
  BY <1>2
<1>5. ASSUME NEW j \in S PROVE j <= i
  <2>1. n - j \in T
    OBVIOUS
  <2> QED BY <1>3, <1>4, <2>1
<1> QED BY <1>5 DEF Latest

\* The instant a worker is alone from is the latest of its own beginning, the last
\* throttle's end and a second after each other worker stopped waiting.
LoneFromKnown(w) ==
    /\ LoneFrom(w) \in Nat
    /\ LoneFrom(w) \in {since[w], quiet} \cup {left[o] + LeaseMillis : o \in Worker \ {w}}
    /\ since[w] <= LoneFrom(w) /\ quiet <= LoneFrom(w)
    /\ \A o \in Worker \ {w} : left[o] + LeaseMillis <= LoneFrom(w)

LoneFromsKnown == \A w \in Worker : phase[w] = "waiting" => LoneFromKnown(w)

LEMMA LoneFromIs == TypeOK /\ TimedTypeOK /\ PaceInv => LoneFromsKnown
<1> SUFFICES ASSUME TypeOK, TimedTypeOK, PaceInv, NEW w \in Worker, phase[w] = "waiting"
             PROVE  LoneFromKnown(w)
  BY DEF LoneFromsKnown
<1> DEFINE others == {left[o] + LeaseMillis : o \in Worker \ {w}}
           S == {since[w], quiet} \cup others
           n == now + LeaseMillis + quiet
<1>1. /\ now \in Nat /\ quiet \in Nat /\ LeaseMillis \in Nat
      /\ since[w] \in Nat /\ since[w] <= now
  BY LimitAssumption DEF TypeOK, TimedTypeOK, PaceInv, Instants
<1>2. \A o \in Worker : left[o] \in Nat /\ left[o] <= now
  BY DEF TimedTypeOK, PaceInv
<1>3. n \in Nat /\ S # {}
  BY <1>1
<1>4. others \subseteq 0..n
  BY <1>1, <1>2
<1>5. S \subseteq 0..n
  BY <1>1, <1>4
<1> HIDE DEF n, others
<1>6. Latest(S) \in S /\ \A i \in S : i <= Latest(S)
  <2> HIDE DEF S
  <2> QED BY <1>3, <1>5, LatestIs
<1>7. LoneFrom(w) = Latest(S)
  BY DEF LoneFrom, others
<1>8. LoneFrom(w) \in Nat
  BY <1>3, <1>5, <1>6, <1>7
<1>9. \A o \in Worker \ {w} : left[o] + LeaseMillis \in S
  BY DEF others
<1> QED BY <1>6, <1>7, <1>8, <1>9 DEF LoneFromKnown, others

\* The bound is as long as the refill, a second, and the last of the waits between asks.
LEMMA LoneBoundIs ==
    ASSUME NEW k \in Nat
    PROVE  /\ LoneBound(k) \in Nat
           /\ LeaseMillis + LongestWait <= LoneBound(k) + 1
           /\ CeilDiv(LeaseMillis * k, Floor) + LongestWait <= LoneBound(k) + 1
           /\ \A wait \in Nat :
                 \/ wait + LongestWait <= LoneBound(k)
                 \/ wait >= LeaseMillis /\ Floor * wait >= LeaseMillis * k
<1> DEFINE fill == CeilDiv(LeaseMillis * k, Floor)
<1>1. /\ LeaseMillis * k \in Nat /\ Floor \in Nat \ {0}
      /\ LeaseMillis \in Nat \ {0} /\ LongestWait \in Nat
  BY LimitAssumption, WaitAssumption
<1>2. fill \in Nat /\ LeaseMillis * k <= Floor * fill
  BY <1>1, CeilEnough
<1>3. LoneBound(k) = Greater(LeaseMillis, fill) + LongestWait - 1
  BY DEF LoneBound
<1> HIDE DEF fill
<1>4. ASSUME NEW wait \in Nat, wait >= fill
      PROVE  Floor * wait >= LeaseMillis * k
  <2>1. Floor * fill \in Nat /\ Floor * wait \in Nat /\ Floor * fill <= Floor * wait
    BY <1>1, <1>2, <1>4, ProductMonotone
  <2> QED BY <1>1, <1>2, <2>1
<1> QED BY <1>1, <1>2, <1>3, <1>4 DEF Greater, fill

\* A lone worker's bucket fills for it, and its timer is near.
LoneInv ==
    \A w \in Worker : Lone(w) /\ cost[w] <= HardCap =>
        /\ Filled(cost[w], LoneFrom(w))
        /\ askAt[w] <= LoneFrom(w) + LoneBound(cost[w])

\* Nothing keeps a worker from a call the hard cap admits once it has been alone for a
\* second and for as long as the bucket takes to refill (core.Issue).
LEMMA LoneIsGranted ==
    ASSUME TypeOK, RecordInv, TimeInv, TimedTypeOK, PaceInv, AskerInv, HolderInv, LoneInv,
           NEW w \in Worker, Lone(w), cost[w] <= HardCap,
           LoneFrom(w) + LeaseMillis <= now,
           LeaseMillis * cost[w] <= Floor * (now - LoneFrom(w))
    PROVE  Grantable(ClassOf[w], cost[w])
<1> DEFINE k == cost[w]
           c == ClassOf[w]
<1>1. /\ Raised = now /\ now \in Nat /\ clock = now
      /\ LeaseMillis \in Nat \ {0} /\ LeaseMillis <= now
      /\ backoff \in Nat /\ backoff <= quiet /\ quiet \in Nat /\ HardCap \in Nat
      /\ asked \in [Class -> Nat]
  BY TimeIsRead DEF TimeInv
<1>2. LoneFromKnown(w)
  BY LoneFromIs DEF Lone, LoneFromsKnown
<1>3. k \in Nat /\ c \in Class /\ left \in [Worker -> Nat] /\ since[w] \in Nat
  BY ClassAssumption DEF TypeOK, TimedTypeOK
<1>4. Refilled \in Nat /\ Refilled >= LeaseMillis * k
  <2>1. Filled(k, LoneFrom(w))
    BY DEF LoneInv
  <2>2. Refilled \in Nat /\ Refilled >= Lesser(LeaseMillis * k, Floor * (now - LoneFrom(w)))
    BY <1>2, <1>3, <2>1, FillsOn DEF LoneFromKnown
  <2> QED BY <2>2 DEF Lesser
<1>5. ASSUME NEW d \in Class, d # c
      PROVE  Undrawn(d) = 0
  <2>1. asked[d] + LeaseMillis <= now
    <3>1. CASE asked[d] = 0
      BY <1>1, <3>1
    <3>2. CASE asked[d] # 0
      <4>1. PICK o \in Worker : ClassOf[o] = d /\ (phase[o] = "waiting" \/ asked[d] <= left[o])
        BY <3>2 DEF AskerInv
      <4>2. o # w /\ asked[d] <= left[o]
        BY <1>5, <4>1 DEF Lone
      <4>3. left[o] + LeaseMillis <= LoneFrom(w) /\ left[o] \in Nat /\ asked[d] \in Nat
        BY <1>1, <1>2, <1>3, <4>2 DEF LoneFromKnown
      <4> QED BY <1>1, <1>2, <4>2, <4>3 DEF LoneFromKnown
    <3> QED BY <3>1, <3>2
  <2>2. asked[d] \in Nat
    BY <1>1
  <2> QED BY <1>1, <2>1, <2>2 DEF Undrawn
<1>6. Owed(c) = 0
  BY <1>3, <1>5 DEF Owed
<1>7. Available(c) = Refilled
  BY <1>1, <1>4, <1>6 DEF Available
<1>8. Windowed = 0
  <2>1. ASSUME NEW g \in grants
        PROVE  ~(Lesser(g.at, Raised) > clock - LeaseMillis)
    <3>1. g.at \in Nat /\ Lesser(g.at, Raised) = g.at
      BY RowStamp, KeptAreRecent DEF Lesser
    <3>2. PICK o \in Worker : ClassOf[o] = g.class /\ g.at <= left[o]
      BY DEF HolderInv
    <3>3. left[o] + LeaseMillis <= now
      <4>1. CASE o = w
        <5>1. left[w] <= since[w] /\ since[w] <= LoneFrom(w) /\ LoneFrom(w) \in Nat
          BY <1>2 DEF PaceInv, Lone, LoneFromKnown
        <5> QED BY <1>1, <1>3, <4>1, <5>1
      <4>2. CASE o # w
        <5>1. left[o] + LeaseMillis <= LoneFrom(w) /\ LoneFrom(w) \in Nat
          BY <1>2, <4>2 DEF LoneFromKnown
        <5> QED BY <1>1, <1>3, <5>1
      <4> QED BY <4>1, <4>2
    <3>4. left[o] \in Nat
      BY <1>3
    <3> QED BY <1>1, <3>1, <3>2, <3>3, <3>4
  <2>2. {g \in grants : Lesser(g.at, Raised) > clock - LeaseMillis} = {}
    BY <2>1
  <2> QED BY <2>2, FS_EmptySet DEF Windowed, Tokens, TokensOf
<1>9. Raised >= backoff
  BY <1>1, <1>2 DEF LoneFromKnown
<1> QED BY <1>1, <1>3, <1>4, <1>7, <1>8, <1>9 DEF Grantable

\* A worker becomes alone, or stays so, with its bucket and its timer as near.
LEMMA LoneStep ==
    ASSUME TypeOK, RecordInv, TimeInv, TimedTypeOK, PaceInv, AskerInv, HolderInv, LoneInv,
           TypeOK', RecordInv', TimeInv', TimedTypeOK', PaceInv', [TimedNext]_timedVars
    PROVE  LoneInv'
<1> SUFFICES ASSUME NEW w \in Worker, Lone(w)', cost'[w] <= HardCap
             PROVE  /\ level' >= Lesser(LeaseMillis * cost'[w], Floor * (filled' - LoneFrom(w)'))
                    /\ askAt'[w] <= LoneFrom(w)' + LoneBound(cost'[w])
  BY DEF LoneInv, Filled, Lesser, LoneBound, Greater, CeilDiv
<1> DEFINE from == LoneFrom(w)
           from1 == LoneFrom(w)'
           k == cost'[w]
           Reached == /\ level' >= Lesser(LeaseMillis * k, Floor * (filled' - from1))
                      /\ askAt'[w] <= from1 + LoneBound(k)
<1>1. /\ from1 \in Nat /\ since'[w] <= from1 /\ quiet' <= from1
      /\ \A o \in Worker \ {w} : left'[o] + LeaseMillis <= from1
  <2>1. LoneFromsKnown'
    BY LoneFromIs, PTL
  <2>2. LoneFromKnown(w)'
    BY <2>1 DEF Lone, LoneFromsKnown
  <2> QED BY <2>2 DEF LoneFromKnown
<1>2. /\ phase'[w] = "waiting" /\ \A o \in Worker \ {w} : phase'[o] # "waiting"
      /\ k \in Nat /\ level' \in Nat /\ filled' \in Nat /\ filled' <= now' /\ now' \in Nat
      /\ now \in Nat /\ filled \in Nat /\ filled <= now
      /\ LeaseMillis \in Nat \ {0} /\ Floor \in Nat /\ LongestWait \in Nat
      /\ askAt'[w] \in Nat /\ since[w] \in Nat /\ askAt[w] \in Nat
      /\ ClassOf[w] \in Class
  <2>1. /\ k \in Nat /\ level' \in Nat /\ filled' \in Nat /\ now' \in Nat
        /\ now \in Nat /\ filled \in Nat
    BY DEF TypeOK, Instants
  <2>2. askAt'[w] \in Nat /\ since[w] \in Nat /\ askAt[w] \in Nat
    BY DEF TimedTypeOK
  <2> QED BY <2>1, <2>2, LimitAssumption, WaitAssumption, ClassAssumption DEF Lone, TimeInv
<1>3. /\ LoneBound(k) \in Nat /\ LeaseMillis + LongestWait <= LoneBound(k) + 1
      /\ \A wait \in Nat : \/ wait + LongestWait <= LoneBound(k)
                           \/ wait >= LeaseMillis /\ Floor * wait >= LeaseMillis * k
  BY <1>2, LoneBoundIs
<1>4. ASSUME NEW held \in Nat, NEW at \in Nat, at <= from1
      PROVE  held >= Lesser(LeaseMillis * k, Floor * (at - from1))
  <2>1. Floor * (from1 - at) \in Nat /\ Floor * (at - from1) = -(Floor * (from1 - at))
    BY <1>1, <1>2, <1>4
  <2>2. LeaseMillis * k \in Nat
    BY <1>2
  <2> QED BY <1>1, <2>1, <2>2 DEF Lesser
<1>5. ASSUME filled' <= from1, askAt'[w] <= from1 + LoneBound(k)
      PROVE  Reached
  BY <1>2, <1>4, <1>5
<1>6. ASSUME Lone(w)
      PROVE  /\ from \in Nat /\ quiet <= from
             /\ from \in {since[w], quiet} \cup {left[o] + LeaseMillis : o \in Worker \ {w}}
  BY <1>6, LoneFromIs DEF Lone, LoneFromsKnown, LoneFromKnown
<1>7. ASSUME Lone(w), quiet' >= quiet,
             UNCHANGED <<level, filled, left, cost[w], askAt[w], since[w]>>
      PROVE  Reached
  <2>1. from \in Nat /\ from <= from1
    <3>1. since[w] <= from1 /\ quiet <= from1
      BY <1>1, <1>7 DEF TypeOK
    <3>2. \A o \in Worker \ {w} : left[o] + LeaseMillis <= from1
      BY <1>1, <1>7
    <3> QED BY <1>6, <1>7, <3>1, <3>2
  <2>2. /\ level' >= Lesser(LeaseMillis * k, Floor * (filled' - from))
        /\ askAt'[w] <= from + LoneBound(k)
    BY <1>7 DEF LoneInv, Filled
  <2>3. Floor * (filled' - from1) <= Floor * (filled' - from)
    <3>1. Floor * (filled' - from) = Floor * (filled' - from1) + Floor * (from1 - from)
      BY <1>1, <1>2, <2>1, Distribute
    <3>2. Floor * (from1 - from) \in Nat /\ Floor * (filled' - from1) \in Int
      BY <1>1, <1>2, <2>1
    <3> QED BY <3>1, <3>2
  <2>4. /\ Floor * (filled' - from1) \in Int /\ Floor * (filled' - from) \in Int
        /\ LeaseMillis * k \in Nat
    BY <1>1, <1>2, <2>1
  <2>5. level' >= Lesser(LeaseMillis * k, Floor * (filled' - from1))
    <3> HIDE DEF from, from1, k
    <3> QED BY <1>2, <2>2, <2>3, <2>4 DEF Lesser
  <2>6. askAt'[w] <= from1 + LoneBound(k)
    <3> HIDE DEF from, from1, k
    <3> QED BY <1>1, <1>2, <1>3, <2>1, <2>2
  <2> QED BY <2>5, <2>6
<1>8. CASE TimedBegin(w) /\ since'[w] = now /\ askAt'[w] = now
  <2>1. UNCHANGED filled
    BY <1>8 DEF TimedBegin, Begin, issuance
  <2>2. filled' <= from1 /\ askAt'[w] <= from1 + LoneBound(k)
    <3> HIDE DEF from1, k
    <3> QED BY <1>1, <1>2, <1>3, <1>8, <2>1
  <2> QED BY <1>5, <2>2
<1>9. CASE TimedWait(w) /\ phase[w] = "waiting" /\ UNCHANGED <<cost[w], since[w]>>
  <2>1. /\ k = cost[w] /\ k <= HardCap
        /\ askAt'[w] <= now + LongestWait
        /\ UNCHANGED <<left, since>> /\ level' = Refilled /\ filled' = now
    BY <1>9, AskSetsTimer
  <2>2. UNCHANGED <<phase, quiet>>
    BY <1>9 DEF TimedWait, Wait, workers
  <2>3. Lone(w)
    BY <1>2, <2>2 DEF Lone
  <2>4. from1 = from
    BY <2>1, <2>2 DEF LoneFrom
  <2>5. from \in Nat /\ quiet <= from
    BY <1>6, <2>3
  <2>6. level' >= Lesser(LeaseMillis * k, Floor * (filled' - from1))
    <3>1. Filled(k, from)
      BY <2>1, <2>3 DEF LoneInv
    <3> HIDE DEF from, k
    <3> QED BY <1>2, <2>1, <2>4, <2>5, <3>1, FillsOn
  <2>7. askAt'[w] <= from1 + LoneBound(k)
    <3>1. CASE now < from
      <4> HIDE DEF from, from1, k
      <4> QED BY <1>2, <1>3, <2>1, <2>4, <2>5, <3>1
    <3>2. CASE now >= from
      <4>1. ~(now - from >= LeaseMillis /\ Floor * (now - from) >= LeaseMillis * k)
        <5> SUFFICES ASSUME now - from >= LeaseMillis, Floor * (now - from) >= LeaseMillis * k
                     PROVE  FALSE
          OBVIOUS
        <5>1. from + LeaseMillis <= now /\ LeaseMillis * cost[w] <= Floor * (now - from)
          <6> HIDE DEF from
          <6> QED BY <1>2, <2>1, <2>5
        <5>2. Grantable(ClassOf[w], cost[w])
          BY <2>1, <2>3, <5>1, LoneIsGranted
        <5> QED BY <1>9, <5>2 DEF TimedWait, Wait
      <4>2. now - from \in Nat
        BY <1>2, <2>5, <3>2
      <4>3. now - from + LongestWait <= LoneBound(k)
        <5> HIDE DEF from, k
        <5> QED BY <1>3, <4>1, <4>2
      <4> HIDE DEF from, from1, k
      <4> QED BY <1>2, <1>3, <2>1, <2>4, <2>5, <4>2, <4>3
    <3> QED BY <1>2, <2>5, <3>1, <3>2
  <2> QED BY <2>6, <2>7
<1>10. CASE Stays(w) /\ (TimedTick \/ UNCHANGED timedVars \/ OtherActs(w))
  <2>1. UNCHANGED <<cost[w], askAt[w], since[w]>> /\ phase[w] = "waiting"
    BY <1>10 DEF Stays
  <2>2. CASE TimedTick \/ UNCHANGED timedVars
    <3>1. UNCHANGED <<level, filled, left, quiet, phase>>
      BY <2>2 DEF TimedTick, Tick, timedVars, vars, issuance, history, workers
    <3>2. Lone(w) /\ quiet \in Nat
      BY <1>2, <3>1 DEF Lone, TypeOK
    <3> QED BY <1>7, <2>1, <3>1, <3>2
  <2>3. ASSUME NEW o \in Worker \ {w}, TimedBegin(o) \/ TimedWait(o)
        PROVE  FALSE
    <3>1. phase'[o] = "waiting"
      BY <2>3 DEF TimedBegin, Begin, Enter, TimedWait, Wait, workers, TypeOK
    <3> QED BY <1>2, <3>1
  <2>4. ASSUME NEW o \in Worker \ {w}, TimedGrant(o) \/ TimedLeave(o)
        PROVE  Reached
    <3>1. left'[o] = now /\ now' = now
      BY <2>4 DEF TimedGrant, TimedLeave, Settled, Grant, GrantUnheard, Refuse, Abandon, clocks,
                  TimedTypeOK
    <3>2. now + LeaseMillis <= from1
      BY <1>1, <3>1
    <3>3. (askAt[w] = since[w] /\ since[w] <= now) \/ askAt[w] <= now + LongestWait
      <4>1. asked[ClassOf[w]] \in Nat /\ asked[ClassOf[w]] <= now
        BY <1>2, TimeIsRead DEF TimeInv
      <4> QED BY <1>2, <2>1, <4>1 DEF PaceInv
    <3> HIDE DEF from1, k
    <3> QED BY <1>1, <1>2, <1>3, <1>5, <2>1, <3>1, <3>2, <3>3
  <2>5. ASSUME NEW o \in Worker \ {w}, CallEnds(o)
        PROVE  Reached
    <3>1. UNCHANGED <<level, filled, left>> /\ quiet' >= quiet
      BY <2>5, EndsQuietly DEF issuance
    <3>2. Lone(w)
      BY <1>2, <2>1, <2>5, EndsQuietly DEF Lone, End, Enter, TypeOK
    <3> QED BY <1>7, <2>1, <3>1, <3>2
  <2> QED BY <1>10, <2>2, <2>3, <2>4, <2>5 DEF OtherActs
<1> QED BY <1>2, <1>8, <1>9, <1>10, WaiterSees

\* A lone worker's timer has not passed.
LEMMA LoneIsBrief ==
    ASSUME TypeOK, RecordInv, TimeInv, TimedTypeOK, PaceInv, LoneInv
    PROVE  LoneWaitBounded
<1> SUFFICES ASSUME NEW w \in Worker, Lone(w)
             PROVE  now - LoneFrom(w) <= LoneBound(cost[w])
  BY DEF LoneWaitBounded
<1>1. LoneFrom(w) \in Nat /\ since[w] <= LoneFrom(w)
  BY LoneFromIs DEF Lone, LoneFromsKnown, LoneFromKnown
<1>2. /\ now \in Nat /\ askAt[w] \in Nat /\ since[w] \in Nat /\ cost[w] \in Nat
      /\ now <= askAt[w] /\ (askAt[w] = since[w] \/ cost[w] <= HardCap)
  BY TimeIsRead DEF TypeOK, TimedTypeOK, PaceInv, Lone
<1>3. LoneBound(cost[w]) \in Nat
  BY <1>2, LoneBoundIs
<1>4. cost[w] <= HardCap => askAt[w] <= LoneFrom(w) + LoneBound(cost[w])
  BY DEF LoneInv
<1> QED BY <1>1, <1>2, <1>3, <1>4

-----------------------------------------------------------------------------
(* A favoured worker. *)

\* When the favoured worker's last lease is spent and no throttle's wait is left; when
\* the bucket has filled for it since; and when it has asked after that.
OwedFrom(w) == Greater(since[w] + LeaseMillis, quiet)
FillsBy(w) == OwedFrom(w) + CeilDiv(LeaseMillis * cost[w], Floor)
AsksBy(w) == FillsBy(w) + LongestWait - 1

\* How many seconds in a row the others may crowd it out of: what they spend above the
\* target is no more than the bucket's capacity beyond the call.
Excess(k) == LeaseMillis * Crowd(k) - Target * Spell
Crowds(k) == (LeaseMillis * (HardCap - k)) \div Excess(k)

\* The limits a favoured worker's bounds are made of.
LEMMA FavouredLimits ==
    ASSUME TypeOK, TimedTypeOK, NEW w \in Worker, Favoured(w)
    PROVE  /\ LeaseMillis \in Nat \ {0} /\ ShortestWait \in Nat \ {0} /\ LongestWait \in Nat
           /\ ShortestWait <= LongestWait /\ LongestWait < LeaseMillis
           /\ Floor \in Nat \ {0} /\ HardCap \in Nat /\ Target \in Nat
           /\ cost[w] \in Nat /\ cost[w] <= HardCap /\ LeaseMillis * cost[w] \in Nat
           /\ since[w] \in Nat /\ askAt[w] \in Nat /\ quiet \in Nat
           /\ OwedFrom(w) \in Nat /\ since[w] + LeaseMillis <= OwedFrom(w) /\ quiet <= OwedFrom(w)
           /\ FillsBy(w) \in Nat /\ OwedFrom(w) <= FillsBy(w)
           /\ LeaseMillis * cost[w] <= Floor * (FillsBy(w) - OwedFrom(w))
           /\ AsksBy(w) \in Int /\ AsksBy(w) = FillsBy(w) + LongestWait - 1
           /\ Spell \in Nat \ {0} /\ Spell = LeaseMillis + ShortestWait - 1
           /\ Crowd(cost[w]) \in Nat \ {0}
           /\ Excess(cost[w]) \in Nat \ {0}
           /\ Crowds(cost[w]) \in Nat /\ Spell * Crowds(cost[w]) \in Nat
<1> DEFINE k == cost[w]
           fill == CeilDiv(LeaseMillis * k, Floor)
<1>1. /\ LeaseMillis \in Nat \ {0} /\ ShortestWait \in Nat \ {0} /\ LongestWait \in Nat
      /\ ShortestWait <= LongestWait /\ LongestWait < LeaseMillis
      /\ Floor \in Nat \ {0} /\ HardCap \in Nat /\ Target \in Nat
      /\ k \in Nat /\ k <= HardCap
      /\ since[w] \in Nat /\ askAt[w] \in Nat /\ quiet \in Nat
  BY LimitAssumption, WaitAssumption DEF TypeOK, TimedTypeOK, Favoured
<1>2. LeaseMillis * k \in Nat
  BY <1>1
<1>3. fill \in Nat /\ LeaseMillis * k <= Floor * fill
  BY <1>1, <1>2, CeilEnough
<1>4. OwedFrom(w) \in Nat /\ since[w] + LeaseMillis <= OwedFrom(w) /\ quiet <= OwedFrom(w)
  BY <1>1 DEF OwedFrom, Greater
<1>5. FillsBy(w) = OwedFrom(w) + fill
  BY DEF FillsBy
<1> HIDE DEF fill
<1>6. /\ FillsBy(w) \in Nat /\ OwedFrom(w) <= FillsBy(w) /\ FillsBy(w) - OwedFrom(w) = fill
      /\ AsksBy(w) \in Int /\ AsksBy(w) = FillsBy(w) + LongestWait - 1
  BY <1>1, <1>3, <1>4, <1>5 DEF AsksBy
<1>7. /\ Spell \in Nat \ {0} /\ Spell = LeaseMillis + ShortestWait - 1
      /\ Crowd(k) \in Nat \ {0}
  BY <1>1 DEF Spell, Crowd
<1>8. Excess(k) \in Nat \ {0}
  <2>1. LeaseMillis * Crowd(k) \in Nat /\ Target * Spell \in Nat
    BY <1>1, <1>7
  <2>2. LeaseMillis * Crowd(k) > Target * Spell
    BY DEF Favoured
  <2> QED BY <2>1, <2>2 DEF Excess
<1>9. Crowds(k) \in Nat
  <2>1. LeaseMillis * (HardCap - k) \in Nat
    BY <1>1
  <2>2. \A n \in Nat, d \in Nat \ {0} : n \div d \in Nat
    OBVIOUS
  <2> QED BY <1>8, <2>1, <2>2 DEF Crowds
<1>10. Spell * Crowds(k) \in Nat
  BY <1>7, <1>9
<1> QED BY <1>1, <1>2, <1>3, <1>4, <1>6, <1>7, <1>8, <1>9, <1>10

\* A grant to another worker leaves the favoured worker's share in the bucket, from when
\* its own last lease is spent (core.Issue's reservations).
LEMMA ShareLeft ==
    ASSUME TypeOK, RecordInv, TimeInv, TimedTypeOK, PaceInv, HolderInv,
           NEW w \in Worker, Favoured(w), OwedFrom(w) < now,
           NEW o \in Worker \ {w}, Grantable(ClassOf[o], cost[o])
    PROVE  LeaseMillis * cost[w] <= Refilled - LeaseMillis * cost[o]
<1> DEFINE k == cost[w]
<1>1. /\ Raised = now /\ RefillRate = rate /\ rate \in Nat /\ Floor <= rate /\ now \in Nat
      /\ asked \in [Class -> Nat] /\ left \in [Worker -> Nat]
  BY TimeIsRead DEF TimedTypeOK
<1>2. /\ LeaseMillis \in Nat \ {0} /\ LongestWait \in Nat /\ LongestWait < LeaseMillis
      /\ Floor \in Nat /\ k \in Nat /\ since[w] \in Nat /\ askAt[w] \in Nat
      /\ OwedFrom(w) \in Nat /\ since[w] + LeaseMillis <= OwedFrom(w)
  BY FavouredLimits
<1>3. ClassOf[w] = 1 /\ ClassOf[o] \in {2, 3}
  BY ClassAssumption DEF Favoured
<1>4. asked[1] + LeaseMillis > Raised
  <2>1. now <= askAt[w] /\ (askAt[w] = since[w] \/ askAt[w] <= asked[1] + LongestWait)
    BY <1>3 DEF PaceInv, Favoured
  <2>2. asked[1] \in Nat
    BY <1>1
  <2> QED BY <1>1, <1>2, <2>1, <2>2
<1>5. Held(1) = 0
  <2>1. ASSUME NEW g \in grants, g.class = 1
        PROVE  ~(g.at + LeaseMillis > Raised)
    <3>1. PICK v \in Worker : ClassOf[v] = g.class /\ g.at <= left[v]
      BY DEF HolderInv
    <3>2. v = w
      BY <2>1, <3>1 DEF Favoured
    <3>3. left[w] <= since[w] /\ left[w] \in Nat
      BY <1>1 DEF PaceInv, Favoured
    <3>4. g.at \in Nat
      BY RowStamp
    <3> QED BY <1>1, <1>2, <3>1, <3>2, <3>3, <3>4
  <2>2. {g \in grants : g.class = 1 /\ g.at + LeaseMillis > Raised} = {}
    BY <2>1
  <2> QED BY <2>2, FS_EmptySet DEF Held, Tokens, TokensOf
<1>6. Share(1) \in Nat /\ k <= Share(1)
  <2>1. k <= Floor /\ k <= InteractiveReserve /\ InteractiveReserve \in Nat
    BY LimitAssumption DEF Favoured
  <2>2. Share(1) = Lesser(rate, InteractiveReserve)
    BY <1>1 DEF Share
  <2> QED BY <1>1, <1>2, <2>1, <2>2 DEF Lesser
<1>7. Undrawn(1) \in Nat /\ k <= Undrawn(1)
  BY <1>2, <1>4, <1>5, <1>6 DEF Undrawn, Greater
<1>8. Undrawn(2) >= 0 /\ Undrawn(2) \in Int
  <2>1. Held(2) \in Nat
    <3>1. {g \in grants : g.class = 2 /\ g.at + LeaseMillis > Raised} \in SUBSET grants
      OBVIOUS
    <3> QED BY <3>1, TokensGrow DEF TypeOK, Held
  <2>2. Share(2) \in Int
    BY <1>1, LimitAssumption DEF Share, Lesser
  <2> QED BY <2>1, <2>2 DEF Undrawn, Greater
<1>9. Owed(ClassOf[o]) \in Nat /\ k <= Owed(ClassOf[o])
  BY <1>2, <1>3, <1>7, <1>8 DEF Owed
<1>10. LeaseMillis * k \in Nat /\ LeaseMillis * Owed(ClassOf[o]) \in Nat
       /\ LeaseMillis * k <= LeaseMillis * Owed(ClassOf[o])
  BY <1>2, <1>9, ProductMonotone
<1>11. LeaseMillis * cost[o] <= Refilled - LeaseMillis * Owed(ClassOf[o])
  BY DEF Grantable, Available
<1>12. Refilled \in Nat /\ LeaseMillis * cost[o] \in Nat
  <2>1. cost[o] \in Nat
    BY DEF TypeOK
  <2> QED BY <1>2, <2>1, RefillBound DEF RecordInv
<1> QED BY <1>10, <1>11, <1>12

\* A second that ended at an instant with no room for the call; and every instant from
\* when the worker has asked to its next ask is less than ShortestWait after such a second.
CrowdedOut(k, a) == issued[a] - issued[a - LeaseMillis] >= Crowd(k)
CrowdedAt(k, s) ==
    \E a \in Instants :
        a <= now /\ a <= s /\ s < a + ShortestWait /\ LeaseMillis <= a /\ CrowdedOut(k, a)
CrowdInv(w) == \A s \in AsksBy(w)..(askAt[w] - 1) : CrowdedAt(cost[w], s)

\* What comes before an instant is one.
LEMMA EarlierInstant ==
    ASSUME NEW i \in Nat, NEW j \in Instants, i <= j
    PROVE  i \in Instants
BY ClockAssumption DEF Instants

\* Crowded seconds that follow one another add up: n spells hold the tokens of n seconds
\* that have no room, for each ask comes less than ShortestWait after the last.
LEMMA CrowdsAddUp ==
    ASSUME TypeOK, RecordInv, NEW k \in Nat, Crowd(k) \in Nat,
           LeaseMillis \in Nat \ {0}, ShortestWait \in Nat \ {0},
           NEW from \in Nat, from <= now, NEW upto \in Nat,
           \A s \in (from + Spell)..(upto - 1) : CrowdedAt(k, s),
           NEW n \in Nat, from + n * Spell < upto
    PROVE  issued[now] - issued[from] >= n * Crowd(k)
<1> DEFINE Spent(m) == \E a \in Instants :
               /\ from <= a /\ a <= now /\ a <= from + m * Spell
               /\ issued[a] - issued[from] >= m * Crowd(k)
           T == {m \in Nat : from + m * Spell < upto /\ ~Spent(m)}
<1>1. /\ Instants \subseteq Nat /\ now \in Instants /\ now \in Nat /\ from \in Instants
      /\ \A t \in Instants : issued[t] \in Nat
      /\ \A t, u \in Instants : t <= u => issued[t] <= issued[u]
      /\ Spell \in Nat \ {0} /\ Spell = LeaseMillis + ShortestWait - 1
  <2>1. Instants \subseteq Nat /\ now \in Instants /\ \A t \in Instants : issued[t] \in Nat
    BY IssuedSince
  <2>2. from \in Instants
    BY <2>1, EarlierInstant
  <2> QED BY <2>1, <2>2 DEF RecordInv, Spell
<1>2. T = {}
  <2> SUFFICES ASSUME T # {} PROVE FALSE
    OBVIOUS
  <2>1. T \subseteq Nat
    OBVIOUS
  <2>2. PICK m \in T : \A y \in T : ~(<<y, m>> \in OpToRel(<, Nat))
    <3> HIDE DEF T
    <3> QED BY <2>1, WFMin, NatLessThanWellFounded
  <2>3. m \in Nat /\ from + m * Spell < upto /\ ~Spent(m)
    OBVIOUS
  <2>4. \A y \in T : ~(y < m)
    BY <2>1, <2>2 DEF OpToRel
  <2>5. Spent(0)
    <3>1. 0 * Spell = 0 /\ 0 * Crowd(k) = 0
      BY <1>1
    <3> QED BY <1>1, <3>1
  <2>6. m - 1 \in Nat
    BY <2>3, <2>5
  <2>7. m * Spell = (m - 1) * Spell + Spell /\ (m - 1) * Spell \in Nat
        /\ m * Crowd(k) = (m - 1) * Crowd(k) + Crowd(k) /\ (m - 1) * Crowd(k) \in Nat
    BY <1>1, <2>6
  <2>8. Spent(m - 1)
    <3>1. m - 1 \notin T
      BY <2>4, <2>6
    <3>2. from + (m - 1) * Spell < upto
      BY <1>1, <2>3, <2>7
    <3> QED BY <2>6, <3>1, <3>2
  <2>9. PICK a \in Instants :
          /\ from <= a /\ a <= now /\ a <= from + (m - 1) * Spell
          /\ issued[a] - issued[from] >= (m - 1) * Crowd(k)
    BY <2>8
  <2> DEFINE s == from + m * Spell
  <2>10. s \in (from + Spell)..(upto - 1) /\ s = from + (m - 1) * Spell + Spell
    BY <1>1, <2>3, <2>7
  <2>11. PICK b \in Instants :
           b <= now /\ b <= s /\ s < b + ShortestWait /\ LeaseMillis <= b
             /\ issued[b] - issued[b - LeaseMillis] >= Crowd(k)
    BY <2>10 DEF CrowdedAt, CrowdedOut
  <2>12. b - LeaseMillis \in Instants /\ a <= b - LeaseMillis /\ from <= b
    <3>1. a \in Nat /\ b \in Nat
      BY <1>1
    <3>2. b - LeaseMillis \in Instants
      BY <2>11, <3>1, EarlierInstant
    <3> HIDE DEF s
    <3> QED BY <1>1, <2>7, <2>9, <2>10, <2>11, <3>1, <3>2
  <2>13. issued[a] <= issued[b - LeaseMillis]
    BY <1>1, <2>12
  <2>14. issued[b] - issued[from] >= m * Crowd(k)
    <3>1. /\ issued[a] \in Nat /\ issued[b] \in Nat
          /\ issued[b - LeaseMillis] \in Nat /\ issued[from] \in Nat
      BY <1>1, <2>12
    <3> QED BY <2>7, <2>9, <2>11, <2>13, <3>1
  <2>15. Spent(m)
    BY <2>11, <2>12, <2>14
  <2> QED BY <2>3, <2>15
<1>3. Spent(n)
  BY <1>2
<1>4. PICK a \in Instants : a <= now /\ issued[a] - issued[from] >= n * Crowd(k)
  BY <1>3
<1>5. issued[a] <= issued[now] /\ issued[a] \in Nat /\ issued[now] \in Nat /\ issued[from] \in Nat
      /\ n * Crowd(k) \in Nat
  BY <1>1, <1>4
<1> QED BY <1>4, <1>5

\* The politeness bound ends them: so many crowded seconds in a row would spend what the
\* bucket still holds for the call.
LEMMA CrowdsRunOut ==
    ASSUME TypeOK, RecordInv, PoliteInv, NEW k \in Nat, k <= HardCap,
           Excess(k) \in Nat \ {0}, Crowds(k) \in Nat, Spell \in Nat, Crowd(k) \in Nat,
           LeaseMillis * k <= Refilled,
           NEW from \in Nat, from <= now, now <= from + (Crowds(k) + 1) * Spell,
           issued[now] - issued[from] >= (Crowds(k) + 1) * Crowd(k)
    PROVE  FALSE
<1> DEFINE n == Crowds(k) + 1
           spent == issued[now] - issued[from]
           beyond == LeaseMillis * (HardCap - k)
<1>1. /\ now \in Nat /\ from \in Instants /\ issued[now] \in Nat /\ issued[from] \in Nat
      /\ LeaseMillis \in Nat /\ Target \in Nat /\ HardCap \in Nat
      /\ Capacity = HardCap * LeaseMillis
  <2>1. Instants \subseteq Nat /\ now \in Instants /\ \A t \in Instants : issued[t] \in Nat
    BY IssuedSince
  <2>2. from \in Instants
    BY <2>1, EarlierInstant
  <2> QED BY <2>1, <2>2, LimitAssumption DEF Capacity
<1>2. spent \in Nat /\ n \in Nat
  <2>1. issued[from] <= issued[now]
    BY <1>1 DEF RecordInv, TypeOK
  <2> QED BY <1>1, <2>1
<1>3. LeaseMillis * spent + Fillable <= Target * (now - from) + Capacity
  BY <1>1 DEF PoliteInv
<1>4. Refilled \in Nat /\ Refilled <= Fillable /\ Fillable \in Nat
  BY RefillBound, FillableBound DEF RecordInv
<1>5. /\ LeaseMillis * (n * Crowd(k)) \in Nat /\ LeaseMillis * spent \in Nat
      /\ LeaseMillis * (n * Crowd(k)) <= LeaseMillis * spent
  <2>1. n * Crowd(k) \in Nat /\ n * Crowd(k) <= spent
    BY <1>2
  <2> HIDE DEF n, spent
  <2> QED BY <1>1, <1>2, <2>1, ProductMonotone
<1>6. /\ Target * (now - from) \in Nat /\ Target * (n * Spell) \in Nat
      /\ Target * (now - from) <= Target * (n * Spell)
  <2>1. now - from \in Nat /\ n * Spell \in Nat /\ now - from <= n * Spell
    BY <1>1, <1>2
  <2> HIDE DEF n
  <2> QED BY <1>1, <2>1, ProductMonotone
<1>7. LeaseMillis * (n * Crowd(k)) - Target * (n * Spell) = n * Excess(k)
  <2> HIDE DEF n
  <2> QED BY <1>1, <1>2 DEF Excess
<1>8. beyond = Capacity - LeaseMillis * k /\ beyond \in Nat /\ LeaseMillis * k \in Nat
  BY <1>1
<1>9. n * Excess(k) <= beyond
  <2> HIDE DEF n, spent, beyond
  <2> QED BY <1>1, <1>2, <1>3, <1>4, <1>5, <1>6, <1>7, <1>8, CapacityIsNat
<1>10. beyond < n * Excess(k)
  <2>1. \A m \in Nat, d \in Nat \ {0} : m < d * (m \div d) + d
    OBVIOUS
  <2>2. beyond < Excess(k) * Crowds(k) + Excess(k)
    BY <1>8, <2>1 DEF Crowds
  <2>3. Excess(k) * Crowds(k) + Excess(k) = n * Excess(k)
    OBVIOUS
  <2> QED BY <2>2, <2>3
<1>11. n * Excess(k) \in Nat
  BY <1>2
<1> HIDE DEF n, beyond
<1> QED BY <1>8, <1>9, <1>10, <1>11

\* The favoured worker's share stays in the bucket, it is crowded out only by seconds with
\* no room for it, and not for long.
FavouredInv ==
    \A w \in Worker : Favoured(w) =>
        /\ Filled(cost[w], OwedFrom(w))
        /\ CrowdInv(w)
        /\ askAt[w] <= AsksBy(w) + Spell * Crowds(cost[w])

\* Once the bucket has had time to fill at the floor, it holds what the favoured worker
\* asks for (core.refill).
LEMMA ShareFills ==
    ASSUME TypeOK, RecordInv, TimeInv, TimedTypeOK, FavouredInv,
           NEW w \in Worker, Favoured(w), FillsBy(w) <= now
    PROVE  Refilled \in Nat /\ LeaseMillis * cost[w] <= Refilled
<1> DEFINE k == cost[w]
<1>1. /\ Floor \in Nat /\ HardCap \in Nat /\ k \in Nat /\ k <= HardCap
      /\ LeaseMillis \in Nat \ {0} /\ LeaseMillis * k \in Nat
      /\ OwedFrom(w) \in Nat /\ quiet <= OwedFrom(w)
      /\ FillsBy(w) \in Nat /\ OwedFrom(w) <= FillsBy(w)
      /\ LeaseMillis * k <= Floor * (FillsBy(w) - OwedFrom(w))
  BY FavouredLimits
<1>2. now \in Nat /\ backoff \in Nat /\ backoff <= quiet /\ quiet \in Nat
  BY TimeIsRead DEF TimeInv
<1>3. Refilled \in Nat /\ Refilled >= Lesser(LeaseMillis * k, Floor * (now - OwedFrom(w)))
  BY <1>1, <1>2, FillsOn DEF FavouredInv
<1>4. LeaseMillis * k <= Floor * (now - OwedFrom(w))
  <2>1. Floor * (now - OwedFrom(w)) \in Nat
        /\ Floor * (FillsBy(w) - OwedFrom(w)) <= Floor * (now - OwedFrom(w))
        /\ Floor * (FillsBy(w) - OwedFrom(w)) \in Nat
    BY <1>1, <1>2, ProductMonotone
  <2> QED BY <1>1, <2>1
<1> QED BY <1>3, <1>4 DEF Lesser

\* An ask made when the bucket has filled is refused for the last second's grants alone,
\* and the next one follows after the shortest wait (core.Issue, lease.waitFor).
LEMMA AskCrowded ==
    ASSUME TypeOK, RecordInv, TimeInv, TimedTypeOK, StoredInv, FavouredInv, TypeOK',
           NEW w \in Worker, Favoured(w), TimedWait(w), FillsBy(w) <= now
    PROVE  /\ LeaseMillis * cost[w] <= Refilled
           /\ askAt'[w] = now + ShortestWait
           /\ CrowdedOut(cost[w], now)
<1> DEFINE k == cost[w]
<1>1. /\ LeaseMillis \in Nat \ {0} /\ Floor \in Nat /\ HardCap \in Nat
      /\ k \in Nat /\ k <= HardCap /\ LeaseMillis * k \in Nat
      /\ OwedFrom(w) \in Nat /\ quiet <= OwedFrom(w)
      /\ FillsBy(w) \in Nat /\ OwedFrom(w) <= FillsBy(w)
      /\ LeaseMillis * k <= Floor * (FillsBy(w) - OwedFrom(w))
  BY FavouredLimits
<1>2. /\ now \in Nat /\ Raised = now /\ clock = now /\ backoff \in Nat /\ backoff <= quiet
      /\ quiet \in Nat
  BY TimeIsRead DEF TimeInv
<1>3. Refilled \in Nat /\ LeaseMillis * k <= Refilled
  BY ShareFills
<1>4. askAt'[w] = now + ShortestWait
  BY <1>1, <1>2, <1>3, AskSetsTimer
<1>5. ~Grantable(1, k) /\ Owed(1) = 0
  BY DEF TimedWait, Wait, Favoured, Owed
<1>6. Windowed + k > HardCap /\ Windowed \in Nat
  <2>1. Available(1) = Refilled
    BY <1>1, <1>3, <1>5 DEF Available
  <2>2. {g \in grants : Lesser(g.at, Raised) > clock - LeaseMillis} \in SUBSET grants
    OBVIOUS
  <2>3. Windowed \in Nat
    BY <2>2, TokensGrow DEF TypeOK, Windowed
  <2> QED BY <1>1, <1>2, <1>3, <1>5, <2>1, <2>3 DEF Grantable
<1>7. Windowed <= issued[now] - issued[now - LeaseMillis]
  <2>1. \A g \in grants : Lesser(g.at, Raised) = g.at
    BY RowStamp, KeptAreRecent DEF Lesser
  <2>2. {g \in grants : Lesser(g.at, Raised) > clock - LeaseMillis}
          = {g \in grants : g.at > now - LeaseMillis}
    BY <1>2, <2>1
  <2>3. now - LeaseMillis \in Instants /\ now - LeaseMillis <= now
    BY <1>1, <1>2, IssuedSince
  <2> QED BY <2>2, <2>3 DEF StoredInv, Windowed
<1>8. issued[now] \in Nat /\ issued[now - LeaseMillis] \in Nat
  BY IssuedSince
<1> QED BY <1>1, <1>3, <1>4, <1>6, <1>7, <1>8 DEF CrowdedOut, Crowd

\* What is issued is counted from the present on.
LEMMA IssuedPast ==
    ASSUME TypeOK, RecordInv, [Next]_vars
    PROVE  \A t \in Instants : /\ t < now => issued'[t] = issued[t]
                               /\ issued[t] <= issued'[t]
<1>1. /\ now \in Nat /\ now \in Instants /\ Instants \subseteq Nat
      /\ \A t \in Instants : issued[t] \in Nat
      /\ \A t \in Instants : t >= now => issued[t] = issued[now]
  BY IssuedSince DEF RecordInv
<1>2. ASSUME NEW c \in Class, NEW k \in Nat \ {0}, Granted(c, k), NEW t \in Instants
      PROVE  (t < now => issued'[t] = issued[t]) /\ issued[t] <= issued'[t]
  <2>1. /\ \A u \in Instants : u >= now => issued'[u] = issued[now] + k
        /\ \A u \in Instants : u < now => issued'[u] = issued[u]
    BY <1>2, GrantCounts DEF Granted
  <2> QED BY <1>1, <2>1
<1>3. CASE (\E c \in Class : Left(c)) \/ Tick \/ StepBack \/ Untouched
  <2>1. issued' = issued
    BY <1>3 DEF Left, StoreAsk, Tick, StepBack, Untouched, history
  <2> QED BY <1>1, <2>1
<1> QED BY <1>2, <1>3, StepKinds

\* A crowded second stays one.
CrowdedThen(k, s) ==
    \E a \in Instants : /\ a <= now' /\ a <= s /\ s < a + ShortestWait /\ LeaseMillis <= a
                       /\ issued'[a] - issued'[a - LeaseMillis] >= Crowd(k)

LEMMA CrowdStays ==
    ASSUME TypeOK, RecordInv, TypeOK', [Next]_vars, now \in Nat, now' \in Nat, now <= now',
           NEW k \in Nat, NEW s \in Int, CrowdedAt(k, s)
    PROVE  CrowdedThen(k, s)
<1>1. PICK a \in Instants :
        a <= now /\ a <= s /\ s < a + ShortestWait /\ LeaseMillis <= a
          /\ issued[a] - issued[a - LeaseMillis] >= Crowd(k)
  BY DEF CrowdedAt, CrowdedOut
<1>2. a \in Nat /\ a - LeaseMillis \in Instants /\ LeaseMillis \in Nat \ {0}
  <2>1. Instants \subseteq Nat /\ LeaseMillis \in Nat \ {0}
    BY LimitAssumption DEF Instants
  <2>2. a - LeaseMillis \in Nat /\ a - LeaseMillis <= a
    BY <1>1, <2>1
  <2> QED BY <2>1, <2>2, EarlierInstant
<1>3. a - LeaseMillis < now
  BY <1>1, <1>2
<1>4. issued'[a - LeaseMillis] = issued[a - LeaseMillis] /\ issued[a] <= issued'[a]
  BY <1>2, <1>3, IssuedPast
<1>5. issued[a] \in Nat /\ issued'[a] \in Nat /\ issued[a - LeaseMillis] \in Nat
  BY <1>2 DEF TypeOK
<1>6. Crowd(k) \in Int
  BY LimitAssumption DEF Crowd
<1>7. issued'[a] - issued'[a - LeaseMillis] >= Crowd(k)
  BY <1>1, <1>4, <1>5, <1>6
<1>8. a <= now'
  BY <1>1, <1>2
<1> QED BY <1>1, <1>7, <1>8 DEF CrowdedThen

\* What a step does to the bucket, as another worker sees it.
BucketSteps(w) ==
    \/ UNCHANGED issuance
    \/ level' = Refilled /\ filled' = now
    \/ \E o \in Worker \ {w} :
          /\ Grantable(ClassOf[o], cost[o])
          /\ level' = Refilled - LeaseMillis * cost[o] /\ filled' = now

LEMMA OtherBucketStep ==
    ASSUME TypeOK, RecordInv, TimeInv, NEW w \in Worker,
           TimedTick \/ UNCHANGED timedVars \/ OtherActs(w)
    PROVE  BucketSteps(w) /\ now' \in {now, now + 1} /\ quiet' >= quiet
<1>0. Raised = now /\ quiet \in Nat
  BY TimeIsRead
<1>1. CASE TimedTick \/ UNCHANGED timedVars
  BY <1>0, <1>1 DEF TimedTick, Tick, timedVars, vars, clocks, history, BucketSteps
<1>2. ASSUME NEW o \in Worker \ {w}, TimedBegin(o) \/ TimedLeave(o)
      PROVE  UNCHANGED <<issuance, now, quiet>>
  BY <1>2 DEF TimedBegin, TimedLeave, Begin, Abandon, clocks, history
<1>3. ASSUME NEW o \in Worker \ {w}, CallEnds(o)
      PROVE  UNCHANGED <<issuance, now>> /\ quiet' >= quiet
  BY <1>3, EndsQuietly DEF clocks
<1>4. ASSUME NEW o \in Worker \ {w}, TimedWait(o)
      PROVE  level' = Refilled /\ filled' = now /\ UNCHANGED <<now, quiet>>
  BY <1>0, <1>4 DEF TimedWait, Wait, StoreAsk, clocks
<1>5. ASSUME NEW o \in Worker \ {w}, TimedGrant(o)
      PROVE  /\ UNCHANGED <<now, quiet>>
             /\ \/ UNCHANGED issuance
                \/ /\ Grantable(ClassOf[o], cost[o])
                   /\ level' = Refilled - LeaseMillis * cost[o] /\ filled' = now
  BY <1>0, <1>5 DEF TimedGrant, Grant, GrantUnheard, Refuse, StoreGrant, clocks, history
<1>6. CASE OtherActs(w)
  <2>1. PICK o \in Worker \ {w} :
          TimedBegin(o) \/ TimedWait(o) \/ TimedGrant(o) \/ TimedLeave(o) \/ CallEnds(o)
    BY <1>6 DEF OtherActs
  <2> QED BY <1>0, <1>2, <1>3, <1>4, <1>5, <2>1 DEF BucketSteps
<1> QED BY <1>1, <1>6

\* No step of another worker takes the favoured worker's share from the bucket.
LEMMA ShareStays ==
    ASSUME TypeOK, RecordInv, TimeInv, TimedTypeOK, PaceInv, HolderInv, TypeOK',
           NEW w \in Worker, Favoured(w), BucketSteps(w), Filled(cost[w], OwedFrom(w))
    PROVE  level' >= Lesser(LeaseMillis * cost[w], Floor * (filled' - OwedFrom(w)))
<1> DEFINE k == cost[w]
           from == OwedFrom(w)
<1>1. /\ k \in Nat /\ k <= HardCap /\ LeaseMillis * k \in Nat
      /\ Floor \in Nat /\ LeaseMillis \in Nat
      /\ from \in Nat /\ quiet <= from
  BY FavouredLimits
<1>2. now \in Nat /\ level' \in Nat
  BY TimeIsRead DEF TypeOK
<1>3. CASE UNCHANGED issuance
  BY <1>3 DEF issuance, Filled
<1>4. CASE level' = Refilled /\ filled' = now
  BY <1>1, <1>4, FillsOn
<1>5. ASSUME NEW o \in Worker \ {w}, Grantable(ClassOf[o], cost[o]),
             level' = Refilled - LeaseMillis * cost[o], filled' = now
      PROVE  level' >= Lesser(LeaseMillis * k, Floor * (filled' - from))
  <2>1. CASE from < now
    <3>1. LeaseMillis * k <= level'
      BY <1>5, <2>1, ShareLeft
    <3>2. Floor * (filled' - from) \in Int
      BY <1>1, <1>2, <1>5
    <3> HIDE DEF k, from
    <3> QED BY <1>1, <1>2, <3>1, <3>2 DEF Lesser
  <2>2. CASE now <= from
    <3>1. Floor * (from - now) \in Nat /\ Floor * (now - from) = -(Floor * (from - now))
      BY <1>1, <1>2, <2>2
    <3> HIDE DEF k, from
    <3> QED BY <1>1, <1>2, <1>5, <3>1 DEF Lesser
  <2> QED BY <1>1, <1>2, <2>1, <2>2
<1> QED BY <1>3, <1>4, <1>5 DEF BucketSteps

\* The favoured worker's own ask sets its timer within its bounds: before the bucket has
\* filled, a wait ahead at most; after, a crowded second more and never too many of them.
LEMMA AskIsNear ==
    ASSUME TypeOK, RecordInv, TimeInv, TimedTypeOK, PaceInv, StoredInv, PoliteInv, FavouredInv,
           TypeOK', TimedTypeOK', NEW w \in Worker, Favoured(w), TimedWait(w)
    PROVE  /\ \A s \in AsksBy(w)..(askAt'[w] - 1) : CrowdedAt(cost[w], s)
           /\ askAt'[w] <= AsksBy(w) + Spell * Crowds(cost[w])
<1> DEFINE k == cost[w]
<1>1. /\ LeaseMillis \in Nat \ {0} /\ ShortestWait \in Nat \ {0} /\ LongestWait \in Nat
      /\ ShortestWait <= LongestWait /\ LongestWait < LeaseMillis
      /\ k \in Nat /\ k <= HardCap /\ HardCap \in Nat
      /\ since[w] \in Nat /\ since[w] + LeaseMillis <= OwedFrom(w) /\ OwedFrom(w) \in Nat
      /\ FillsBy(w) \in Nat /\ OwedFrom(w) <= FillsBy(w)
      /\ AsksBy(w) \in Int /\ AsksBy(w) = FillsBy(w) + LongestWait - 1
      /\ Spell \in Nat \ {0} /\ Spell = LeaseMillis + ShortestWait - 1
      /\ Crowd(k) \in Nat \ {0} /\ Excess(k) \in Nat \ {0}
      /\ Crowds(k) \in Nat /\ Spell * Crowds(k) \in Nat
  BY FavouredLimits
<1>2. /\ now \in Nat /\ now \in Instants /\ askAt'[w] \in Nat /\ askAt'[w] <= now + LongestWait
      /\ now <= askAt[w] /\ askAt[w] \in Nat
  BY AskSetsTimer, TimeIsRead DEF Favoured, PaceInv, TypeOK, TimedTypeOK
<1>3. CASE now < FillsBy(w)
  <2>1. askAt'[w] <= AsksBy(w)
    BY <1>1, <1>2, <1>3
  <2> QED BY <1>1, <1>2, <2>1
<1>4. CASE FillsBy(w) <= now
  <2>1. LeaseMillis * k <= Refilled /\ askAt'[w] = now + ShortestWait /\ CrowdedOut(k, now)
    BY <1>4, AskCrowded
  <2>2. \A s \in AsksBy(w)..(askAt[w] - 1) : CrowdedAt(k, s)
    BY DEF FavouredInv, CrowdInv
  <2>3. ASSUME NEW s \in AsksBy(w)..(askAt'[w] - 1)
        PROVE  CrowdedAt(k, s)
    <3>1. s \in Int /\ AsksBy(w) <= s /\ s < now + ShortestWait
      BY <1>1, <1>2, <2>1
    <3>2. CASE s < now
      BY <1>1, <1>2, <2>2, <3>1, <3>2
    <3>3. CASE now <= s
      <4>1. LeaseMillis <= now
        BY TimeIsRead
      <4> QED BY <1>2, <2>1, <3>1, <3>3, <4>1 DEF CrowdedAt
    <3> QED BY <1>2, <3>1, <3>2, <3>3
  <2>4. askAt'[w] <= AsksBy(w) + Spell * Crowds(k)
    <3> SUFFICES ASSUME askAt'[w] > AsksBy(w) + Spell * Crowds(k)
                 PROVE  FALSE
      BY <1>1, <1>2
    <3> DEFINE from == AsksBy(w) - Spell
               n == Crowds(k) + 1
    <3>1. from \in Nat /\ from <= now /\ from + Spell = AsksBy(w)
      BY <1>1, <1>2, <1>4
    <3>2. n \in Nat /\ n * Spell = Spell * Crowds(k) + Spell
      BY <1>1
    <3>3. from + n * Spell = AsksBy(w) + Spell * Crowds(k)
      <4> HIDE DEF n
      <4> QED BY <1>1, <3>2
    <3>4. now <= from + n * Spell
      <4>1. askAt[w] <= AsksBy(w) + Spell * Crowds(k)
        BY DEF FavouredInv
      <4> QED BY <1>1, <1>2, <3>3, <4>1
    <3>5. issued[now] - issued[from] >= n * Crowd(k)
      <4>1. \A s \in (from + Spell)..(askAt'[w] - 1) : CrowdedAt(k, s)
        BY <2>3, <3>1
      <4>2. from + n * Spell < askAt'[w]
        BY <1>1, <1>2, <3>3
      <4> HIDE DEF from, n
      <4> QED BY <1>1, <1>2, <3>1, <3>2, <4>1, <4>2, CrowdsAddUp
    <3> HIDE DEF from
    <3> QED BY <1>1, <2>1, <3>1, <3>4, <3>5, CrowdsRunOut
  <2> QED BY <2>3, <2>4
<1> QED BY <1>1, <1>2, <1>3, <1>4

\* Every step keeps the favoured worker's share, and its next ask near.
LEMMA FavouredStep ==
    ASSUME TypeOK, RecordInv, TimeInv, TimedTypeOK, PaceInv, HolderInv, StoredInv, PoliteInv,
           FavouredInv, TypeOK', RecordInv', TimeInv', TimedTypeOK', [TimedNext]_timedVars
    PROVE  FavouredInv'
<1> DEFINE Near(w) == /\ level' >= Lesser(LeaseMillis * cost'[w], Floor * (filled' - OwedFrom(w)'))
                      /\ \A s \in AsksBy(w)'..(askAt'[w] - 1) : CrowdedThen(cost'[w], s)
                      /\ askAt'[w] <= AsksBy(w)' + Spell * Crowds(cost'[w])
<1> SUFFICES ASSUME NEW w \in Worker, Favoured(w)'
             PROVE  Near(w)
  BY DEF FavouredInv, Filled, CrowdInv, CrowdedAt, CrowdedOut, CrowdedThen,
         Spell, Crowds, Excess, Crowd, Lesser
<1>1. phase'[w] = "waiting"
  BY DEF Favoured
<1>2. /\ now \in Nat /\ now' \in Nat /\ now <= now' /\ filled \in Nat /\ filled <= now
      /\ LeaseMillis \in Nat \ {0} /\ Floor \in Nat
      /\ [Next]_vars
  BY TimeIsRead, StepGrows, TimedStep DEF TimeInv
<1>3. /\ OwedFrom(w)' = Greater(since'[w] + LeaseMillis, quiet')
      /\ AsksBy(w)' = OwedFrom(w)' + CeilDiv(LeaseMillis * cost'[w], Floor) + LongestWait - 1
  BY DEF AsksBy, FillsBy, OwedFrom, Greater, CeilDiv
<1>4. ASSUME phase[w] = "waiting", cost'[w] = cost[w]
      PROVE  Favoured(w)
  BY <1>4 DEF Favoured, Crowd
<1>5. CASE TimedBegin(w) /\ since'[w] = now /\ askAt'[w] = now
  <2>1. UNCHANGED <<now, level, filled>>
    BY <1>5 DEF TimedBegin, Begin, clocks, issuance
  <2> DEFINE k == cost'[w]
             from == OwedFrom(w)'
             fill == CeilDiv(LeaseMillis * k, Floor)
  <2>2. k \in Nat /\ LeaseMillis * k \in Nat /\ level' \in Nat /\ LongestWait \in Nat \ {0}
    BY <1>2, WaitAssumption DEF TypeOK
  <2>3. fill \in Nat
    BY <1>2, <2>2, CeilEnough, LimitAssumption
  <2>4. from \in Nat /\ now + LeaseMillis <= from
    <3>1. quiet' \in Nat
      BY DEF TypeOK
    <3> QED BY <1>2, <1>3, <1>5, <3>1 DEF Greater
  <2>5. AsksBy(w)' = from + fill + LongestWait - 1
    BY <1>3
  <2>6. Spell * Crowds(k) \in Nat
    <3>1. Crowd(k) \in Nat /\ Spell \in Nat \ {0} /\ HardCap - k \in Nat /\ Excess(k) \in Nat \ {0}
      <4>1. k <= HardCap /\ LeaseMillis * Crowd(k) > Target * Spell
        BY <2>2, LimitAssumption DEF Favoured, Spell, Crowd
      <4>2. Crowd(k) \in Nat /\ Spell \in Nat \ {0} /\ HardCap - k \in Nat
        BY <1>2, <2>2, <4>1, LimitAssumption, WaitAssumption DEF Crowd, Spell
      <4>3. LeaseMillis * Crowd(k) \in Nat /\ Target * Spell \in Nat
        BY <1>2, <4>2, LimitAssumption
      <4> QED BY <4>1, <4>2, <4>3 DEF Excess
    <3>2. LeaseMillis * (HardCap - k) \in Nat
      BY <1>2, <3>1
    <3>3. \A n \in Nat, d \in Nat \ {0} : n \div d \in Nat
      OBVIOUS
    <3>4. Crowds(k) \in Nat
      BY <3>1, <3>2, <3>3 DEF Crowds
    <3> QED BY <3>1, <3>4
  <2>7. level' >= Lesser(LeaseMillis * k, Floor * (filled' - from))
    <3>1. Floor * (from - filled') \in Nat /\ Floor * (filled' - from) = -(Floor * (from - filled'))
      BY <1>2, <2>1, <2>4
    <3> HIDE DEF k, from
    <3> QED BY <2>2, <3>1 DEF Lesser
  <2>8. askAt'[w] <= AsksBy(w)' /\ AsksBy(w)' \in Int
    <3> HIDE DEF k, from, fill
    <3> QED BY <1>2, <1>5, <2>2, <2>3, <2>4, <2>5
  <2>9. AsksBy(w)'..(askAt'[w] - 1) = {}
    BY <1>2, <1>5, <2>8
  <2> QED BY <1>2, <1>5, <2>6, <2>7, <2>8, <2>9
<1>6. CASE TimedWait(w) /\ phase[w] = "waiting" /\ UNCHANGED <<cost[w], since[w]>>
  <2>1. UNCHANGED <<now, issued, quiet>> /\ level' = Refilled /\ filled' = now
    BY <1>6, AskSetsTimer DEF TimedWait, Wait, StoreAsk, clocks
  <2>2. Favoured(w)
    BY <1>4, <1>6
  <2>3. OwedFrom(w)' = OwedFrom(w) /\ AsksBy(w)' = AsksBy(w)
    BY <1>6, <2>1 DEF AsksBy, FillsBy, OwedFrom
  <2>4. level' >= Lesser(LeaseMillis * cost[w], Floor * (filled' - OwedFrom(w)))
    <3>1. cost[w] \in Nat /\ cost[w] <= HardCap /\ OwedFrom(w) \in Nat /\ quiet <= OwedFrom(w)
      BY <2>2, FavouredLimits
    <3> QED BY <2>1, <2>2, <3>1, FillsOn DEF FavouredInv
  <2>5. /\ \A s \in AsksBy(w)..(askAt'[w] - 1) : CrowdedAt(cost[w], s)
        /\ askAt'[w] <= AsksBy(w) + Spell * Crowds(cost[w])
    BY <1>6, <2>2, AskIsNear
  <2>6. ASSUME NEW s, CrowdedAt(cost[w], s)
        PROVE  CrowdedThen(cost'[w], s)
    BY <1>6, <2>1, <2>6 DEF CrowdedAt, CrowdedOut, CrowdedThen
  <2> QED BY <1>6, <2>3, <2>4, <2>5, <2>6
<1>7. CASE Stays(w) /\ (TimedTick \/ UNCHANGED timedVars \/ OtherActs(w))
  <2>1. UNCHANGED <<cost[w], askAt[w], since[w]>> /\ phase[w] = "waiting"
    BY <1>7 DEF Stays
  <2>2. Favoured(w)
    BY <1>4, <2>1
  <2>3. BucketSteps(w) /\ quiet' >= quiet
    BY <1>7, OtherBucketStep
  <2> DEFINE k == cost[w]
             from == OwedFrom(w)
             from1 == OwedFrom(w)'
  <2>4. /\ k \in Nat /\ LeaseMillis * k \in Nat /\ since[w] \in Nat /\ askAt[w] \in Nat
        /\ quiet \in Nat /\ from \in Nat /\ AsksBy(w) \in Int /\ LongestWait \in Nat
        /\ Spell * Crowds(k) \in Nat
    BY <2>2, FavouredLimits
  <2>5. /\ from1 \in Nat /\ from <= from1
        /\ AsksBy(w)' \in Int /\ AsksBy(w) <= AsksBy(w)'
    <3>1. quiet' \in Nat /\ from = Greater(since[w] + LeaseMillis, quiet)
      BY DEF TypeOK, OwedFrom
    <3>2. from1 \in Nat /\ from <= from1
      BY <1>2, <1>3, <2>1, <2>3, <2>4, <3>1 DEF Greater
    <3>3. AsksBy(w)' = from1 + CeilDiv(LeaseMillis * k, Floor) + LongestWait - 1
          /\ AsksBy(w) = from + CeilDiv(LeaseMillis * k, Floor) + LongestWait - 1
      BY <1>3, <2>1 DEF AsksBy, FillsBy
    <3>4. CeilDiv(LeaseMillis * k, Floor) \in Nat
      BY <2>4, CeilEnough, LimitAssumption
    <3> HIDE DEF from, from1, k
    <3> QED BY <2>4, <3>2, <3>3, <3>4
  <2>6. level' >= Lesser(LeaseMillis * k, Floor * (filled' - from1))
    <3>1. level' >= Lesser(LeaseMillis * k, Floor * (filled' - from))
      BY <2>2, <2>3, ShareStays DEF FavouredInv
    <3>2. filled' \in Nat /\ level' \in Nat
      BY DEF TypeOK, Instants
    <3>3. Floor * (filled' - from) = Floor * (filled' - from1) + Floor * (from1 - from)
      BY <1>2, <2>4, <2>5, <3>2, Distribute
    <3>4. Floor * (from1 - from) \in Nat /\ Floor * (filled' - from1) \in Int
      BY <1>2, <2>4, <2>5, <3>2
    <3> HIDE DEF from, from1, k
    <3> QED BY <2>4, <3>1, <3>2, <3>3, <3>4 DEF Lesser
  <2>7. ASSUME NEW s \in AsksBy(w)'..(askAt'[w] - 1)
        PROVE  CrowdedThen(cost'[w], s)
    <3>1. s \in AsksBy(w)..(askAt[w] - 1) /\ s \in Int
      BY <2>1, <2>4, <2>5
    <3>2. CrowdedAt(k, s)
      BY <2>2, <3>1 DEF FavouredInv, CrowdInv
    <3>3. CrowdedThen(k, s)
      <4> HIDE DEF k
      <4> QED BY <1>2, <2>4, <3>1, <3>2, CrowdStays
    <3> QED BY <2>1, <3>3
  <2>8. askAt'[w] <= AsksBy(w)' + Spell * Crowds(cost'[w])
    <3>1. askAt[w] <= AsksBy(w) + Spell * Crowds(k)
      BY <2>2 DEF FavouredInv
    <3> HIDE DEF k
    <3>2. cost'[w] = k
      BY <2>1 DEF k
    <3> QED BY <2>1, <2>4, <2>5, <3>1, <3>2
  <2> QED BY <2>1, <2>6, <2>7, <2>8
<1> QED BY <1>1, <1>5, <1>6, <1>7, WaiterSees

\* A favoured worker's timer has not passed.
LEMMA FavouredIsBrief ==
    ASSUME TypeOK, RecordInv, TimeInv, TimedTypeOK, PaceInv, FavouredInv
    PROVE  InteractiveWaitsBriefly
<1> SUFFICES ASSUME NEW w \in Worker, Favoured(w)
             PROVE  Waited(w) <= InteractiveBound(cost[w])
  BY DEF InteractiveWaitsBriefly
<1> DEFINE k == cost[w]
           fill == CeilDiv(LeaseMillis * k, Floor)
           start == Greater(since[w], quiet)
<1>1. /\ LeaseMillis \in Nat \ {0} /\ since[w] \in Nat /\ quiet \in Nat /\ askAt[w] \in Nat
      /\ AsksBy(w) \in Int /\ Spell * Crowds(k) \in Nat /\ LongestWait \in Nat
      /\ k \in Nat /\ LeaseMillis * k \in Nat /\ Floor \in Nat \ {0}
  BY FavouredLimits
<1>2. now \in Nat /\ now <= askAt[w] /\ askAt[w] <= AsksBy(w) + Spell * Crowds(k)
  BY TimeIsRead DEF PaceInv, FavouredInv, Favoured
<1>3. fill \in Nat
  BY <1>1, CeilEnough
<1>4. AsksBy(w) = OwedFrom(w) + fill + LongestWait - 1
  BY DEF AsksBy, FillsBy
<1>5. OwedFrom(w) \in Nat /\ start \in Nat /\ OwedFrom(w) <= start + LeaseMillis
  BY <1>1 DEF OwedFrom, Greater
<1>6. InteractiveBound(k) = LeaseMillis + fill + LongestWait - 1 + Spell * Crowds(k)
  BY DEF InteractiveBound, Crowds, Excess
<1>7. Waited(w) = now - start
  BY DEF Waited, Favoured
<1> HIDE DEF k, fill, start
<1>8. Waited(w) <= InteractiveBound(k)
  BY <1>1, <1>2, <1>3, <1>4, <1>5, <1>6, <1>7
<1> QED BY <1>8 DEF k

-----------------------------------------------------------------------------
(* The theorems about waits.                                                *)

\* Nothing is asked, granted or waited for at the start.
LEMMA TimedInitSound ==
    TimedInit => /\ TimeInv /\ TimedTypeOK /\ PaceInv /\ AskerInv /\ HolderInv /\ StoredInv
                 /\ LoneInv /\ FavouredInv
<1> SUFFICES ASSUME TimedInit
             PROVE  /\ TimeInv /\ TimedTypeOK /\ PaceInv /\ AskerInv /\ HolderInv /\ StoredInv
                    /\ LoneInv /\ FavouredInv
  OBVIOUS
<1>1. Init /\ phase = [w \in Worker |-> "idle"] /\ grants = {} /\ issued = [i \in Instants |-> 0]
  BY DEF TimedInit, Init
<1>2. TimeInv
  BY <1>1, ClockAssumption, LimitAssumption DEF Init, TimeInv
<1>3. TimedTypeOK /\ PaceInv
  BY <1>1, ClockAssumption DEF TimedInit, Init, TimedTypeOK, PaceInv
<1>4. AskerInv /\ HolderInv
  BY <1>1 DEF Init, AskerInv, HolderInv
<1>5. StoredInv
  <2>1. now \in Instants
    BY <1>1, ClockAssumption DEF Init, Instants
  <2>2. ASSUME NEW t \in Instants
        PROVE  Tokens({g \in grants : g.at > t}) <= issued[now] - issued[t]
    <3>1. {g \in grants : g.at > t} = {}
      BY <1>1
    <3>2. Tokens({}) = 0
      BY FS_EmptySet DEF Tokens, TokensOf
    <3>3. issued[now] = 0 /\ issued[t] = 0
      BY <1>1, <2>1
    <3> QED BY <3>1, <3>2, <3>3
  <2> QED BY <2>2 DEF StoredInv
<1>6. LoneInv /\ FavouredInv
  BY <1>1 DEF LoneInv, Lone, FavouredInv, Favoured
<1> QED BY <1>2, <1>3, <1>4, <1>5, <1>6

\* What the timed limiter keeps.
TimedInv == /\ TypeOK /\ RecordInv /\ PoliteInv
            /\ TimeInv /\ TimedTypeOK /\ PaceInv /\ AskerInv /\ HolderInv /\ StoredInv
            /\ LoneInv /\ FavouredInv

\* Every step of the timed limiter keeps them, whatever the workers, costs and limits
\* (core.Issue, lease.waitFor).
THEOREM TimedInvCorrect == TimedSpec => []TimedInv
<1>1. TimedInit => TimedInv
  BY InitSound, PoliteInit, TimedInitSound DEF TimedInit, TimedInv
<1>2. ASSUME TimedInv, [TimedNext]_timedVars
      PROVE  TimedInv'
  <2>1. /\ TypeOK /\ RecordInv /\ PoliteInv /\ TimeInv /\ TimedTypeOK /\ PaceInv
        /\ AskerInv /\ HolderInv /\ StoredInv /\ LoneInv /\ FavouredInv
    BY <1>2 DEF TimedInv
  <2>2. [Next]_vars /\ (Tick \/ UNCHANGED clocks)
    BY <1>2, TimedStep
  <2>3. TypeOK' /\ RecordInv'
    BY <2>1, <2>2, StepSound
  <2>4. PoliteInv'
    BY <2>1, <2>2, <2>3, PoliteStep
  <2>5. TimeInv'
    BY <2>1, <2>2, TimeStep
  <2>6. TimedTypeOK'
    <3>1. CASE TimedNext
      BY <2>1, <2>3, <3>1, TimedTypeStep
    <3>2. CASE UNCHANGED timedVars
      BY <2>1, <3>2 DEF timedVars, TimedTypeOK
    <3> QED BY <1>2, <3>1, <3>2
  <2>7. PaceInv'
    BY <1>2, <2>1, <2>3, <2>6, PaceStep
  <2>8. AskerInv' /\ HolderInv'
    BY <1>2, <2>1, AskerStep, HolderStep
  <2>9. StoredInv'
    BY <2>1, <2>2, <2>3, <2>5, StoredStep
  <2>10. LoneInv'
    BY <1>2, <2>1, <2>3, <2>5, <2>6, <2>7, LoneStep
  <2>11. FavouredInv'
    BY <1>2, <2>1, <2>3, <2>5, <2>6, FavouredStep
  <2> QED BY <2>3, <2>4, <2>5, <2>6, <2>7, <2>8, <2>9, <2>10, <2>11 DEF TimedInv
<1> QED BY <1>1, <1>2, PTL DEF TimedSpec

\* A worker with the account to itself is granted any call the hard cap admits within a
\* second, or a refill at the floor's rate, and one wait between asks (core.refill's
\* capacity, lease.waitFor).
THEOREM LoneWaitCorrect == TimedSpec => []LoneWaitBounded
<1>1. TimedInv => LoneWaitBounded
  BY LoneIsBrief DEF TimedInv
<1> QED BY <1>1, TimedInvCorrect, PTL

\* The interactive class's only worker is granted a call within its share in a bounded
\* time, however much the other workers ask for and whatever the controller does
\* (core.Issue's reservations, lease.waitFor).
THEOREM InteractiveWaitCorrect == TimedSpec => []InteractiveWaitsBriefly
<1>1. TimedInv => InteractiveWaitsBriefly
  BY FavouredIsBrief DEF TimedInv
<1> QED BY <1>1, TimedInvCorrect, PTL

\* From when its own last lease is spent and the bucket has had time to fill at the
\* floor, the bucket holds what the favoured worker asks for.
ShareKept ==
    \A w \in Worker : Favoured(w) /\ FillsBy(w) <= now => LeaseMillis * cost[w] <= Refilled

\* However much sync and batch are granted beside it, and at every rate the controller
\* goes to, they leave the interactive class its share (core.Issue's reservations).
THEOREM ShareCorrect == TimedSpec => []ShareKept
<1>1. ASSUME TimedInv PROVE ShareKept
  <2> SUFFICES ASSUME NEW w \in Worker, Favoured(w), FillsBy(w) <= now
               PROVE  LeaseMillis * cost[w] <= Refilled
    BY DEF ShareKept
  <2>1. TypeOK /\ RecordInv /\ TimeInv /\ TimedTypeOK /\ FavouredInv
    BY <1>1 DEF TimedInv
  <2> QED BY <2>1, ShareFills
<1> QED BY <1>1, TimedInvCorrect, PTL

=============================================================================
