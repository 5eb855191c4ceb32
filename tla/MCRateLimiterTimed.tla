------------------------- MODULE MCRateLimiterTimed -------------------------
(* Small instances of RateLimiterTimed for model checking: a worker of a   *)
(* higher class beside a batch worker, either of them alone at times.      *)
EXTENDS RateLimiterTimed

CONSTANTS api, fill

ReservedWorker == {api, fill}
ReservedClassOf == [w \in ReservedWorker |-> IF w = api THEN Interactive ELSE Batch]

\* An interactive call the size of its share, and batch calls from less than what
\* is left to the hard cap and past it.
ReservedCostsOf == [w \in ReservedWorker |->
                      IF w = api THEN {2} ELSE {1, 3, HardCap, HardCap + 1}]

(***************************************************************************)
(* Two states that differ only in how long ago everything happened, or in  *)
(* instants too old to matter, have the same futures: no rule reads an      *)
(* instant but against the clock, which here is never set back.  Counting   *)
(* them once lets the runs follow the workers for any length of time.       *)
(***************************************************************************)
Age(i, oldest) == Lesser(now - i, oldest)

AgeView ==
    <<phase, cost, rate, throttles, level,
      Age(filled, Capacity \div Floor + 1),
      Age(Greater(backoff, filled), Capacity \div Floor + 1),
      [c \in Class |-> Age(asked[c], LeaseMillis)],
      [c \in Class |-> [a \in 0..LeaseMillis - 1 |->
          Tokens({g \in grants : g.class = c /\ g.at = now - a})]],
      [w \in Worker |-> IF phase[w] = "waiting"
                        THEN <<askAt[w] - now, now - Greater(since[w], quiet)>>
                        ELSE <<>>],
      [w \in Worker |-> Age(left[w], LeaseMillis)],
      [w \in Worker |-> IF Lone(w) THEN now - LoneFrom(w) ELSE 0]>>

=============================================================================
