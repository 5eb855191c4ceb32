----------------------------- MODULE MCScheduler -----------------------------
(***************************************************************************)
(* Jobs of one kind, some of them limited to one run at once between them   *)
(* and one not, and so few loops that every chain of a removal and an       *)
(* ensure that overtakes it still happens.  The unlimited one is needed: two *)
(* loops that share the limit's one slot could never run at once.           *)
(***************************************************************************)
EXTENDS Scheduler, TLC

CONSTANTS k1, k2, d1, c1, c2

MCKindOf == [k \in Key |-> d1]
MCSlotsOf == d1 :> 1

\* The limited keys differ in nothing, and the callers never do.
MCSymmetry == Permutations({k1, k2}) \cup Permutations({c1, c2})

=============================================================================
