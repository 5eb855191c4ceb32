----------------------------- MODULE MCDeltaSync -----------------------------
(***************************************************************************)
(* Two messages and three changes are enough for a message to come, change  *)
(* and go, or for one to come behind another in a feed read in part.  The   *)
(* clock needs one step past the overlap to tell the two instants apart, and *)
(* two where no drift of a date stands in for the second.                   *)
(***************************************************************************)
EXTENDS DeltaSync, TLC

CONSTANTS m1, m2

\* The messages differ in nothing when the search leaves neither out.
MCSymmetry == Permutations({m1, m2})

=============================================================================
