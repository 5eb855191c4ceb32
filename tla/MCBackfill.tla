----------------------------- MODULE MCBackfill -----------------------------
(* Instances of Backfill for TLC. *)
EXTENDS Backfill

\* Both messages are a mailing list's, the second the newer.
MCSentAt == [m \in Message |-> m]
MCSenderOf == [m \in Message |-> "list"]

\* Each release's scanner finds something in one of them only, in its subject and
\* in its body, and one bound refuses the second's body.  Under the first mark both
\* together are much mail, under the second one is.
MCRelease == {[scanner |-> 1, bound |-> 1, high |-> 1], [scanner |-> 2, bound |-> 2, high |-> 0]}
MCFlags == {<<1, 1>>, <<2, 2>>}
MCMasks == MCFlags
MCTooLarge == {<<1, 2>>}
=============================================================================
