---------------------------- MODULE MCBodyRelease ----------------------------
(* BodyRelease on a small instance. *)
EXTENDS BodyRelease, TLC

CONSTANTS s, m, r1, r2

MCAccountOf == m :> 2
MCSenderOf == m :> s
MCMessageOf == r1 :> m @@ r2 :> m
\* The account restricts the sender by a rule of its own.
MCFirst == {0 :> {} @@ 1 :> {} @@ 2 :> {s}}

=============================================================================
