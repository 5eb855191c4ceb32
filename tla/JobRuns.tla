------------------------------- MODULE JobRuns -------------------------------
(***************************************************************************)
(* What the scheduler promises of the runs of jobs, with none of its loops,  *)
(* locks or calls: which jobs are ensured, the runs under way and their     *)
(* jobs, and whether Stop has returned.                                    *)
(***************************************************************************)
EXTENDS Naturals, FiniteSets

CONSTANTS Key, KindOf, SlotsOf, Limited, Run

VARIABLES ensured, running, stopped

vars == <<ensured, running, stopped>>

Init == ensured = {} /\ running = {} /\ stopped = FALSE

Ensure(k) ==
    /\ ensured' = ensured \cup {k}
    /\ UNCHANGED <<running, stopped>>

RunsOf(k) == {r \in running : r.key = k}

\* A job is gone only once it has no run, and has none until it is ensured again.
Remove(k) ==
    /\ RunsOf(k) = {}
    /\ ensured' = ensured \ {k}
    /\ UNCHANGED <<running, stopped>>

\* The runs of the limited jobs of k's kind.
Beside(k) == {r \in running : r.key \in Limited /\ KindOf[r.key] = KindOf[k]}

\* One run of a job at a time, and of a kind's limited jobs as many as it has slots.
Start(k) ==
    /\ k \in ensured /\ RunsOf(k) = {}
    /\ k \in Limited => Cardinality(Beside(k)) < SlotsOf[KindOf[k]]
    /\ \E n \in Run : running' = running \cup {[run |-> n, key |-> k]}
    /\ UNCHANGED <<ensured, stopped>>

Finish ==
    /\ \E r \in running : running' = running \ {r}
    /\ UNCHANGED <<ensured, stopped>>

\* Stop returns when every run has ended. Nothing is ensured or started after it.
Stop ==
    /\ running = {}
    /\ stopped' = TRUE
    /\ UNCHANGED <<ensured, running>>

Next ==
    /\ ~stopped
    /\ \/ \E k \in Key : Ensure(k) \/ Remove(k) \/ Start(k)
       \/ Finish \/ Stop

Spec == Init /\ [][Next]_vars

=============================================================================
