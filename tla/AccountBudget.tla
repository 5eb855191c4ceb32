---------------------------- MODULE AccountBudget ----------------------------
(***************************************************************************)
(* What the rate limiter promises the provider of an account, whoever      *)
(* spends through it, in real time and with none of the limiter's state:   *)
(* what has been spent up to each instant, and until when the longest wait *)
(* a throttle asked for lasts.  A clock that was set back is past keeping  *)
(* the wait, and is so for good; the two bounds on spending it still keeps.  *)
(***************************************************************************)
EXTENDS Integers

CONSTANTS LeaseMillis, Target, HardCap, FirstInstant, MaxNow

VARIABLES now, setBack, spent, quiet

vars == <<now, setBack, spent, quiet>>

Instants == 0..MaxNow

\* No second passes the hard cap, and no stretch of time the target over its length
\* by more than a second's worth at the hard cap.
InBudget ==
    /\ spent[now] - spent[now - LeaseMillis] <= HardCap
    /\ \A t \in Instants : t <= now =>
          LeaseMillis * (spent[now] - spent[t]) <= Target * (now - t) + HardCap * LeaseMillis

Init ==
    /\ now = FirstInstant /\ setBack = FALSE /\ quiet = 0
    /\ spent = [i \in Instants |-> 0]

Pass ==
    /\ now < MaxNow
    /\ now' = now + 1
    /\ UNCHANGED <<setBack, spent, quiet>>

SetBack ==
    /\ setBack' = TRUE
    /\ UNCHANGED <<now, spent, quiet>>

\* A throttle asks for a longer wait than the last. None is ever cut short.
AskForQuiet ==
    /\ quiet' \in Nat /\ quiet' > quiet /\ quiet' >= now
    /\ UNCHANGED <<now, setBack, spent>>

Spend ==
    /\ now >= quiet \/ setBack
    /\ \E k \in 1..HardCap :
          spent' = [i \in Instants |-> IF i >= now THEN spent[i] + k ELSE spent[i]]
    /\ InBudget'
    /\ UNCHANGED <<now, setBack, quiet>>

Next == Pass \/ SetBack \/ AskForQuiet \/ Spend

Spec == Init /\ [][Next]_vars

=============================================================================
