---------------------------- MODULE MCCredentials ----------------------------
EXTENDS Credentials

CONSTANTS api, worker, ui, a1, w1, w2

MCAt == [u \in Unit |-> IF u = a1 THEN api ELSE worker]
MCClientOf == [g \in 1..3 |-> IF g = 2 THEN 2 ELSE 1]

=============================================================================
