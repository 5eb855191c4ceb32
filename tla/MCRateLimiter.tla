--------------------------- MODULE MCRateLimiter ---------------------------
(* Small instances of RateLimiter for model checking.                     *)
EXTENDS RateLimiter

CONSTANTS api, fill

MCWorker == {api, fill}
MCClassOf == [w \in MCWorker |-> IF w = api THEN Interactive ELSE Batch]
MCCostsOf == [w \in MCWorker |-> IF w = api THEN {2} ELSE {5, 9}]

=============================================================================
