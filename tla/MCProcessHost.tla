---------------------------- MODULE MCProcessHost ----------------------------
EXTENDS ProcessHost

CONSTANTS t1, t2, r1, r2, q1

=============================================================================
