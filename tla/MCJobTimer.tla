------------------------------ MODULE MCJobTimer ------------------------------
(***************************************************************************)
(* An interval of four instants, backoffs of one, two, four and six, so      *)
(* one ends inside the interval it began in, at its end or after it, and     *)
(* runs that outlast several intervals.                                     *)
(***************************************************************************)
EXTENDS JobTimer
=============================================================================
