--------------------------- MODULE StoredCredential ---------------------------
(***************************************************************************)
(* What an account's row promises about its credential, whichever processes   *)
(* write it: only the operator replaces the grant, with its client, and the   *)
(* grant never goes back; a process's write keeps the grant and the client,   *)
(* changing the rotation it holds or the key it is sealed to.                 *)
(***************************************************************************)
EXTENDS Naturals

CONSTANTS Grant, Client, Rotation, Key

VARIABLES client, token, key

vars == <<client, token, key>>

Init == client = 0 /\ token = [grant |-> 0, rotation |-> 0] /\ key = 0

Connect ==
    /\ client' \in Client
    /\ token' \in [grant : {g \in Grant : g > token.grant}, rotation : Rotation]
    /\ key' \in Key

WriteBack ==
    /\ token.grant > 0
    /\ token' \in [grant : {token.grant}, rotation : Rotation \ {token.rotation}]
    /\ key' \in Key
    /\ UNCHANGED client

Reseal ==
    /\ token.grant > 0
    /\ key' \in Key \ {key}
    /\ UNCHANGED <<client, token>>

Next == Connect \/ WriteBack \/ Reseal

Spec == Init /\ [][Next]_vars

=============================================================================
