------------------------------ MODULE MCIdentity ------------------------------
(* One account, and requests enough for a login, two refreshes and one more. *)
EXTENDS Identity
CONSTANTS u1, r1, r2, r3, r4, r5
=============================================================================
