------------------------------ MODULE MCOutbox ------------------------------
(* Small instances of Outbox for TLC. *)
EXTENDS Outbox

CONSTANTS w1, w2, w3

TwoEvents == {1, 2}
FirstIsEmail == {1}
=============================================================================
