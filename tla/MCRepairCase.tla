---------------------------- MODULE MCRepairCase ----------------------------
(* Small instances of RepairCase for TLC. *)
EXTENDS RepairCase

CONSTANTS sA, sB, sC,    \* statuses
          r1, r2, r3     \* requests

(* A matrix with a choice and a loop, like DIAGNOSING and IN_REPAIR have. *)
ChoiceAndLoop == {<<sA, sB>>, <<sA, sC>>, <<sB, sC>>, <<sC, sB>>}
=============================================================================
