---------------------------- MODULE MCRepairDesk ----------------------------
(* Two members of the staff, technicians or administrators, two overlapping requests. *)
EXTENDS RepairDesk, TLC

CONSTANTS s1, s2, r1, r2

MCAppointment == {{"TECHNICIAN"}, {"ADMIN"}}

(* No guard and neither of the invariants of the passing run reads the rest. *)
Guarded == <<accounts, label, revoked, serving, dead>>

DeskSymmetry == Permutations({s1, s2}) \cup Permutations({r1, r2})
=============================================================================
