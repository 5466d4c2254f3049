------------------------------- MODULE MCSeed -------------------------------
(* The whole seed, two runs of it, the staff at work on one brand. *)
EXTENDS Seed
=============================================================================
