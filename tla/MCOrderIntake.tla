---------------------------- MODULE MCOrderIntake ----------------------------
(* Two customers share two connections; the first has two devices repaired,   *)
(* and may submit again when an attempt fails or is lost.                    *)
EXTENDS OrderIntake, TLC

CONSTANTS c1, c2, r1, r2, a1

Attempts == (c1 :> {r1, r2}) @@ (c2 :> {r2})
Lines == (c1 :> {1, 2}) @@ (c2 :> {1})
=============================================================================
