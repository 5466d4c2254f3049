----------------------------- MODULE MCCheckout -----------------------------
(* Small instances of Checkout for TLC. *)
EXTENDS Checkout, TLC

CONSTANTS u1, c1, c2, i1, i2, r1, r2, r3, r4, r5

(* Carts, items and requests differ only by name. *)
Names == Permutations(Cart) \cup Permutations(Item) \cup Permutations(Request)
=============================================================================
