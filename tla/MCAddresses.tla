----------------------------- MODULE MCAddresses -----------------------------
(* The page creates and deletes, another client creates and updates.          *)
EXTENDS Addresses, TLC
CONSTANTS a1, a2, a3, p1, p2, o1
Names == Permutations(Existing) \cup Permutations(Address \ Existing) \cup Permutations(OfPage)
=============================================================================
