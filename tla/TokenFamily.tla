------------------------------ MODULE TokenFamily ------------------------------
(***************************************************************************)
(* What the rotation of refresh tokens promises (docs/adr/ADR-014): a login *)
(* opens a family in which one token is good at a time.  Rotation hands it  *)
(* to a token never issued before, and a family that has ended never comes  *)
(* back.                                                                    *)
(***************************************************************************)
CONSTANTS Session, None

VARIABLES
    good,      \* good[f]: the session of family f whose token is accepted, or None
    issued     \* the sessions created so far; a family is named by its first one

vars == <<good, issued>>

Init == good = [f \in Session |-> None] /\ issued = {}

Open(s) ==
    /\ s \notin issued
    /\ good' = [good EXCEPT ![s] = s]
    /\ issued' = issued \cup {s}

Rotate(f, s) ==
    /\ good[f] # None
    /\ s \notin issued
    /\ good' = [good EXCEPT ![f] = s]
    /\ issued' = issued \cup {s}

End(families) ==
    /\ good' = [f \in Session |-> IF f \in families THEN None ELSE good[f]]
    /\ UNCHANGED issued

Next ==
    \/ \E s \in Session : Open(s)
    \/ \E f, s \in Session : Rotate(f, s)
    \/ \E families \in SUBSET Session : End(families)

Spec == Init /\ [][Next]_vars
=============================================================================
