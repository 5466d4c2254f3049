---------------------------- MODULE EventDelivery ----------------------------
(***************************************************************************)
(* What the outbox promises to the code that appends events (ADR-006):     *)
(* at-least-once delivery.  An appended event may be delivered any number  *)
(* of times, even after it is settled; it is settled once, as done only if *)
(* it has been delivered, or as given up.                                  *)
(***************************************************************************)
CONSTANT Event

VARIABLES
    open,        \* appended, not yet settled
    delivered,   \* delivered at least once
    done,        \* settled as delivered
    givenUp      \* settled without a promise

vars == <<open, delivered, done, givenUp>>

Init == open = {} /\ delivered = {} /\ done = {} /\ givenUp = {}

Known == open \cup done \cup givenUp

Append(e) ==
    /\ e \notin Known
    /\ open' = open \cup {e}
    /\ UNCHANGED <<delivered, done, givenUp>>

Deliver(e) ==
    /\ e \in Known
    /\ delivered' = delivered \cup {e}
    /\ UNCHANGED <<open, done, givenUp>>

Settle(e) ==
    /\ e \in open \cap delivered
    /\ open' = open \ {e}
    /\ done' = done \cup {e}
    /\ UNCHANGED <<delivered, givenUp>>

GiveUp(e) ==
    /\ e \in open
    /\ open' = open \ {e}
    /\ givenUp' = givenUp \cup {e}
    /\ UNCHANGED <<delivered, done>>

Next == \E e \in Event : Append(e) \/ Deliver(e) \/ Settle(e) \/ GiveUp(e)

Spec == Init /\ [][Next]_vars
=============================================================================
