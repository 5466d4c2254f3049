----------------------------- MODULE CartPromise -----------------------------
(***************************************************************************)
(* What a customer is promised (order.service.ts, createOrder): a cart      *)
(* becomes at most one order, for good, and whoever submits it is told that *)
(* order, however often and however concurrently it is submitted.           *)
(***************************************************************************)
CONSTANTS Cart, Request, None

VARIABLES
    orderOf,   \* orderOf[c]: the order cart c became, named by the request that placed it
    answer     \* answer[r]: the order request r was told

vars == <<orderOf, answer>>

Init == orderOf = [c \in Cart |-> None] /\ answer = [r \in Request |-> None]

Place(c, r) ==
    /\ orderOf[c] = None
    /\ \A d \in Cart : orderOf[d] # r
    /\ orderOf' = [orderOf EXCEPT ![c] = r]
    /\ UNCHANGED answer

Tell(c, r) ==
    /\ orderOf[c] # None
    /\ answer[r] = None
    /\ answer' = [answer EXCEPT ![r] = orderOf[c]]
    /\ UNCHANGED orderOf

Next == \E c \in Cart, r \in Request : Place(c, r) \/ Tell(c, r)

Spec == Init /\ [][Next]_vars
=============================================================================
