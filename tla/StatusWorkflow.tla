--------------------------- MODULE StatusWorkflow ---------------------------
(***************************************************************************)
(* What the repair workshop relies on (ADR-021): a repair case is a walk   *)
(* in the matrix of allowed transitions, one indivisible move at a time,   *)
(* and every move is announced once.                                       *)
(***************************************************************************)
EXTENDS Naturals, Sequences

CONSTANTS Case, StatusKey, Transition, FirstStatus, NoStatus

VARIABLES
    path,       \* path[c]: the statuses of case c so far, <<>> before it exists
    announced   \* announced[c]: the creation and the moves of c others are told of

vars == <<path, announced>>

Init == path = [c \in Case |-> <<>>] /\ announced = [c \in Case |-> <<>>]

Open(c) ==
    /\ path[c] = <<>>
    /\ path' = [path EXCEPT ![c] = <<FirstStatus>>]
    /\ announced' = [announced EXCEPT ![c] = <<<<NoStatus, FirstStatus>>>>]

Move(c, to) ==
    LET from == path[c][Len(path[c])]
    IN  /\ path[c] # <<>>
        /\ <<from, to>> \in Transition
        /\ path' = [path EXCEPT ![c] = Append(@, to)]
        /\ announced' = [announced EXCEPT ![c] = Append(@, <<from, to>>)]

Next == \E c \in Case : Open(c) \/ \E to \in StatusKey : Move(c, to)

Spec == Init /\ [][Next]_vars
=============================================================================
