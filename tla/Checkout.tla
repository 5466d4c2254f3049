------------------------------- MODULE Checkout -------------------------------
(***************************************************************************)
(* Carts and their conversion to orders: apps/api/src/modules/orders,       *)
(* CartService and OrderService.                                            *)
(*                                                                         *)
(* A request is one execution of a route of the API.  It reads, checks what *)
(* it has read, and writes with later statements; between two statements    *)
(* any other request may commit.  PostgreSQL runs each statement of a       *)
(* transaction on what is committed when it starts (READ COMMITTED); a row  *)
(* written by an open transaction makes another writer of it wait, and      *)
(* compare its WHERE clause again.                                          *)
(*                                                                         *)
(* An order is named by the request whose transaction created it.  A guest  *)
(* token is named by the cart it was generated for.  Addresses, prices,     *)
(* companies and expiry only decide whether a request is refused, which     *)
(* Refuse does at any of its steps.                                         *)
(***************************************************************************)
EXTENDS Naturals, FiniteSets

CONSTANTS
    User,      \* accounts
    Guest,     \* owner of a cart protected by a guest token
    Cart,      \* rows of carts, existing or to come
    Item,      \* rows of cart_items, existing or to come
    Request,   \* executions of routes; a bound on the length of behaviours
    None       \* no order, no request

ASSUME NamesAssumption == Guest \notin User /\ None \notin Request

VARIABLES
    state,     \* state[c]: "absent", "live" or "deleted"
    owner,     \* owner[c]: carts.user_id, or Guest while the token hash is set
    orderOf,   \* orderOf[c]: carts.converted_to_order_id (converted_at is set with it)
    place,     \* place[i]: cart_items.cart_id, or "nowhere" before, "erased" after
    order,     \* order[r]: items of the order r has created, {} if none
    rowLock,   \* rowLock[c]: the transaction that has claimed cart c
    pc,        \* pc[r]: the next statement of request r
    req,       \* req[r]: what the request is about and has read
    answer     \* answer[r]: the order the request answered with

carts == <<state, owner, orderOf>>
vars == <<carts, place, order, rowLock, pc, req, answer>>

PC == {"new", "creating", "adding", "submitting", "claimed", "reading",
       "merging", "attaching", "moving", "moved", "done", "refused"}

Owner == User \cup {Guest}

ItemsIn(c) == {i \in Item : place[i] = c}
Live(c) == state[c] = "live"
Converted(c) == orderOf[c] # None
Active(c, u) == Live(c) /\ owner[c] = u /\ ~Converted(c)

(* What a request that has read nothing knows. *)
Nothing == [user |-> Guest, cart |-> None, target |-> None, items |-> {}]

Init ==
    /\ state = [c \in Cart |-> "absent"]
    /\ owner = [c \in Cart |-> Guest]
    /\ orderOf = [c \in Cart |-> None]
    /\ place = [i \in Item |-> "nowhere"]
    /\ order = [r \in Request |-> {}]
    /\ rowLock = [c \in Cart |-> None]
    /\ pc = [r \in Request |-> "new"]
    /\ req = [r \in Request |-> Nothing]
    /\ answer = [r \in Request |-> None]

Goto(r, next) == pc' = [pc EXCEPT ![r] = next]

-----------------------------------------------------------------------------
(* POST /cart/guest without a usable token: a new cart.                      *)
CreateGuestCart(c) ==
    /\ state[c] = "absent"
    /\ state' = [state EXCEPT ![c] = "live"]
    /\ UNCHANGED <<owner, orderOf, place, order, rowLock, pc, req, answer>>

(* GET /cart/mine, findActiveForUser: the user's cart, if there is one. *)
FindUserCart(r, u) ==
    /\ pc[r] = "new"
    /\ IF \E c \in Cart : Active(c, u)
         THEN Goto(r, "done") /\ UNCHANGED req
         ELSE Goto(r, "creating") /\ req' = [req EXCEPT ![r].user = u]
    /\ UNCHANGED <<carts, place, order, rowLock, answer>>

(* createForUser, whatever has been created since. *)
CreateUserCart(r, c) ==
    /\ pc[r] = "creating"
    /\ state[c] = "absent"
    /\ state' = [state EXCEPT ![c] = "live"]
    /\ owner' = [owner EXCEPT ![c] = req[r].user]
    /\ Goto(r, "done")
    /\ UNCHANGED <<orderOf, place, order, rowLock, req, answer>>

-----------------------------------------------------------------------------
(* addItem, findById and assertOwnership: the actor is the user or holds the *)
(* token, and the cart is not converted.                                     *)
CheckCart(r, c) ==
    /\ pc[r] = "new"
    /\ Live(c)
    /\ ~Converted(c)
    /\ req' = [req EXCEPT ![r].user = owner[c], ![r].cart = c]
    /\ Goto(r, "adding")
    /\ UNCHANGED <<carts, place, order, rowLock, answer>>

(* The insert: the foreign key asks for the cart, nothing else does. *)
InsertItem(r, i) ==
    /\ pc[r] = "adding"
    /\ Live(req[r].cart)
    /\ place[i] = "nowhere"
    /\ place' = [place EXCEPT ![i] = req[r].cart]
    /\ Goto(r, "done")
    /\ UNCHANGED <<carts, order, rowLock, req, answer>>

-----------------------------------------------------------------------------
(* createOrder reads the cart and its items.  A converted cart is answered   *)
(* with its order, an empty one refused.                                     *)
ReadCart(r, c) ==
    /\ pc[r] = "new"
    /\ Live(c)
    /\ owner[c] # Guest
    /\ \/ Converted(c) /\ Goto(r, "reading")
       \/ ~Converted(c) /\ ItemsIn(c) # {} /\ Goto(r, "submitting")
    /\ req' = [req EXCEPT ![r] =
                  [user |-> owner[c], cart |-> c, target |-> orderOf[c], items |-> ItemsIn(c)]]
    /\ UNCHANGED <<carts, place, order, rowLock, answer>>

(* Mutant: WHERE id = cart.id *)
ClaimableAnyway(c) == Live(c)

(* WHERE id = cart.id AND converted_at IS NULL *)
Claimable(c) == Live(c) /\ ~Converted(c)

(* Mutant: the WHERE clause is evaluated before the row's lock is obtained. *)
ClaimUnlocked(r) ==
    LET c == req[r].cart
    IN  /\ pc[r] = "submitting"
        /\ Claimable(c)
        /\ rowLock' = [rowLock EXCEPT ![c] = r]
        /\ Goto(r, "claimed")
        /\ UNCHANGED <<carts, place, order, req, answer>>

(* The claim, first statement of the transaction, once no other holds the row. *)
Claim(r) ==
    LET c == req[r].cart
    IN  /\ pc[r] = "submitting"
        /\ rowLock[c] = None
        /\ Claimable(c)
        /\ rowLock' = [rowLock EXCEPT ![c] = r]
        /\ Goto(r, "claimed")
        /\ UNCHANGED <<carts, place, order, req, answer>>

(* claimed.count === 0: the cart is read again, its order is the answer. *)
AlreadyConverted(r) ==
    LET c == req[r].cart
    IN  /\ pc[r] = "submitting"
        /\ rowLock[c] = None
        /\ Live(c)
        /\ ~Claimable(c)
        /\ req' = [req EXCEPT ![r].target = orderOf[c]]
        /\ Goto(r, "reading")
        /\ UNCHANGED <<carts, place, order, rowLock, answer>>

(* The cart has been deleted: findUniqueOrThrow rejects. *)
CartGone(r) ==
    /\ pc[r] = "submitting"
    /\ ~Live(req[r].cart)
    /\ Goto(r, "refused")
    /\ UNCHANGED <<carts, place, order, rowLock, req, answer>>

(* Mutant: convertedToOrderId is not written. *)
CommitUnlinkedOrder(r) ==
    /\ pc[r] = "claimed"
    /\ order' = [order EXCEPT ![r] = req[r].items]
    /\ rowLock' = [rowLock EXCEPT ![req[r].cart] = None]
    /\ req' = [req EXCEPT ![r].target = r]
    /\ Goto(r, "reading")
    /\ UNCHANGED <<carts, place, answer>>

(* Order, outbox event, repair cases and converted_to_order_id are committed. *)
CommitOrder(r) ==
    LET c == req[r].cart
    IN  /\ pc[r] = "claimed"
        /\ order' = [order EXCEPT ![r] = req[r].items]
        /\ orderOf' = [orderOf EXCEPT ![c] = r]
        /\ rowLock' = [rowLock EXCEPT ![c] = None]
        /\ req' = [req EXCEPT ![r].target = r]
        /\ Goto(r, "reading")
        /\ UNCHANGED <<state, owner, place, answer>>

(* getOrderForUser: the order is looked up by id and user. *)
Answer(r) ==
    /\ pc[r] = "reading"
    /\ req[req[r].target].user = req[r].user
    /\ answer' = [answer EXCEPT ![r] = req[r].target]
    /\ Goto(r, "done")
    /\ UNCHANGED <<carts, place, order, rowLock, req>>

-----------------------------------------------------------------------------
(* attachGuestCartToUser finds the guest cart by its token. *)
FindGuestCart(r, u, c) ==
    /\ pc[r] = "new"
    /\ Live(c)
    /\ owner[c] = Guest
    /\ req' = [req EXCEPT ![r].user = u, ![r].cart = c]
    /\ Goto(r, "merging")
    /\ UNCHANGED <<carts, place, order, rowLock, answer>>

(* findFirst: any active cart of the user. *)
FindTarget(r) ==
    /\ pc[r] = "merging"
    /\ \/ /\ \A c \in Cart : ~Active(c, req[r].user)
          /\ Goto(r, "attaching")
          /\ UNCHANGED req
       \/ \E c \in Cart :
            /\ Active(c, req[r].user)
            /\ req' = [req EXCEPT ![r].target = c]
            /\ Goto(r, "moving")
    /\ UNCHANGED <<carts, place, order, rowLock, answer>>

(* cart.update by id, and commit: the guest cart becomes the user's. *)
Attach(r) ==
    LET c == req[r].cart
    IN  /\ pc[r] = "attaching"
        /\ rowLock[c] = None
        /\ Live(c)
        /\ owner' = [owner EXCEPT ![c] = req[r].user]
        /\ Goto(r, "done")
        /\ UNCHANGED <<state, orderOf, place, order, rowLock, req, answer>>

(* Rows of items that an open transaction has moved. *)
Moving == UNION {req[q].items : q \in {q \in Request : pc[q] = "moved"}}

(* cartItem.updateMany: rows moved by another transaction are waited for, and *)
(* the foreign key asks for the target.                                       *)
MoveItems(r) ==
    LET c == req[r].cart
    IN  /\ pc[r] = "moving"
        /\ ItemsIn(c) \cap Moving = {}
        /\ ItemsIn(c) = {} \/ Live(req[r].target)
        /\ req' = [req EXCEPT ![r].items = ItemsIn(c)]
        /\ Goto(r, "moved")
        /\ UNCHANGED <<carts, place, order, rowLock, answer>>

(* Transactions that have put items in cart c and not ended. *)
Fillers(c) == {q \in Request : pc[q] = "moved" /\ req[q].target = c /\ req[q].items # {}}

(* cart.delete by id, and commit: the rows of items that are still, or again, *)
(* in the guest cart are deleted with it.                                     *)
DeleteGuestCart(r) ==
    LET c == req[r].cart
    IN  /\ pc[r] = "moved"
        /\ rowLock[c] = None
        /\ Fillers(c) \subseteq {r}
        /\ Live(c)
        /\ state' = [state EXCEPT ![c] = "deleted"]
        /\ place' = [i \in Item |->
                        IF i \in req[r].items /\ req[r].target # c THEN req[r].target
                        ELSE IF place[i] = c THEN "erased" ELSE place[i]]
        /\ Goto(r, "done")
        /\ UNCHANGED <<owner, orderOf, order, rowLock, req, answer>>

-----------------------------------------------------------------------------
(* Mutant: the transaction of a request that ends is left open. *)
RefuseKeepingRow(r) ==
    /\ pc[r] \notin {"new", "done", "refused"}
    /\ Goto(r, "refused")
    /\ UNCHANGED <<carts, place, order, rowLock, req, answer>>

(* A check refuses the request, a statement fails (the cart is gone, a        *)
(* deadlock is broken) or the API process dies: an open transaction is rolled *)
(* back.                                                                      *)
Refuse(r) ==
    /\ pc[r] \notin {"new", "done", "refused"}
    /\ rowLock' = [c \in Cart |-> IF rowLock[c] = r THEN None ELSE rowLock[c]]
    /\ Goto(r, "refused")
    /\ UNCHANGED <<carts, place, order, req, answer>>

Submit(r) == Claim(r) \/ AlreadyConverted(r) \/ CartGone(r) \/ CommitOrder(r) \/ Answer(r)
Merge(r) == FindTarget(r) \/ Attach(r) \/ MoveItems(r) \/ DeleteGuestCart(r)

Next ==
    \/ \E c \in Cart : CreateGuestCart(c)
    \/ \E r \in Request :
          \/ \E u \in User : FindUserCart(r, u)
          \/ \E c \in Cart : CreateUserCart(r, c)
          \/ \E c \in Cart : CheckCart(r, c)
          \/ \E i \in Item : InsertItem(r, i)
          \/ \E c \in Cart : ReadCart(r, c)
          \/ Submit(r)
          \/ \E u \in User, c \in Cart : FindGuestCart(r, u, c)
          \/ Merge(r)
          \/ Refuse(r)

Spec == Init /\ [][Next]_vars

(* The API goes on with a submission it has begun, and PostgreSQL with an     *)
(* UPDATE once the row it waits for is free.                                  *)
FairSpec == Spec /\ \A r \in Request : WF_vars(Submit(r))

-----------------------------------------------------------------------------
(* Properties *)

TypeOK ==
    /\ state \in [Cart -> {"absent", "live", "deleted"}]
    /\ owner \in [Cart -> Owner]
    /\ orderOf \in [Cart -> Request \cup {None}]
    /\ place \in [Item -> Cart \cup {"nowhere", "erased"}]
    /\ order \in [Request -> SUBSET Item]
    /\ rowLock \in [Cart -> Request \cup {None}]
    /\ pc \in [Request -> PC]
    /\ req \in [Request -> [user : Owner, cart : Cart \cup {None},
                            target : Cart \cup Request \cup {None}, items : SUBSET Item]]
    /\ answer \in [Request -> Request \cup {None}]

(* Concurrent or repeated submissions of a cart create one order: every      *)
(* order is the one its cart points to, so two orders have two carts         *)
(* (order.service.ts, the claim).                                            *)
OneOrderPerCart ==
    \A r \in Request : order[r] # {} => orderOf[req[r].cart] = r

(* A request that claimed nothing answers with the order that did: an order  *)
(* that exists, of the same cart.                                            *)
AnswerIsTheOrder ==
    \A r \in Request : answer[r] # None =>
        order[answer[r]] # {} /\ orderOf[req[r].cart] = answer[r]

(* A submission ends, answered or refused: the one that waits for the winner's *)
(* row does not wait for ever (order.service.ts:121-125).  Answer refuses an   *)
(* order of another user, which is an end too.                                 *)
SubmissionsEnd ==
    \A r \in Request : pc[r] = "submitting" ~> pc[r] \in {"reading", "done", "refused"}

(* A merge deletes guest carts only; replaying it, even while the first call *)
(* is still executing, is a silent no-op (cart.service.ts:134-135).          *)
UserCartIsKept ==
    [][\A c \in Cart : Live(c) /\ owner[c] \in User => state'[c] = "live"]_vars

Promise == INSTANCE CartPromise
ImplementsPromise == Promise!Spec
=============================================================================
