---------------------------- MODULE CheckoutProofs ----------------------------
(***************************************************************************)
(* Theorems about Checkout for any users, carts, items and requests.        *)
(*                                                                         *)
(* A cart is linked to an order only by the transaction that holds its row  *)
(* and saw it unconverted after obtaining it (ClaimHeld).  Everything else  *)
(* follows a link that is never changed.                                    *)
(*                                                                         *)
(* And about Addresses, the book the customer orders from: what a request   *)
(* that sets a default has cleared covers all that was one (Covering).      *)
(***************************************************************************)
EXTENDS Checkout, Addresses, FiniteSetTheorems, TLAPS

(* A request that has not ended its transaction has no order and no answer. *)
Fresh == \A r \in Request : pc[r] \notin {"reading", "done", "refused"} =>
            order[r] = {} /\ \A c \in Cart : orderOf[c] # r
Unanswered == \A r \in Request : pc[r] # "done" => answer[r] = None

(* A request that is executing works on a cart, one that submits on some items. *)
CartRead == \A r \in Request : pc[r] \notin {"new", "creating", "done", "refused"} =>
               req[r].cart \in Cart
Submitting == \A r \in Request : pc[r] \in {"submitting", "claimed"} => req[r].items # {}
ClaimHeld == \A r \in Request : pc[r] = "claimed" =>
                rowLock[req[r].cart] = r /\ orderOf[req[r].cart] = None
ReadingOrder == \A r \in Request : pc[r] = "reading" =>
                   req[r].target # None /\ orderOf[req[r].cart] = req[r].target
OrderLinked == \A r \in Request : order[r] # {} => req[r].cart \in Cart /\ orderOf[req[r].cart] = r
LinkedOrder == \A c \in Cart : orderOf[c] # None => order[orderOf[c]] # {}
Answered == \A r \in Request : answer[r] # None =>
               req[r].cart \in Cart /\ orderOf[req[r].cart] = answer[r]

Targeted == \A r \in Request : pc[r] \in {"moving", "moved"} => req[r].target \in Cart

Links == OrderLinked /\ LinkedOrder /\ Answered
Steps == Fresh /\ Unanswered /\ CartRead /\ Submitting /\ ClaimHeld /\ ReadingOrder /\ Targeted

IInv == TypeOK /\ Steps /\ Links

ReqType == [user : Owner, cart : Cart \cup {None}, target : Cart \cup Request \cup {None}, items : SUBSET Item]

-----------------------------------------------------------------------------
LEMMA RequestNotNone == None \notin Request
  BY NamesAssumption

LEMMA TypeInit == Init => TypeOK
  <1> SUFFICES ASSUME Init PROVE TypeOK
      OBVIOUS
  <1>1. Nothing \in ReqType
      BY DEF Nothing, ReqType, Owner
  <1> QED BY <1>1 DEF Init, TypeOK, PC, Owner, ReqType

(* TypeOK, a fact about each variable at a time. *)
LEMMA TypeNext == TypeOK /\ Steps /\ [Next]_vars => TypeOK'
  <1> SUFFICES ASSUME TypeOK, Steps, [Next]_vars PROVE TypeOK'
      OBVIOUS
  <1>0. /\ state \in [Cart -> {"absent", "live", "deleted"}] /\ owner \in [Cart -> Owner]
        /\ orderOf \in [Cart -> Request \cup {None}]
        /\ place \in [Item -> Cart \cup {"nowhere", "erased"}]
        /\ order \in [Request -> SUBSET Item] /\ rowLock \in [Cart -> Request \cup {None}]
        /\ pc \in [Request -> PC] /\ req \in [Request -> ReqType]
        /\ answer \in [Request -> Request \cup {None}]
      BY DEF TypeOK, ReqType
  <1>1. SUFFICES /\ state' \in [Cart -> {"absent", "live", "deleted"}] /\ owner' \in [Cart -> Owner]
                 /\ orderOf' \in [Cart -> Request \cup {None}]
                 /\ place' \in [Item -> Cart \cup {"nowhere", "erased"}]
                 /\ order' \in [Request -> SUBSET Item] /\ rowLock' \in [Cart -> Request \cup {None}]
                 /\ pc' \in [Request -> PC] /\ req' \in [Request -> ReqType]
                 /\ answer' \in [Request -> Request \cup {None}]
      BY DEF TypeOK, ReqType
  <1> DEFINE Goal == /\ state' \in [Cart -> {"absent", "live", "deleted"}] /\ owner' \in [Cart -> Owner]
                     /\ orderOf' \in [Cart -> Request \cup {None}]
                     /\ place' \in [Item -> Cart \cup {"nowhere", "erased"}]
                     /\ order' \in [Request -> SUBSET Item] /\ rowLock' \in [Cart -> Request \cup {None}]
                     /\ pc' \in [Request -> PC] /\ req' \in [Request -> ReqType]
                     /\ answer' \in [Request -> Request \cup {None}]
  <1> USE DEF carts
  <1>2. ASSUME NEW c \in Cart, CreateGuestCart(c) PROVE Goal
      BY <1>0, <1>2 DEF CreateGuestCart
  <1>3. ASSUME NEW r \in Request, NEW u \in User, FindUserCart(r, u) PROVE Goal
    <2>1. CASE \E c \in Cart : Active(c, u)
        BY <1>0, <1>3, <2>1 DEF FindUserCart, Goto, PC
    <2>2. CASE ~\E c \in Cart : Active(c, u)
      <3>1. req' \in [Request -> ReqType]
          BY <1>0, <1>3, <2>2 DEF FindUserCart, ReqType, Owner
      <3>2. pc' \in [Request -> PC]
          BY <1>0, <1>3, <2>2 DEF FindUserCart, Goto, PC
      <3> QED BY <1>0, <1>3, <3>1, <3>2 DEF FindUserCart
    <2> QED BY <2>1, <2>2
  <1>4. ASSUME NEW r \in Request, NEW c \in Cart, CreateUserCart(r, c) PROVE Goal
    <2>1. req[r].user \in Owner
        BY <1>0 DEF ReqType
    <2> QED BY <1>0, <1>4, <2>1 DEF CreateUserCart, Goto, PC
  <1>5. ASSUME NEW r \in Request, NEW c \in Cart, CheckCart(r, c) PROVE Goal
    <2>1. req' \in [Request -> ReqType]
      <3>1. [req[r] EXCEPT !.user = owner[c], !.cart = c] \in ReqType
          BY <1>0 DEF ReqType
      <3>2. req' = [req EXCEPT ![r] = [req[r] EXCEPT !.user = owner[c], !.cart = c]]
          BY <1>0, <1>5 DEF CheckCart
      <3> QED BY <1>0, <3>1, <3>2
    <2> QED BY <1>0, <1>5, <2>1 DEF CheckCart, Goto, PC
  <1>6. ASSUME NEW r \in Request, NEW i \in Item, InsertItem(r, i) PROVE Goal
    <2>1. req[r].cart \in Cart
        BY <1>6 DEF InsertItem, Steps, CartRead
    <2> QED BY <1>0, <1>6, <2>1 DEF InsertItem, Goto, PC
  <1>7. ASSUME NEW r \in Request, NEW c \in Cart, ReadCart(r, c) PROVE Goal
    <2>1. req' \in [Request -> ReqType]
        BY <1>0, <1>7 DEF ReadCart, ReqType, ItemsIn
    <2>2. pc' \in [Request -> PC]
        BY <1>0, <1>7 DEF ReadCart, Goto, PC
    <2> QED BY <1>0, <1>7, <2>1, <2>2 DEF ReadCart
  <1>8. ASSUME NEW r \in Request, Claim(r) PROVE Goal
      BY <1>0, <1>8 DEF Claim, Goto, PC
  <1>9. ASSUME NEW r \in Request, AlreadyConverted(r) PROVE Goal
    <2>1. orderOf[req[r].cart] \in Request \cup {None}
        BY <1>0, <1>9 DEF AlreadyConverted, Steps, CartRead
    <2>2. req' \in [Request -> ReqType]
        BY <1>0, <1>9, <2>1 DEF AlreadyConverted, ReqType
    <2> QED BY <1>0, <1>9, <2>2 DEF AlreadyConverted, Goto, PC
  <1>10. ASSUME NEW r \in Request, CartGone(r) PROVE Goal
      BY <1>0, <1>10 DEF CartGone, Goto, PC
  <1>11. ASSUME NEW r \in Request, CommitOrder(r) PROVE Goal
    <2>1. req[r].items \subseteq Item
        BY <1>0 DEF ReqType
    <2>2. req' \in [Request -> ReqType]
        BY <1>0, <1>11 DEF CommitOrder, ReqType
    <2>3. order' \in [Request -> SUBSET Item]
        BY <1>0, <1>11, <2>1 DEF CommitOrder
    <2> QED BY <1>0, <1>11, <2>2, <2>3 DEF CommitOrder, Goto, PC
  <1>12. ASSUME NEW r \in Request, Answer(r) PROVE Goal
    <2>1. req[r].target \in Request \cup {None}
        BY <1>0, <1>12 DEF Answer, Steps, ReadingOrder, CartRead
    <2> QED BY <1>0, <1>12, <2>1 DEF Answer, Goto, PC
  <1>13. ASSUME NEW r \in Request, NEW u \in User, NEW c \in Cart, FindGuestCart(r, u, c) PROVE Goal
    <2>1. req' \in [Request -> ReqType]
      <3>1. [req[r] EXCEPT !.user = u, !.cart = c] \in ReqType
          BY <1>0 DEF ReqType, Owner
      <3>2. req' = [req EXCEPT ![r] = [req[r] EXCEPT !.user = u, !.cart = c]]
          BY <1>0, <1>13 DEF FindGuestCart
      <3> QED BY <1>0, <3>1, <3>2
    <2> QED BY <1>0, <1>13, <2>1 DEF FindGuestCart, Goto, PC
  <1>14. ASSUME NEW r \in Request, FindTarget(r) PROVE Goal
    <2>1. CASE Goto(r, "attaching") /\ UNCHANGED req
        BY <1>0, <1>14, <2>1 DEF FindTarget, Goto, PC
    <2>2. ASSUME NEW c \in Cart, req' = [req EXCEPT ![r].target = c], Goto(r, "moving") PROVE Goal
      <3>1. req' \in [Request -> ReqType]
          BY <1>0, <2>2 DEF ReqType
      <3> QED BY <1>0, <1>14, <2>2, <3>1 DEF FindTarget, Goto, PC
    <2> QED BY <1>14, <2>1, <2>2 DEF FindTarget
  <1>15. ASSUME NEW r \in Request, Attach(r) PROVE Goal
    <2>1. req[r].user \in Owner
        BY <1>0 DEF ReqType
    <2> QED BY <1>0, <1>15, <2>1 DEF Attach, Goto, PC
  <1>16. ASSUME NEW r \in Request, MoveItems(r) PROVE Goal
    <2>1. req' \in [Request -> ReqType]
        BY <1>0, <1>16 DEF MoveItems, ReqType, ItemsIn
    <2> QED BY <1>0, <1>16, <2>1 DEF MoveItems, Goto, PC
  <1>17. ASSUME NEW r \in Request, DeleteGuestCart(r) PROVE Goal
    <2>1. place' \in [Item -> Cart \cup {"nowhere", "erased"}]
      <3>1. pc[r] = "moved"
          BY <1>17 DEF DeleteGuestCart
      <3>2. req[r].target \in Cart
          BY <3>1 DEF Steps, Targeted
      <3> DEFINE c == req[r].cart
      <3>3. place' = [i \in Item |-> IF i \in req[r].items /\ req[r].target # c THEN req[r].target
                                    ELSE IF place[i] = c THEN "erased" ELSE place[i]]
          BY <1>17 DEF DeleteGuestCart
      <3> HIDE DEF c
      <3> QED BY <1>0, <3>2, <3>3
    <2> QED BY <1>0, <1>17, <2>1 DEF DeleteGuestCart, Goto, PC
  <1>18. ASSUME NEW r \in Request, Refuse(r) PROVE Goal
      BY <1>0, <1>18 DEF Refuse, Goto, PC
  <1>19. CASE UNCHANGED vars
      BY <1>0, <1>19 DEF vars
  <1> QED BY <1>2, <1>3, <1>4, <1>5, <1>6, <1>7, <1>8, <1>9, <1>10, <1>11, <1>12, <1>13, <1>14,
             <1>15, <1>16, <1>17, <1>18, <1>19 DEF Next, Submit, Merge

-----------------------------------------------------------------------------
LEMMA RestInit == Init => Steps /\ Links
  <1> SUFFICES ASSUME Init PROVE Steps /\ Links
      OBVIOUS
  <1>1. Steps
      BY RequestNotNone DEF Init, Steps, Fresh, Unanswered, CartRead, Submitting, ClaimHeld, ReadingOrder, Targeted
  <1>2. Links
      BY DEF Init, Links, OrderLinked, LinkedOrder, Answered
  <1> QED BY <1>1, <1>2

(* What the next statement of request r relies on when it is not r's claim. *)
Ready(r) ==
    /\ pc[r] # "claimed"
    /\ pc[r] \notin {"new", "creating", "done", "refused"} => req[r].cart \in Cart
    /\ pc[r] = "submitting" => req[r].items # {}
    /\ pc[r] = "reading" => req[r].target # None /\ orderOf[req[r].cart] = req[r].target
    /\ pc[r] \in {"moving", "moved"} => req[r].target \in Cart

(* A statement of r that neither orders, answers nor locks changes r alone. *)
Quiet(r) ==
    /\ pc[r] \notin {"claimed", "reading", "done", "refused"}
    /\ UNCHANGED <<orderOf, order, rowLock, answer>>
    /\ \A q \in Request \ {r} : pc'[q] = pc[q] /\ req'[q] = req[q]

LEMMA QuietKeeps ==
    ASSUME IInv, NEW r \in Request, Quiet(r), Ready(r)'
    PROVE  Steps' /\ Links'
  <1>1. Fresh'
      BY DEF IInv, Steps, Quiet, Fresh
  <1>2. Unanswered'
      BY DEF IInv, Steps, Quiet, Unanswered
  <1>3. CartRead' /\ Submitting' /\ Targeted'
      BY DEF IInv, Steps, Quiet, Ready, CartRead, Submitting, Targeted
  <1>4. ClaimHeld'
      BY DEF IInv, Steps, Quiet, Ready, ClaimHeld
  <1>5. ReadingOrder'
      BY DEF IInv, Steps, Quiet, Ready, ReadingOrder
  <1>6. order[r] = {} /\ answer[r] = None
      BY DEF IInv, Steps, Quiet, Fresh, Unanswered
  <1>7. OrderLinked' /\ LinkedOrder' /\ Answered'
      BY <1>6 DEF IInv, Links, Quiet, OrderLinked, LinkedOrder, Answered
  <1> QED BY <1>1, <1>2, <1>3, <1>4, <1>5, <1>7 DEF Steps, Links

(* The statements of a route that leave the orders alone. *)
LEMMA RouteStep ==
    ASSUME IInv, NEW r \in Request,
           \/ \E u \in User : FindUserCart(r, u)
           \/ \E c \in Cart : CreateUserCart(r, c) \/ CheckCart(r, c)
           \/ \E i \in Item : InsertItem(r, i)
           \/ \E u \in User, c \in Cart : FindGuestCart(r, u, c)
           \/ Merge(r)
    PROVE  Steps' /\ Links'
  <1> USE DEF carts
  <1>0. /\ pc \in [Request -> PC] /\ req \in [Request -> ReqType]
        /\ pc[r] \notin {"new", "creating", "done", "refused"} => req[r].cart \in Cart
      BY DEF IInv, TypeOK, ReqType, Steps, CartRead
  <1>1. ASSUME NEW u \in User, FindUserCart(r, u) PROVE Quiet(r) /\ Ready(r)'
    <2>1. CASE Goto(r, "done") /\ UNCHANGED req
        BY <1>0, <1>1, <2>1 DEF FindUserCart, Goto, Quiet, Ready
    <2>2. CASE Goto(r, "creating") /\ req' = [req EXCEPT ![r].user = u]
        BY <1>0, <1>1, <2>2 DEF FindUserCart, Goto, Quiet, Ready
    <2> QED BY <1>1, <2>1, <2>2 DEF FindUserCart
  <1>2. ASSUME NEW c \in Cart, CreateUserCart(r, c) PROVE Quiet(r) /\ Ready(r)'
      BY <1>0, <1>2 DEF CreateUserCart, Goto, Quiet, Ready
  <1>3. ASSUME NEW c \in Cart, CheckCart(r, c) PROVE Quiet(r) /\ Ready(r)'
    <2>1. req'[r].cart = c /\ \A q \in Request \ {r} : req'[q] = req[q]
        BY <1>0, <1>3 DEF CheckCart, ReqType
    <2> QED BY <1>0, <1>3, <2>1 DEF CheckCart, Goto, Quiet, Ready
  <1>4. ASSUME NEW i \in Item, InsertItem(r, i) PROVE Quiet(r) /\ Ready(r)'
      BY <1>0, <1>4 DEF InsertItem, Goto, Quiet, Ready
  <1>5. ASSUME NEW u \in User, NEW c \in Cart, FindGuestCart(r, u, c) PROVE Quiet(r) /\ Ready(r)'
    <2>1. req'[r].cart = c /\ \A q \in Request \ {r} : req'[q] = req[q]
        BY <1>0, <1>5 DEF FindGuestCart, ReqType
    <2> QED BY <1>0, <1>5, <2>1 DEF FindGuestCart, Goto, Quiet, Ready
  <1>6. CASE FindTarget(r)
    <2>1. CASE Goto(r, "attaching") /\ UNCHANGED req
      <3>1. Quiet(r) /\ Ready(r)'
          BY <1>0, <1>6, <2>1 DEF FindTarget, Goto, Quiet, Ready
      <3> QED BY <3>1, QuietKeeps
    <2>2. ASSUME NEW c \in Cart, req' = [req EXCEPT ![r].target = c], Goto(r, "moving")
          PROVE  Steps' /\ Links'
      <3>1. /\ req'[r].cart = req[r].cart /\ req'[r].target = c
            /\ \A q \in Request \ {r} : req'[q] = req[q]
          BY <1>0, <2>2 DEF ReqType
      <3>2. Quiet(r) /\ Ready(r)'
          BY <1>0, <1>6, <2>2, <3>1 DEF FindTarget, Goto, Quiet, Ready
      <3> QED BY <3>2, QuietKeeps
    <2> QED BY <1>6, <2>1, <2>2 DEF FindTarget
  <1>7. ASSUME Attach(r) PROVE Quiet(r) /\ Ready(r)'
      BY <1>0, <1>7 DEF Attach, Goto, Quiet, Ready
  <1>8. ASSUME MoveItems(r) PROVE Quiet(r) /\ Ready(r)'
    <2>1. /\ req'[r].cart = req[r].cart /\ req'[r].target = req[r].target
          /\ \A q \in Request \ {r} : req'[q] = req[q]
        BY <1>0, <1>8 DEF MoveItems, ReqType
    <2>2. req[r].target \in Cart
        BY <1>8 DEF MoveItems, IInv, Steps, Targeted
    <2> QED BY <1>0, <1>8, <2>1, <2>2 DEF MoveItems, Goto, Quiet, Ready
  <1>9. ASSUME DeleteGuestCart(r) PROVE Quiet(r) /\ Ready(r)'
      BY <1>0, <1>9 DEF DeleteGuestCart, Goto, Quiet, Ready
  <1> QED BY <1>1, <1>2, <1>3, <1>4, <1>5, <1>6, <1>7, <1>8, <1>9, QuietKeeps DEF Merge

(* The two statements of a submission that read and decide. *)
LEMMA ReadStep ==
    ASSUME IInv, NEW r \in Request,
           (\E c \in Cart : ReadCart(r, c)) \/ AlreadyConverted(r) \/ CartGone(r)
    PROVE  Steps' /\ Links'
  <1> USE DEF carts
  <1>0. /\ pc \in [Request -> PC] /\ req \in [Request -> ReqType]
        /\ pc[r] \notin {"new", "creating", "done", "refused"} => req[r].cart \in Cart
      BY DEF IInv, TypeOK, ReqType, Steps, CartRead
  <1>1. ASSUME NEW c \in Cart, ReadCart(r, c) PROVE Quiet(r) /\ Ready(r)'
    <2>1. /\ req'[r].cart = c /\ req'[r].target = orderOf[c] /\ req'[r].items = ItemsIn(c)
          /\ \A q \in Request \ {r} : req'[q] = req[q]
        BY <1>0, <1>1 DEF ReadCart
    <2>2. CASE Converted(c) /\ Goto(r, "reading")
        BY <1>0, <1>1, <2>1, <2>2 DEF ReadCart, Goto, Quiet, Ready, Converted
    <2>3. CASE ~Converted(c) /\ ItemsIn(c) # {} /\ Goto(r, "submitting")
        BY <1>0, <1>1, <2>1, <2>3 DEF ReadCart, Goto, Quiet, Ready
    <2> QED BY <1>1, <2>2, <2>3 DEF ReadCart
  <1>2. ASSUME AlreadyConverted(r) PROVE Quiet(r) /\ Ready(r)'
    <2>1. /\ req'[r].cart = req[r].cart /\ req'[r].target = orderOf[req[r].cart]
          /\ \A q \in Request \ {r} : req'[q] = req[q]
        BY <1>0, <1>2 DEF AlreadyConverted, ReqType
    <2> QED BY <1>0, <1>2, <2>1 DEF AlreadyConverted, Claimable, Converted, Goto, Quiet, Ready
  <1>3. ASSUME CartGone(r) PROVE Quiet(r) /\ Ready(r)'
      BY <1>0, <1>3 DEF CartGone, Goto, Quiet, Ready
  <1> QED BY <1>1, <1>2, <1>3, QuietKeeps

(* Nobody claims a row that is held: the others that have claimed hold others. *)
LEMMA ClaimStep == ASSUME IInv, NEW r \in Request, Claim(r) PROVE Steps' /\ Links'
  <1> USE DEF carts
  <1>0. /\ pc \in [Request -> PC] /\ rowLock \in [Cart -> Request \cup {None}]
        /\ pc[r] = "submitting" /\ req[r].cart \in Cart /\ req[r].items # {}
        /\ UNCHANGED <<orderOf, order, req, answer>>
      BY DEF IInv, TypeOK, Claim, Steps, CartRead, Submitting
  <1>1. /\ pc'[r] = "claimed" /\ rowLock'[req[r].cart] = r
        /\ \A q \in Request \ {r} : pc'[q] = pc[q]
        /\ \A c \in Cart : c # req[r].cart => rowLock'[c] = rowLock[c]
      BY <1>0 DEF Claim, Goto
  <1>2. rowLock[req[r].cart] = None /\ orderOf[req[r].cart] = None
      BY DEF Claim, Claimable, Converted
  <1>3. Fresh' /\ Unanswered'
      BY <1>0, <1>1 DEF IInv, Steps, Fresh, Unanswered
  <1>4. CartRead' /\ Submitting' /\ Targeted' /\ ReadingOrder'
      BY <1>0, <1>1 DEF IInv, Steps, CartRead, Submitting, Targeted, ReadingOrder
  <1>5. ClaimHeld'
    <2> SUFFICES ASSUME NEW q \in Request, pc'[q] = "claimed"
                 PROVE  rowLock'[req'[q].cart] = q /\ orderOf'[req'[q].cart] = None
        BY DEF ClaimHeld
    <2>1. CASE q = r
        BY <2>1, <1>0, <1>1, <1>2
    <2>2. CASE q # r
      <3>1. pc[q] = "claimed"
          BY <2>2, <1>1
      <3>2. rowLock[req[q].cart] = q /\ orderOf[req[q].cart] = None /\ req[q].cart \in Cart
          BY <3>1 DEF IInv, Steps, ClaimHeld, CartRead
      <3>3. req[q].cart # req[r].cart
          BY <3>2, <1>2, RequestNotNone
      <3> QED BY <3>2, <3>3, <1>0, <1>1
    <2> QED BY <2>1, <2>2
  <1>6. Links'
      BY <1>0 DEF IInv, Links, OrderLinked, LinkedOrder, Answered
  <1> QED BY <1>3, <1>4, <1>5, <1>6 DEF Steps

(* The order is linked to a cart that had none, and to no other. *)
LEMMA CommitStep == ASSUME IInv, NEW r \in Request, CommitOrder(r) PROVE Steps' /\ Links'
  <1> DEFINE c == req[r].cart
  <1> USE DEF carts
  <1>0. /\ pc \in [Request -> PC] /\ rowLock \in [Cart -> Request \cup {None}]
        /\ orderOf \in [Cart -> Request \cup {None}] /\ order \in [Request -> SUBSET Item]
        /\ req \in [Request -> ReqType]
        /\ pc[r] = "claimed" /\ c \in Cart /\ req[r].items # {}
        /\ rowLock[c] = r /\ orderOf[c] = None
        /\ order[r] = {} /\ (\A d \in Cart : orderOf[d] # r) /\ UNCHANGED answer
      BY DEF IInv, TypeOK, ReqType, CommitOrder, Steps, Fresh, CartRead, Submitting, ClaimHeld
  <1>1. /\ pc'[r] = "reading" /\ order'[r] # {} /\ orderOf'[c] = r
        /\ \A q \in Request \ {r} : pc'[q] = pc[q] /\ order'[q] = order[q]
        /\ \A d \in Cart : d # c => orderOf'[d] = orderOf[d] /\ rowLock'[d] = rowLock[d]
      BY <1>0 DEF CommitOrder, Goto
  <1>2. /\ req'[r].cart = c /\ req'[r].target = r
        /\ \A q \in Request \ {r} : req'[q] = req[q]
      BY <1>0 DEF CommitOrder, ReqType
  <1> HIDE DEF c
  <1>3. Fresh'
    <2> SUFFICES ASSUME NEW q \in Request, pc'[q] \notin {"reading", "done", "refused"}
                 PROVE  order'[q] = {} /\ \A d \in Cart : orderOf'[d] # q
        BY DEF Fresh
    <2>1. q # r
        BY <1>1
    <2>2. order[q] = {} /\ \A d \in Cart : orderOf[d] # q
        BY <2>1, <1>1 DEF IInv, Steps, Fresh
    <2> QED BY <2>1, <2>2, <1>0, <1>1
  <1>4. Unanswered' /\ CartRead' /\ Submitting' /\ Targeted'
      BY <1>0, <1>1, <1>2 DEF IInv, Steps, Unanswered, CartRead, Submitting, Targeted
  <1>5. ClaimHeld'
    <2> SUFFICES ASSUME NEW q \in Request, pc'[q] = "claimed"
                 PROVE  rowLock'[req'[q].cart] = q /\ orderOf'[req'[q].cart] = None
        BY DEF ClaimHeld
    <2>1. q # r /\ pc[q] = "claimed"
        BY <1>1
    <2>2. rowLock[req[q].cart] = q /\ orderOf[req[q].cart] = None /\ req[q].cart \in Cart
        BY <2>1 DEF IInv, Steps, ClaimHeld, CartRead
    <2>3. req[q].cart # c
        BY <2>1, <2>2, <1>0
    <2> QED BY <2>1, <2>2, <2>3, <1>1, <1>2
  <1>6. ReadingOrder'
    <2> SUFFICES ASSUME NEW q \in Request, pc'[q] = "reading"
                 PROVE  req'[q].target # None /\ orderOf'[req'[q].cart] = req'[q].target
        BY DEF ReadingOrder
    <2>1. CASE q = r
        BY <2>1, <1>1, <1>2, RequestNotNone
    <2>2. CASE q # r
      <3>1. req[q].target # None /\ orderOf[req[q].cart] = req[q].target /\ req[q].cart \in Cart
          BY <2>2, <1>1 DEF IInv, Steps, ReadingOrder, CartRead
      <3>2. req[q].cart # c
          BY <3>1, <1>0
      <3> QED BY <2>2, <3>1, <3>2, <1>1, <1>2
    <2> QED BY <2>1, <2>2
  <1>7. OrderLinked'
    <2> SUFFICES ASSUME NEW q \in Request, order'[q] # {}
                 PROVE  req'[q].cart \in Cart /\ orderOf'[req'[q].cart] = q
        BY DEF OrderLinked
    <2>1. CASE q = r
        BY <2>1, <1>0, <1>1, <1>2
    <2>2. CASE q # r
      <3>1. req[q].cart \in Cart /\ orderOf[req[q].cart] = q
          BY <2>2, <1>1 DEF IInv, Links, OrderLinked
      <3>2. req[q].cart # c
          BY <3>1, <1>0, RequestNotNone
      <3> QED BY <2>2, <3>1, <3>2, <1>1, <1>2
    <2> QED BY <2>1, <2>2
  <1>8. LinkedOrder'
    <2> SUFFICES ASSUME NEW d \in Cart, orderOf'[d] # None
                 PROVE  order'[orderOf'[d]] # {}
        BY DEF LinkedOrder
    <2>1. CASE d = c
        BY <2>1, <1>1
    <2>2. CASE d # c
      <3>1. orderOf'[d] = orderOf[d] /\ orderOf[d] \in Request \ {r} /\ order[orderOf[d]] # {}
          BY <2>2, <1>0, <1>1 DEF IInv, Links, LinkedOrder
      <3> QED BY <3>1, <1>1
    <2> QED BY <2>1, <2>2
  <1>9. Answered'
    <2> SUFFICES ASSUME NEW q \in Request, answer[q] # None
                 PROVE  req'[q].cart \in Cart /\ orderOf'[req'[q].cart] = answer[q]
        BY <1>0 DEF Answered
    <2>1. q # r
        BY <1>0 DEF IInv, Steps, Unanswered
    <2>2. req[q].cart \in Cart /\ orderOf[req[q].cart] = answer[q]
        BY DEF IInv, Links, Answered
    <2> QED BY <2>1, <2>2, <1>0, <1>1, <1>2
  <1> QED BY <1>3, <1>4, <1>5, <1>6, <1>7, <1>8, <1>9 DEF Steps, Links

(* The answer is the order read, which is the cart's. *)
LEMMA AnswerStep == ASSUME IInv, NEW r \in Request, Answer(r) PROVE Steps' /\ Links'
  <1> USE DEF carts
  <1>0. /\ pc \in [Request -> PC] /\ answer \in [Request -> Request \cup {None}]
        /\ pc[r] = "reading" /\ req[r].cart \in Cart
        /\ orderOf[req[r].cart] = req[r].target
        /\ UNCHANGED <<orderOf, order, rowLock, req>>
      BY DEF IInv, TypeOK, Answer, Steps, CartRead, ReadingOrder
  <1>1. /\ pc'[r] = "done" /\ answer'[r] = req[r].target
        /\ \A q \in Request \ {r} : pc'[q] = pc[q] /\ answer'[q] = answer[q]
      BY <1>0 DEF Answer, Goto
  <1>2. Steps'
      BY <1>0, <1>1 DEF IInv, Steps, Fresh, Unanswered, CartRead, Submitting, ClaimHeld, ReadingOrder, Targeted
  <1>3. OrderLinked' /\ LinkedOrder'
      BY <1>0 DEF IInv, Links, OrderLinked, LinkedOrder
  <1>4. Answered'
      BY <1>0, <1>1 DEF IInv, Links, Answered
  <1> QED BY <1>2, <1>3, <1>4 DEF Links

(* A rollback frees the rows of one request only. *)
LEMMA RefuseStep == ASSUME IInv, NEW r \in Request, Refuse(r) PROVE Steps' /\ Links'
  <1> USE DEF carts
  <1>0. /\ pc \in [Request -> PC] /\ pc[r] # "done"
        /\ UNCHANGED <<orderOf, order, req, answer>>
      BY DEF IInv, TypeOK, Refuse
  <1>1. /\ pc'[r] = "refused" /\ \A q \in Request \ {r} : pc'[q] = pc[q]
        /\ \A c \in Cart : rowLock[c] # r => rowLock'[c] = rowLock[c]
      BY <1>0 DEF Refuse, Goto
  <1>2. Fresh' /\ Unanswered'
      BY <1>0, <1>1 DEF IInv, Steps, Fresh, Unanswered
  <1>3. CartRead' /\ Submitting' /\ ReadingOrder' /\ Targeted'
      BY <1>0, <1>1 DEF IInv, Steps, CartRead, Submitting, ReadingOrder, Targeted
  <1>4. ClaimHeld'
    <2> SUFFICES ASSUME NEW q \in Request, pc'[q] = "claimed"
                 PROVE  rowLock'[req'[q].cart] = q /\ orderOf'[req'[q].cart] = None
        BY DEF ClaimHeld
    <2>1. q # r /\ pc[q] = "claimed"
        BY <1>1
    <2>2. rowLock[req[q].cart] = q /\ orderOf[req[q].cart] = None /\ req[q].cart \in Cart
        BY <2>1 DEF IInv, Steps, ClaimHeld, CartRead
    <2> QED BY <2>1, <2>2, <1>0, <1>1
  <1>5. Links'
      BY <1>0 DEF IInv, Links, OrderLinked, LinkedOrder, Answered
  <1> QED BY <1>2, <1>3, <1>4, <1>5 DEF Steps

(* The strengthening is inductive. *)
LEMMA InductiveStep == IInv /\ [Next]_vars => IInv'
  <1> SUFFICES ASSUME IInv, [Next]_vars PROVE IInv'
      OBVIOUS
  <1>1. TypeOK'
      BY TypeNext DEF IInv
  <1>2. ASSUME UNCHANGED <<orderOf, order, rowLock, pc, req, answer>> PROVE Steps' /\ Links'
    <2>1. Steps'
        BY <1>2 DEF IInv, Steps, Fresh, Unanswered, CartRead, Submitting, ClaimHeld, ReadingOrder, Targeted
    <2>2. Links'
        BY <1>2 DEF IInv, Links, OrderLinked, LinkedOrder, Answered
    <2> QED BY <2>1, <2>2
  <1>3. ASSUME UNCHANGED vars PROVE Steps' /\ Links'
      BY <1>2, <1>3 DEF vars, carts
  <1>4. ASSUME Next PROVE Steps' /\ Links'
    <2>1. ASSUME NEW c \in Cart, CreateGuestCart(c) PROVE Steps' /\ Links'
        BY <1>2, <2>1 DEF CreateGuestCart
    <2>2. ASSUME NEW r \in Request, Submit(r) PROVE Steps' /\ Links'
        BY <2>2, ReadStep, ClaimStep, CommitStep, AnswerStep DEF Submit
    <2> QED BY <1>4, <2>1, <2>2, RouteStep, ReadStep, RefuseStep DEF Next
  <1>5. Steps' /\ Links'
      BY <1>3, <1>4
  <1> QED BY <1>1, <1>5 DEF IInv

LEMMA IInvInit == Init => IInv
  BY TypeInit, RestInit DEF IInv

-----------------------------------------------------------------------------
(* Every variable keeps its type. *)
THEOREM TypeCorrect == Spec => []TypeOK
  <1>1. IInv => TypeOK
      BY DEF IInv
  <1> QED BY <1>1, IInvInit, InductiveStep, PTL DEF Spec

(* The strengthening holds in every reachable state. *)
THEOREM Invariance == Spec => []IInv
  BY IInvInit, InductiveStep, PTL DEF Spec

(* However many submissions of a cart overlap, one order comes out of it       *)
(* (OrderService.createOrder).                                                 *)
THEOREM SingleOrder == Spec => []OneOrderPerCart
  <1>1. IInv => OneOrderPerCart
      BY DEF IInv, Links, OrderLinked, OneOrderPerCart
  <1> QED BY <1>1, Invariance, PTL

(* A submission is answered with the order that its cart became, whoever       *)
(* placed it.                                                                  *)
THEOREM TrueAnswer == Spec => []AnswerIsTheOrder
  <1>1. IInv => AnswerIsTheOrder
    <2> SUFFICES ASSUME IInv, NEW r \in Request, answer[r] # None
                 PROVE  order[answer[r]] # {} /\ orderOf[req[r].cart] = answer[r]
        BY DEF AnswerIsTheOrder
    <2>1. req[r].cart \in Cart /\ orderOf[req[r].cart] = answer[r]
        BY DEF IInv, Links, Answered
    <2> QED BY <2>1 DEF IInv, Links, LinkedOrder
  <1> QED BY <1>1, Invariance, PTL

(* Checkout keeps the promise of CartPromise: committing a claim places the    *)
(* order of a cart that had none, an answer tells it, all else is invisible.   *)
LEMMA PromiseStep == IInv /\ [Next]_vars => [Promise!Next]_(Promise!vars)
  <1> SUFFICES ASSUME IInv, [Next]_vars PROVE [Promise!Next]_(Promise!vars)
      OBVIOUS
  <1>1. ASSUME NEW r \in Request, CommitOrder(r) PROVE Promise!Next
    <2>1. /\ req[r].cart \in Cart /\ orderOf[req[r].cart] = None
          /\ \A d \in Cart : orderOf[d] # r
        BY <1>1 DEF CommitOrder, IInv, Steps, CartRead, ClaimHeld, Fresh
    <2>2. Promise!Place(req[r].cart, r)
        BY <1>1, <2>1 DEF CommitOrder, Promise!Place
    <2> QED BY <2>1, <2>2 DEF Promise!Next
  <1>2. ASSUME NEW r \in Request, Answer(r) PROVE Promise!Next
    <2>1. /\ req[r].cart \in Cart /\ orderOf[req[r].cart] = req[r].target
          /\ req[r].target # None /\ answer[r] = None
        BY <1>2 DEF Answer, IInv, Steps, CartRead, ReadingOrder, Unanswered
    <2>2. Promise!Tell(req[r].cart, r)
        BY <1>2, <2>1 DEF Answer, carts, Promise!Tell
    <2> QED BY <2>1, <2>2 DEF Promise!Next
  <1>3. \/ \E r \in Request : CommitOrder(r) \/ Answer(r)
        \/ UNCHANGED <<orderOf, answer>>
      BY DEF Next, vars, carts, CreateGuestCart, FindUserCart, CreateUserCart, CheckCart, InsertItem,
             ReadCart, Submit, Claim, AlreadyConverted, CartGone, FindGuestCart, Merge, FindTarget,
             Attach, MoveItems, DeleteGuestCart, Refuse
  <1> QED BY <1>1, <1>2, <1>3 DEF Promise!vars

THEOREM Refinement == Spec => ImplementsPromise
  <1>1. Init => Promise!Init
      BY DEF Init, Promise!Init
  <1> QED BY <1>1, PromiseStep, Invariance, PTL DEF Spec, ImplementsPromise, Promise!Spec

-----------------------------------------------------------------------------
(* The address book *)

BookType ==
    /\ rows \subseteq Address
    /\ flag \in [Kind -> SUBSET Address] /\ \A k \in Kind : flag[k] \subseteq rows
    /\ at \in [Call -> {"idle", "billing", "clearing billing", "shipping", "clearing shipping", "writing", "committed", "failed", "done"}]
    /\ of \in [Call -> Address \cup {Free}]
    /\ on \in [Call -> SUBSET Kind] /\ off \in [Call -> SUBSET Kind]
    /\ seen \in [Call -> SUBSET Address]
    /\ cleared \in [Call -> [Kind -> SUBSET Address]]
    /\ raced \subseteq Kind
    /\ waits \subseteq Call /\ untold \in BOOLEAN /\ asked \in Nat /\ served \in Nat /\ last \in Nat /\ last <= served
    /\ \A l \in lists : l.serial \in Nat /\ l.serial <= served

(* A request sets the defaults of a kind only while it runs, on an address,  *)
(* and clears only the kinds it sets; two that set the same have been noted. *)
Minding(r) ==
    /\ on[r] # {} \/ seen[r] # {} => Running(r)
    /\ Running(r) => of[r] \in Address
    /\ on[r] \cap off[r] = {}
    /\ \A k \in Kind : (at[r] \in {k, Clearing[k]} => k \in on[r]) /\ (k \notin on[r] => cleared[r][k] = {})
Noted == \A r, s \in Call : r # s => on[r] \cap on[s] \subseteq raced

(* What a request that has come past the clearing of a kind will leave: its  *)
(* own address at most.                                                      *)
Later == [billing |-> {"clearing billing", "shipping", "clearing shipping", "writing"},
          shipping |-> {"clearing shipping", "writing"}]
Reached(r, k) == {of[r]} \cup cleared[r][k] \cup (IF at[r] = Clearing[k] THEN seen[r] ELSE {})
Covering == \A r \in Call : \A k \in on[r] \ raced :
                at[r] \in Later[k] => flag[k] \subseteq Reached(r, k)

Lone(D) == \A a, b \in D : a = b
LoneFlags == \A k \in Kind \ raced : Lone(flag[k])

(* The page shows the newest list, or is still to receive it, and that list   *)
(* is the book; or it is to ask for one, or to hear why.                     *)
NewestIsBook ==
    /\ \A l \in lists : l.serial = served => l.list = Listed
    /\ last = served => shown = Listed
Told == \/ untold \/ asked > 0 \/ (\E r \in waits : at[r] = "committed")
        \/ NewestIsBook

Defaults == Noted /\ Covering /\ LoneFlags
BookInv == BookType /\ (\A r \in Call : Minding(r)) /\ Defaults /\ Told
-----------------------------------------------------------------------------
LEMMA Statements ==
    /\ Clearing["billing"] = "clearing billing" /\ Clearing["shipping"] = "clearing shipping"
    /\ Later["billing"] = {"clearing billing", "shipping", "clearing shipping", "writing"}
    /\ Later["shipping"] = {"clearing shipping", "writing"}
  BY DEF Clearing, Later

LEMMA FewAreLone ==
    ASSUME NEW D, D \subseteq Address
    PROVE  Cardinality(D) <= 1 <=> Lone(D)
<1>1. IsFiniteSet(D) /\ Cardinality(D) \in Nat
    BY AddressesAssumption, FS_Subset, FS_CardinalityType
<1>2. ASSUME NEW a \in D, NEW b \in D, a # b PROVE Cardinality(D) > 1
  <2>1. {a, b} \subseteq D /\ Cardinality({a}) = 1 /\ IsFiniteSet({a})
      BY FS_Singleton
  <2>2. Cardinality({a} \cup {b}) = 2
      BY <1>2, <2>1, FS_AddElement
  <2>3. {a} \cup {b} \subseteq D
      OBVIOUS
  <2>4. Cardinality({a} \cup {b}) <= Cardinality(D)
      BY <1>1, <2>3, FS_Subset
  <2> QED BY <1>1, <2>2, <2>4
<1>3. ASSUME Lone(D) PROVE Cardinality(D) <= 1
  <2>1. CASE D = {}
      BY <2>1, FS_EmptySet
  <2>2. ASSUME NEW a \in D PROVE Cardinality(D) <= 1
    <3>1. D = {a} /\ Cardinality({a}) = 1
        BY <1>3, FS_Singleton DEF Lone
    <3> QED BY <3>1
  <2> QED BY <2>1, <2>2
<1> QED BY <1>1, <1>2, <1>3 DEF Lone

LEMMA BookStarts == BookInit => BookInv
<1> SUFFICES ASSUME BookInit PROVE BookInv
    OBVIOUS
<1>1. BookType
  <2>1. rows = Existing /\ rows \subseteq Address /\ flag \in [Kind -> SUBSET rows]
      BY AddressesAssumption DEF BookInit
  <2>2. flag \in [Kind -> SUBSET Address] /\ \A k \in Kind : flag[k] \subseteq rows
      BY <2>1
  <2>3. /\ asked = 1 /\ served = 0 /\ last = 0 /\ lists = {} /\ waits = {} /\ untold = FALSE
        /\ raced = {}
      BY DEF BookInit
  <2>4. asked \in Nat /\ served \in Nat /\ last \in Nat /\ last <= served
      BY <2>3
  <2>5. /\ at \in [Call -> {"idle"}] /\ of \in [Call -> {Free}] /\ on \in [Call -> {{}}]
        /\ off \in [Call -> {{}}] /\ seen \in [Call -> {{}}] /\ cleared \in [Call -> [Kind -> {{}}]]
      BY DEF BookInit
  <2> QED BY <2>1, <2>2, <2>3, <2>4, <2>5 DEF BookType
<1>2. \A r \in Call : Minding(r)
    BY DEF BookInit, Minding, Running, Ended, Clearing, Kind
<1>3. Noted /\ Covering
    BY DEF BookInit, Noted, Covering
<1>4. LoneFlags
  <2> SUFFICES ASSUME NEW k \in Kind PROVE Lone(flag[k])
      BY DEF LoneFlags
  <2>1. flag[k] \subseteq Existing /\ Cardinality(flag[k]) <= 1
      BY DEF BookInit
  <2> QED BY <2>1, FewAreLone, AddressesAssumption
<1>5. Told
    BY DEF BookInit, Told
<1> QED BY <1>1, <1>2, <1>3, <1>4, <1>5 DEF BookInv, Defaults

(* A step of the page: of the requests it changes at most where the answered  *)
(* ones are.                                                                *)
LEMMA PageOnly ==
    ASSUME BookInv, UNCHANGED <<book, lock, op, of, on, off, seen, cleared, raced>>,
           at' \in [Call -> {"idle", "billing", "clearing billing", "shipping", "clearing shipping",
                             "writing", "committed", "failed", "done"}],
           \A r \in Call : at'[r] = at[r] \/ (at[r] \in Ended /\ at'[r] = "done"),
           waits' \subseteq waits, untold' \in BOOLEAN,
           asked' \in Nat, served' \in Nat, last' \in Nat, last' <= served',
           \A l \in lists' : l.serial \in Nat /\ l.serial <= served',
           Told'
    PROVE  BookInv'
<1>1. BookType'
    BY DEF BookInv, BookType, book
<1>2. ASSUME NEW r \in Call PROVE Minding(r)'
  <2>1. Minding(r) /\ (at'[r] = at[r] \/ (at[r] \in Ended /\ at'[r] = "done"))
      BY DEF BookInv
  <2>2. Running(r)' <=> Running(r)
      BY <2>1 DEF Running, Ended
  <2>3. \A k \in Kind : at'[r] \in {k, Clearing[k]} => at[r] \in {k, Clearing[k]}
      BY <2>1, Statements DEF Kind
  <2> QED BY <2>1, <2>2, <2>3 DEF Minding
<1>3. Covering'
  <2>1. \A r \in Call, k \in Kind : at'[r] \in Later[k] => at'[r] = at[r]
      BY Statements DEF Kind
  <2>2. \A r \in Call : on[r] \subseteq Kind
      BY DEF BookInv, BookType
  <2> QED BY <2>1, <2>2 DEF BookInv, Defaults, Covering, Reached, book
<1>4. Defaults'
    BY <1>3 DEF BookInv, Defaults, Noted, LoneFlags, Lone, book
<1> QED BY <1>1, <1>2, <1>4 DEF BookInv

(* A step that changes neither the book nor the lists, and no answer to come.  *)
LEMMA ToldStays ==
    ASSUME Told, UNCHANGED <<rows, flag, list, asked>>, untold => untold',
           \A r \in waits : at[r] = "committed" => (r \in waits' /\ at'[r] = "committed")
    PROVE  Told'
BY DEF Told, NewestIsBook, Listed, list

LEMMA ReceiveKeeps ==
    ASSUME BookInv, NEW r \in Call, NEW o, NEW a \in Address, NEW S \in SUBSET Kind, NEW U \in SUBSET Kind,
           S \cap U = {}, Receive(r, o, a, S, U)
    PROVE  BookInv'
<1> USE DEF BookInv
<1> DEFINE l == IF "billing" \in S THEN "billing" ELSE IF "shipping" \in S THEN "shipping" ELSE "writing"
<1>1. /\ at' = [at EXCEPT ![r] = l] /\ at[r] = "idle"
      /\ of' = [of EXCEPT ![r] = a] /\ on' = [on EXCEPT ![r] = S] /\ off' = [off EXCEPT ![r] = U]
      /\ UNCHANGED <<rows, flag, seen, cleared, asked, shown, lists, served, last, untold>>
      /\ waits \subseteq waits' /\ waits' \subseteq waits \cup {r}
      /\ raced' = raced \cup UNION {on[s] \cap S : s \in {t \in Call : Running(t)}}
    BY DEF Receive, Proceed, book, list
<1>2. l \in {"billing", "shipping", "writing"}
      /\ (l = "billing" => "billing" \in S) /\ (l = "shipping" => "shipping" \in S /\ "billing" \notin S)
      /\ (l = "writing" => S = {})
    BY DEF Kind
<1> HIDE DEF l
<1>3. raced' \subseteq Kind
    BY <1>1 DEF BookType
<1>4. BookType'
    BY <1>1, <1>2, <1>3 DEF BookType
<1>5. on[r] = {} /\ \A k \in Kind : cleared[r][k] = {}
    BY <1>1 DEF Minding, Running, Ended
<1>6. ASSUME NEW s \in Call PROVE Minding(s)'
  <2>1. CASE s = r
    <3>1. on'[s] = S /\ off'[s] = U /\ at'[s] = l /\ cleared'[s] = cleared[r] /\ of'[s] = a /\ seen'[s] = seen[s]
        BY <1>1, <2>1 DEF BookType
    <3>2. \A k \in Kind : l \in {k, Clearing[k]} => k \in S
        BY <1>2, Statements DEF Kind
    <3>3. Running(s)'
        BY <1>2, <3>1 DEF Running, Ended
    <3> QED BY <1>5, <3>1, <3>2, <3>3 DEF Minding
  <2>2. CASE s # r
    <3>1. on'[s] = on[s] /\ off'[s] = off[s] /\ at'[s] = at[s] /\ cleared'[s] = cleared[s] /\ of'[s] = of[s] /\ seen'[s] = seen[s]
        BY <1>1, <2>2 DEF BookType
    <3> QED BY <3>1 DEF Minding, Running
  <2> QED BY <2>1, <2>2
<1>7. Noted'
  <2> SUFFICES ASSUME NEW s \in Call, NEW t \in Call, s # t, NEW k, k \in on'[s] \cap on'[t] PROVE k \in raced'
      BY DEF Noted
  <2>1. ASSUME NEW q \in Call, q # r, k \in S, k \in on[q] PROVE k \in raced'
    <3>1. Running(q)
        BY <2>1 DEF Minding
    <3> QED BY <1>1, <2>1, <3>1
  <2>2. CASE s # r /\ t # r
      BY <1>1, <2>2 DEF Noted, Defaults, BookType
  <2>3. CASE s = r \/ t = r
      BY <1>1, <2>1, <2>3 DEF BookType
  <2> QED BY <2>2, <2>3
<1>8. Covering'
  <2> SUFFICES ASSUME NEW s \in Call, NEW k, k \in on'[s] \ raced', at'[s] \in Later[k]
               PROVE  flag'[k] \subseteq Reached(s, k)'
      BY DEF Covering
  <2>1. CASE s = r
    <3>1. at'[s] = l /\ on'[s] = S
        BY <1>1, <2>1 DEF BookType
    <3>2. k \in S /\ k \in Kind /\ l \in Later[k]
        BY <3>1
    <3>3. k = "billing" \/ k = "shipping"
        BY <3>2 DEF Kind
    <3> QED BY <1>2, <3>2, <3>3, Statements
  <2>2. CASE s # r
    <3>1. on'[s] = on[s] /\ of'[s] = of[s] /\ at'[s] = at[s] /\ k \notin raced
        BY <1>1, <2>2 DEF BookType
    <3> QED BY <1>1, <3>1 DEF Covering, Defaults, Reached
  <2> QED BY <2>1, <2>2
<1>9. LoneFlags'
    BY <1>1 DEF LoneFlags, Defaults, Lone
<1>10. Told'
  <2>1. \A q \in Call : at[q] = "committed" => at'[q] = "committed"
      BY <1>1 DEF BookType
  <2>2. waits \subseteq Call
      BY DEF BookType
  <2> QED BY <1>1, <2>1, <2>2, ToldStays DEF list
<1> QED BY <1>4, <1>6, <1>7, <1>8, <1>9, <1>10 DEF Defaults

(* A statement of a request that clears: what it has found and not reached   *)
(* becomes less only by what it has cleared, or is no default any more.      *)
LEMMA SeekKeeps ==
    ASSUME BookInv, NEW r \in Call, NEW k \in Kind, NEW S \in SUBSET Address, Seek(r, k, S),
           at[r] \in {k, Clearing[k]},
           \A s \in Call, j \in Kind :
               cleared[s][j] \subseteq cleared'[s][j] /\ (s # r \/ j # k => cleared'[s][j] = cleared[s][j]),
           cleared' \in [Call -> [Kind -> SUBSET Address]],
           k \notin raced => flag[k] \subseteq {of[r]} \cup cleared'[r][k] \cup S,
           UNCHANGED <<book, op, of, on, off, raced, front>>
    PROVE  BookInv'
<1> USE DEF BookInv
<1> DEFINE l == IF S = {} THEN After(r, k) ELSE Clearing[k]
<1>1. /\ at' = [at EXCEPT ![r] = l] /\ seen' = [seen EXCEPT ![r] = S]
      /\ UNCHANGED <<rows, flag, of, on, off, raced, waits, asked, shown, lists, served, last, untold>>
    BY DEF Seek, Proceed, book, front, list
<1>2. k \in on[r] /\ on[r] # {}
    BY DEF Minding
<1>3. /\ l \in {Clearing[k], "writing", "shipping"}
      /\ l = "shipping" => k = "billing" /\ "shipping" \in on[r]
      /\ l = "writing" => k = "shipping" \/ "shipping" \notin on[r]
      /\ l # Clearing[k] => S = {}
    BY Statements DEF After, Kind
<1>4. l \in {"clearing billing", "shipping", "clearing shipping", "writing"}
      /\ \A j \in Kind : l \in {j, Clearing[j]} => j \in on[r]
  <2> HIDE DEF l
  <2> QED BY <1>2, <1>3, Statements DEF Kind
<1> HIDE DEF l
<1>5. BookType'
    BY <1>1, <1>4 DEF BookType
<1>6. at'[r] = l /\ seen'[r] = S
      /\ \A s \in Call : s # r => at'[s] = at[s] /\ seen'[s] = seen[s]
    BY <1>1 DEF BookType
<1>7. ASSUME NEW s \in Call PROVE Minding(s)'
  <2>1. on'[s] = on[s] /\ off'[s] = off[s] /\ of'[s] = of[s]
        /\ \A j \in Kind : j \notin on[s] => cleared'[s][j] = cleared[s][j]
      BY <1>1, <1>2
  <2>2. \A j \in Kind : at'[s] \in {j, Clearing[j]} => j \in on[s]
      BY <1>4, <1>6 DEF Minding
  <2>3. (on'[s] # {} \/ seen'[s] # {} => Running(s)') /\ (Running(s)' => of'[s] \in Address)
      BY <1>2, <1>4, <1>6, <2>1 DEF Minding, Running, Ended
  <2> QED BY <2>1, <2>2, <2>3 DEF Minding
<1>8. Covering'
  <2> SUFFICES ASSUME NEW s \in Call, NEW j, j \in on'[s] \ raced', at'[s] \in Later[j]
               PROVE  flag'[j] \subseteq Reached(s, j)'
      BY DEF Covering
  <2>1. j \in on[s] /\ j \notin raced /\ j \in Kind /\ of'[s] = of[s] /\ flag'[j] = flag[j]
      BY <1>1 DEF BookType
  <2>2. CASE s # r
      BY <1>6, <2>1, <2>2 DEF Covering, Defaults, Reached
  <2>3. CASE s = r /\ j = k
    <3>1. flag[k] \subseteq {of[r]} \cup cleared'[r][k] \cup S
        BY <2>1, <2>3
    <3> QED BY <1>3, <1>6, <2>1, <2>3, <3>1 DEF Reached
  <2>4. CASE s = r /\ j # k
    <3>1. k = "shipping" /\ j = "billing"
        BY <1>3, <1>6, <2>1, <2>4, Statements DEF Kind
    <3>2. at[r] \in Later[j] /\ at[r] # Clearing[j] /\ at'[r] # Clearing[j]
        BY <1>3, <1>6, <3>1, Statements
    <3>3. flag[j] \subseteq {of[r]} \cup cleared[r][j]
        BY <2>1, <2>4, <3>2 DEF Covering, Defaults, Reached
    <3> QED BY <2>1, <2>4, <3>2, <3>3 DEF Reached
  <2> QED BY <2>2, <2>3, <2>4
<1>9. Noted' /\ LoneFlags'
    BY <1>1 DEF Noted, LoneFlags, Defaults, Lone
<1>10. Told'
  <2>1. \A s \in waits : at[s] = "committed" => at'[s] = "committed"
      BY <1>6, Statements DEF BookType, Kind
  <2> QED BY <1>1, <2>1, ToldStays DEF list
<1> QED BY <1>5, <1>7, <1>8, <1>9, <1>10 DEF Defaults

LEMMA FindKeeps ==
    ASSUME BookInv, NEW r \in Call, NEW k \in Kind, FindDefaults(r, k)
    PROVE  BookInv'
<1>1. flag[k] \ {of[r]} \in SUBSET Address /\ cleared \in [Call -> [Kind -> SUBSET Address]]
    BY DEF BookInv, BookType
<1>2. flag[k] \subseteq {of[r]} \cup cleared[r][k] \cup (flag[k] \ {of[r]})
    OBVIOUS
<1> QED BY <1>1, <1>2, SeekKeeps DEF FindDefaults

LEMMA ClearKeeps ==
    ASSUME BookInv, NEW r \in Call, NEW k \in Kind, NEW a \in Address, ClearDefault(r, k, a)
    PROVE  BookInv'
<1>1. seen[r] \ {a} \in SUBSET Address /\ cleared \in [Call -> [Kind -> SUBSET Address]]
    BY DEF BookInv, BookType
<1>2. /\ at[r] = Clearing[k] /\ Seek(r, k, seen[r] \ {a})
      /\ UNCHANGED <<book, op, of, on, off, raced, front>>
      /\ \/ a \in flag[k] /\ cleared' = [cleared EXCEPT ![r][k] = @ \cup {a}]
         \/ a \notin flag[k] /\ cleared' = cleared
    BY DEF ClearDefault
<1>3. k \notin raced => flag[k] \subseteq {of[r]} \cup cleared[r][k] \cup seen[r]
  <2>1. k \in on[r] /\ at[r] \in Later[k]
      BY <1>2, Statements DEF BookInv, Minding, Kind
  <2> QED BY <1>2, <2>1 DEF BookInv, Defaults, Covering, Reached
<1>4. /\ cleared' \in [Call -> [Kind -> SUBSET Address]]
      /\ a \in flag[k] => cleared'[r][k] = cleared[r][k] \cup {a}
      /\ \A s \in Call, j \in Kind :
            cleared[s][j] \subseteq cleared'[s][j] /\ (s # r \/ j # k => cleared'[s][j] = cleared[s][j])
    BY <1>1, <1>2
<1>5. k \notin raced => flag[k] \subseteq {of[r]} \cup cleared'[r][k] \cup (seen[r] \ {a})
    BY <1>2, <1>3, <1>4
<1> QED BY <1>1, <1>2, <1>4, <1>5, SeekKeeps

(* The end of a request that leaves of a kind what there was, or at most its *)
(* own address after having come past the clearing of it.                    *)
LEMMA EndKeeps ==
    ASSUME BookInv, NEW r \in Call, NEW outcome \in Ended, End(r, outcome), Running(r),
           rows' \subseteq Address, flag' \in [Kind -> SUBSET Address],
           \A k \in Kind : flag'[k] \subseteq rows',
           \A k \in Kind : flag'[k] \subseteq flag[k]
                           \/ (at[r] = "writing" /\ k \in on[r]
                               /\ flag'[k] \subseteq (flag[k] \ cleared[r][k]) \cup {of[r]}),
           UNCHANGED book \/ outcome = "committed"
    PROVE  BookInv'
<1> USE DEF BookInv
<1> DEFINE o == IF r \in waits THEN outcome ELSE "done"
<1>0. o \in {"committed", "failed", "done"}
    BY DEF Ended
<1>1. /\ at' = [at EXCEPT ![r] = o]
      /\ of' = [of EXCEPT ![r] = Free]
      /\ on' = [on EXCEPT ![r] = {}] /\ off' = [off EXCEPT ![r] = {}]
      /\ seen' = [seen EXCEPT ![r] = {}]
      /\ cleared' = [cleared EXCEPT ![r] = [k \in Kind |-> {}]]
      /\ raced' = {k \in raced : Cardinality(flag'[k]) > 1 \/ \E s \in Call \ {r} : k \in on[s]}
      /\ untold' = (untold \/ (outcome = "committed" /\ r \notin waits))
      /\ UNCHANGED <<waits, asked, shown, lists, served, last>>
    BY DEF End, Proceed, list
<1> HIDE DEF o
<1>2. BookType'
    BY <1>0, <1>1 DEF BookType
<1>3. /\ at'[r] = o /\ on'[r] = {} /\ off'[r] = {} /\ seen'[r] = {} /\ \A k \in Kind : cleared'[r][k] = {}
      /\ \A s \in Call : s # r => /\ at'[s] = at[s] /\ of'[s] = of[s] /\ on'[s] = on[s]
                                  /\ off'[s] = off[s] /\ seen'[s] = seen[s] /\ cleared'[s] = cleared[s]
    BY <1>1 DEF BookType
<1>4. ASSUME NEW s \in Call PROVE Minding(s)'
  <2>1. CASE s = r
      BY <1>0, <1>3, <2>1, Statements DEF Minding, Running, Ended, Kind
  <2>2. CASE s # r
      BY <1>3, <2>2 DEF Minding, Running
  <2> QED BY <2>1, <2>2
<1>5. ASSUME NEW k \in Kind, k \notin raced' PROVE k \notin raced \/ (Lone(flag'[k]) /\ \A s \in Call : k \notin on'[s])
  <2> SUFFICES ASSUME k \in raced PROVE Lone(flag'[k]) /\ \A s \in Call : k \notin on'[s]
      OBVIOUS
  <2>1. ~(Cardinality(flag'[k]) > 1) /\ \A s \in Call \ {r} : k \notin on[s]
      BY <1>1, <1>5
  <2>2. flag'[k] \subseteq Address
      OBVIOUS
  <2>3. Cardinality(flag'[k]) \in Nat
      BY <2>2, AddressesAssumption, FS_Subset, FS_CardinalityType
  <2>4. Lone(flag'[k])
      BY <2>1, <2>2, <2>3, FewAreLone
  <2> QED BY <1>3, <2>1, <2>4
<1>6. ASSUME NEW k \in Kind, k \notin raced, ~(flag'[k] \subseteq flag[k])
      PROVE  flag'[k] \subseteq {of[r]} /\ \A s \in Call : k \notin on'[s]
  <2>1. at[r] = "writing" /\ k \in on[r] /\ flag'[k] \subseteq (flag[k] \ cleared[r][k]) \cup {of[r]}
      BY <1>6
  <2>2. flag[k] \subseteq {of[r]} \cup cleared[r][k]
      BY <1>6, <2>1, Statements DEF Covering, Defaults, Reached, Kind
  <2>3. \A s \in Call : k \notin on'[s]
      BY <1>3, <1>6, <2>1 DEF Noted, Defaults
  <2> QED BY <2>1, <2>2, <2>3
<1>7. Noted'
  <2> SUFFICES ASSUME NEW s \in Call, NEW t \in Call, s # t, NEW k, k \in on'[s] \cap on'[t] PROVE k \in raced'
      BY DEF Noted
  <2>1. k \in Kind /\ k \in on[s] \cap on[t]
      BY <1>3 DEF BookType
  <2>2. k \in raced
      BY <2>1 DEF Noted, Defaults
  <2> QED BY <1>5, <2>1, <2>2
<1>8. Covering'
  <2> SUFFICES ASSUME NEW s \in Call, NEW k, k \in on'[s] \ raced', at'[s] \in Later[k]
               PROVE  flag'[k] \subseteq Reached(s, k)'
      BY DEF Covering
  <2>1. s # r /\ k \in on[s] /\ k \in Kind
      BY <1>3 DEF BookType
  <2>2. k \notin raced /\ flag'[k] \subseteq flag[k]
      BY <1>5, <1>6, <2>1
  <2>3. flag[k] \subseteq Reached(s, k)
      BY <1>3, <2>1, <2>2 DEF Covering, Defaults
  <2>4. Reached(s, k)' = Reached(s, k)
      BY <1>3, <2>1 DEF Reached
  <2> QED BY <2>2, <2>3, <2>4
<1>9. LoneFlags'
  <2> SUFFICES ASSUME NEW k \in Kind \ raced' PROVE Lone(flag'[k])
      BY DEF LoneFlags, Lone
  <2>1. CASE k \in raced
      BY <1>5, <2>1
  <2>2. CASE k \notin raced
      BY <1>6, <2>2 DEF LoneFlags, Defaults, Lone
  <2> QED BY <2>1, <2>2
<1>10. Told'
  <2>1. at[r] # "committed" /\ \A s \in waits : at[s] = "committed" => at'[s] = "committed"
      BY <1>3 DEF Running, Ended, BookType
  <2>2. CASE UNCHANGED book
      BY <1>1, <2>1, <2>2, ToldStays DEF book, list
  <2>3. CASE outcome = "committed"
      BY <1>1, <1>3, <2>3 DEF Told, o
  <2> QED BY <2>2, <2>3
<1> QED BY <1>2, <1>4, <1>7, <1>8, <1>9, <1>10 DEF Defaults

(* The flags a write leaves.                                                 *)
LEMMA WriteFlags ==
    ASSUME BookInv, NEW r \in Call, Write(r)
    PROVE  /\ of[r] \in Address => rows' \subseteq Address /\ flag' \in [Kind -> SUBSET Address]
           /\ \A k \in Kind : flag'[k] \subseteq rows'
           /\ \A k \in Kind : k \in on[r] => of[r] \in flag'[k]
           /\ \A k \in Kind : k \notin on[r] /\ k \notin off[r] => flag'[k] = flag[k]
           /\ \A k \in Kind : flag'[k] \subseteq flag[k]
                 \/ (k \in on[r] /\ flag'[k] \subseteq (flag[k] \ cleared[r][k]) \cup {of[r]})
<1>1. /\ rows' = rows \cup {of[r]}
      /\ flag' = [k \in Kind |-> ((flag[k] \ cleared[r][k]) \cup {a \in {of[r]} : k \in on[r]})
                                 \ {a \in {of[r]} : k \in off[r]}]
    BY DEF Write
<1>2. rows \subseteq Address /\ flag \in [Kind -> SUBSET Address]
    BY DEF BookInv, BookType
<1>3. ASSUME NEW k \in Kind PROVE k \notin on[r] => cleared[r][k] = {}
    BY DEF BookInv, Minding
<1>4. on[r] \cap off[r] = {}
    BY DEF BookInv, Minding
<1>5. ASSUME NEW k \in Kind
      PROVE  /\ k \in on[r] => of[r] \in flag'[k]
             /\ k \notin on[r] /\ k \notin off[r] => flag'[k] = flag[k]
             /\ flag'[k] \subseteq flag[k]
                 \/ (k \in on[r] /\ flag'[k] \subseteq (flag[k] \ cleared[r][k]) \cup {of[r]})
    BY <1>1, <1>3, <1>4
<1>6. \A k \in Kind : flag'[k] \subseteq rows'
    BY <1>1 DEF BookInv, BookType
<1> QED BY <1>1, <1>2, <1>5, <1>6

LEMMA WriteKeeps ==
    ASSUME BookInv, NEW r \in Call, Write(r)
    PROVE  BookInv'
<1>1. at[r] = "writing" /\ End(r, "committed") /\ "committed" \in Ended
    BY DEF Write, Ended
<1>2. Running(r) /\ of[r] \in Address
    BY <1>1 DEF BookInv, Minding, Running, Ended
<1> QED BY <1>1, <1>2, WriteFlags, EndKeeps

LEMMA RemoveKeeps ==
    ASSUME BookInv, NEW r \in Call, Remove(r)
    PROVE  BookInv'
<1>1. /\ at[r] = "writing"
      /\ rows' = rows \ {of[r]} /\ flag' = [k \in Kind |-> flag[k] \ {of[r]}]
    BY DEF Remove
<1>2. rows' \subseteq Address /\ flag' \in [Kind -> SUBSET Address] /\ \A k \in Kind : flag'[k] \subseteq flag[k]
    BY <1>1 DEF BookInv, BookType
<1>3. Running(r)
    BY <1>1 DEF Running, Ended
<1>4. \A k \in Kind : flag'[k] \subseteq rows'
    BY <1>1 DEF BookInv, BookType
<1>5. CASE of[r] \in rows
  <2>1. End(r, "committed") /\ "committed" \in Ended
      BY <1>5 DEF Remove, Ended
  <2> QED BY <1>2, <1>3, <1>4, <2>1, EndKeeps
<1>6. CASE of[r] \notin rows
  <2>1. End(r, "failed") /\ "failed" \in Ended
      BY <1>6 DEF Remove, Ended
  <2>2. \A k \in Kind : flag[k] \ {of[r]} = flag[k]
      BY <1>6 DEF BookInv, BookType
  <2>3. UNCHANGED book
    <3>1. flag = [k \in Kind |-> flag[k]]
        BY DEF BookInv, BookType
    <3> QED BY <1>1, <1>6, <2>2, <3>1 DEF book
  <2> QED BY <1>2, <1>3, <1>4, <2>1, <2>3, EndKeeps
<1> QED BY <1>5, <1>6

LEMMA AbortKeeps ==
    ASSUME BookInv, NEW r \in Call, Abort(r), Running(r)
    PROVE  BookInv'
<1>1. UNCHANGED book /\ UNCHANGED <<rows, flag>> /\ End(r, "failed") /\ "failed" \in Ended
    BY DEF Abort, book, Ended
<1>2. /\ rows' \subseteq Address /\ flag' \in [Kind -> SUBSET Address]
      /\ \A k \in Kind : flag'[k] \subseteq flag[k] /\ flag'[k] \subseteq rows'
    BY <1>1 DEF BookInv, BookType
<1> QED BY <1>1, <1>2, EndKeeps

LEMMA WaitersRun ==
    ASSUME BookInv, NEW r \in Call, Cancel(r)
    PROVE  Running(r)
<1>1. PICK s \in Call : Waits(r, s)
    BY DEF Cancel
<1>2. Needs(r) # {}
    BY <1>1 DEF Waits
<1> QED BY <1>2 DEF Needs, Running, Ended, BookInv, Minding

(* What the page does about answers and lists.                               *)
LEMMA PageKeeps ==
    ASSUME BookInv,
           \/ \E r \in Call : AnswerArrives(r) \/ AnswerLost(r)
           \/ ServeList \/ ListFails \/ Reload \/ \E l \in lists : SetAddresses(l) \/ ListLost(l)
    PROVE  BookInv'
<1> USE DEF BookInv
<1>1. /\ asked \in Nat /\ served \in Nat /\ last \in Nat /\ last <= served
      /\ untold \in BOOLEAN /\ waits \subseteq Call
    BY DEF BookType
<1>l. \A l \in lists : l.serial \in Nat /\ l.serial <= served
    BY DEF BookType
<1>a. at \in [Call -> {"idle", "billing", "clearing billing", "shipping", "clearing shipping",
                       "writing", "committed", "failed", "done"}]
    BY DEF BookType
<1>2. ASSUME NEW r \in Call, AnswerArrives(r) \/ AnswerLost(r) PROVE BookInv'
  <2>1. /\ at' = at \/ (at[r] \in Ended /\ at' = [at EXCEPT ![r] = "done"])
        /\ asked' = asked \/ asked' = asked + 1
        /\ untold' \in BOOLEAN /\ waits' \subseteq waits
        /\ UNCHANGED <<rows, flag, lock, op, of, on, off, seen, cleared, raced, shown, lists, served, last>>
      BY <1>1, <1>2 DEF AnswerArrives, AnswerLost, Proceed, LoadAddresses, book, list
  <2>2. Told'
    <3>1. CASE at[r] = "committed"
      <4>1. CASE AnswerArrives(r)
          BY <1>1, <3>1, <4>1 DEF AnswerArrives, LoadAddresses, Told
      <4>2. CASE AnswerLost(r)
          BY <3>1, <4>2 DEF AnswerLost, Told
      <4> QED BY <1>2, <4>1, <4>2
    <3>2. CASE at[r] # "committed"
      <4>1. UNCHANGED <<asked, untold>> /\ waits' = waits \ {r}
          BY <1>1, <1>2, <3>2 DEF AnswerArrives, AnswerLost
      <4>2. \A s \in waits : at[s] = "committed" => s \in waits' /\ at'[s] = "committed"
          BY <1>1, <1>a, <2>1, <3>2, <4>1
      <4> QED BY <2>1, <4>1, <4>2, ToldStays DEF list
    <3> QED BY <3>1, <3>2
  <2>3. /\ at' \in [Call -> {"idle", "billing", "clearing billing", "shipping", "clearing shipping",
                             "writing", "committed", "failed", "done"}]
        /\ \A s \in Call : at'[s] = at[s] \/ (at[s] \in Ended /\ at'[s] = "done")
      BY <1>a, <2>1
  <2>4. asked' \in Nat
      BY <1>1, <2>1
  <2> QED BY <1>1, <1>l, <2>1, <2>2, <2>3, <2>4, PageOnly DEF book
<1>3. CASE ServeList
  <2>1. PICK new : new = [serial |-> served + 1, list |-> Listed]
      OBVIOUS
  <2>2. /\ lists' = lists \cup {new} /\ new.serial = served + 1 /\ new.list = Listed'
        /\ served' = served + 1 /\ asked' = asked - 1 /\ asked > 0 /\ untold' = FALSE
        /\ UNCHANGED <<rows, flag, lock, at, op, of, on, off, seen, cleared, raced, waits, shown, last>>
      BY <1>3, <2>1 DEF ServeList, book, work, Listed
  <2>3. asked' \in Nat /\ served' \in Nat /\ last' <= served'
      BY <1>1, <2>2
  <2>4. \A l \in lists' : l.serial \in Nat /\ l.serial <= served'
      BY <1>1, <1>l, <2>2
  <2>5. NewestIsBook'
    <3>1. \A l \in lists : l.serial # served'
        BY <1>1, <1>l, <2>2
    <3>2. last' # served'
        BY <1>1, <2>2
    <3> QED BY <2>2, <3>1, <3>2 DEF NewestIsBook
  <2> QED BY <1>1, <1>a, <2>2, <2>3, <2>4, <2>5, PageOnly DEF Told, book
<1>4. ASSUME NEW l \in lists, SetAddresses(l) PROVE BookInv'
  <2>1. /\ UNCHANGED <<rows, flag, lock, at, op, of, on, off, seen, cleared, raced, waits, asked, served, untold>>
        /\ shown' = l.list /\ last' = l.serial /\ lists' \subseteq lists
      BY <1>4 DEF SetAddresses, book, work
  <2>2. Told'
    <3>1. NewestIsBook => NewestIsBook'
        BY <2>1 DEF NewestIsBook, Listed
    <3> QED BY <2>1, <3>1 DEF Told
  <2> QED BY <1>1, <1>l, <1>a, <2>1, <2>2, PageOnly DEF book
<1>5. CASE ListFails
  <2>1. asked' \in Nat
      BY <1>1, <1>5 DEF ListFails
  <2> QED BY <1>1, <1>l, <1>a, <1>5, <2>1, PageOnly DEF ListFails, Told, book, work, list
<1>6. ASSUME NEW l \in lists, ListLost(l) PROVE BookInv'
  <2>1. /\ UNCHANGED <<rows, flag, lock, at, op, of, on, off, seen, cleared, raced, waits, asked, shown, served,
                       last, untold>>
        /\ lists' \subseteq lists
      BY <1>6 DEF ListLost, book, work
  <2>2. Told'
      BY <2>1 DEF Told, NewestIsBook, Listed
  <2> QED BY <1>1, <1>l, <1>a, <2>1, <2>2, PageOnly DEF book
<1>7. CASE Reload
  <2>1. \A r \in Call : at'[r] = at[r] \/ (at[r] \in Ended /\ at'[r] = "done")
      BY <1>a, <1>7 DEF Reload
  <2>2. at' \in [Call -> {"idle", "billing", "clearing billing", "shipping", "clearing shipping",
                          "writing", "committed", "failed", "done"}]
      BY <1>a, <1>7 DEF Reload
  <2>3. UNCHANGED <<book, lock, op, of, on, off, seen, cleared, raced>>
        /\ asked' = 1 /\ served' = 0 /\ last' = 0 /\ lists' = {} /\ waits' = {} /\ untold' = FALSE
      BY <1>7 DEF Reload
  <2>4. asked' \in Nat /\ served' \in Nat /\ last' \in Nat /\ last' <= served' /\ asked' > 0
      BY <2>3
  <2>5. Told'
      BY <2>4 DEF Told
  <2>6. waits' \subseteq waits /\ untold' \in BOOLEAN /\ \A l \in lists' : l.serial \in Nat /\ l.serial <= served'
      BY <2>3
  <2> QED BY <2>1, <2>2, <2>3, <2>4, <2>5, <2>6, PageOnly DEF book
<1> QED BY <1>2, <1>3, <1>4, <1>5, <1>6, <1>7

LEMMA BookKept == BookInv /\ [BookNext]_bookVars => BookInv'
<1> SUFFICES ASSUME BookInv, [BookNext]_bookVars PROVE BookInv'
    OBVIOUS
<1>1. ASSUME NEW r \in Call, Create(r) \/ Update(r) \/ Delete(r) PROVE BookInv'
  <2>1. rows \subseteq Address
      BY DEF BookInv, BookType
  <2>2. CASE Create(r)
      BY <2>2, ReceiveKeeps DEF Create
  <2>3. CASE Update(r)
      BY <2>1, <2>3, ReceiveKeeps DEF Update
  <2>4. CASE Delete(r)
      BY <2>4, ReceiveKeeps DEF Delete
  <2> QED BY <1>1, <2>2, <2>3, <2>4
<1>2. ASSUME NEW r \in Call, Step(r) \/ Fail(r) PROVE BookInv'
  <2>1. ASSUME NEW k \in Kind, FindDefaults(r, k) PROVE BookInv'
      BY <2>1, FindKeeps
  <2>2. ASSUME NEW k \in Kind, NEW a \in Address, ClearDefault(r, k, a) PROVE BookInv'
      BY <2>2, ClearKeeps
  <2>3. CASE Write(r) \/ Remove(r)
      BY <2>3, WriteKeeps, RemoveKeeps
  <2>4. CASE Vanished(r) \/ Fail(r)
      BY <2>4, AbortKeeps DEF Vanished, Fail, Running, Ended
  <2>5. CASE Cancel(r)
      BY <2>5, AbortKeeps, WaitersRun DEF Cancel
  <2> QED BY <1>2, <2>1, <2>2, <2>3, <2>4, <2>5 DEF Step
<1>3. CASE UNCHANGED bookVars
  <2>1. Told'
      BY <1>3, ToldStays DEF bookVars, book, front, work, list, BookInv
  <2>2. /\ at \in [Call -> {"idle", "billing", "clearing billing", "shipping", "clearing shipping",
                            "writing", "committed", "failed", "done"}]
        /\ asked \in Nat /\ served \in Nat /\ last \in Nat /\ last <= served /\ untold \in BOOLEAN
        /\ \A l \in lists : l.serial \in Nat /\ l.serial <= served
      BY DEF BookInv, BookType
  <2> QED BY <1>3, <2>1, <2>2, PageOnly DEF bookVars, front, work, list
<1> QED BY <1>1, <1>2, <1>3, PageKeeps DEF BookNext

LEMMA BookSound == BookSpec => []BookInv
  BY BookStarts, BookKept, PTL DEF BookSpec

(* A customer has one default address of a kind, whatever fails; requests     *)
(* that set the same kind at the same time may leave several                 *)
(* (address.repository.ts:45-99).                                           *)
THEOREM DefaultsAreSingle == BookSpec => []OneDefault
<1>1. BookInv => OneDefault
    BY FewAreLone DEF BookInv, BookType, Defaults, LoneFlags, OneDefault
<1> QED BY <1>1, BookSound, PTL

(* Once all that the page waits for has been answered it lists what the book   *)
(* holds, whatever committed between its own changes, their answers and the *)
(* lists, but for a change it is not told of and for an older list that      *)
(* arrives after a newer one (compte/adresses/page.tsx:33-72).              *)
THEOREM PageShowsBook == BookSpec => []PageListsBook
<1>1. BookInv => PageListsBook
    BY DEF BookInv, Told, NewestIsBook, PageListsBook, PageQuiet
<1> QED BY <1>1, BookSound, PTL

(* A default is replaced, or taken away by a request that says so: a request  *)
(* that fails half-way never leaves the customer without (ibid.:45-51).      *)
THEOREM DefaultsSurvive == BookSpec => DefaultSurvives
<1> DEFINE Asked(k) == \E r \in Call : at[r] = "writing" /\ at'[r] # "writing"
                                       /\ (k \in off[r] \/ op[r] = "delete")
           Survive == \A k \in Kind : (flag[k] # {} /\ flag'[k] = {}) => Asked(k)
<1>1. BookInv /\ [BookNext]_bookVars => [Survive]_bookVars
  <2> SUFFICES ASSUME BookInv, BookNext, NEW k \in Kind, flag[k] # {}, flag'[k] = {} PROVE Asked(k)
      OBVIOUS
  <2>1. PICK r \in Call : Write(r) \/ Remove(r)
    <3>1. flag' # flag
        OBVIOUS
    <3>2. ASSUME NEW r \in Call, \/ Create(r) \/ Update(r) \/ Delete(r) \/ Vanished(r) \/ Cancel(r) \/ Fail(r)
                                 \/ AnswerArrives(r) \/ AnswerLost(r)
          PROVE  UNCHANGED flag
        BY <3>2 DEF Create, Update, Delete, Receive, Vanished, Cancel, Fail, Abort, AnswerArrives, AnswerLost, book
    <3>3. ASSUME NEW r \in Call, NEW j \in Kind, FindDefaults(r, j) \/ \E a \in Address : ClearDefault(r, j, a)
          PROVE  UNCHANGED flag
        BY <3>3 DEF FindDefaults, ClearDefault, book
    <3>4. ServeList \/ ListFails \/ Reload \/ (\E l \in lists : SetAddresses(l) \/ ListLost(l)) => UNCHANGED flag
        BY DEF ServeList, ListFails, Reload, SetAddresses, ListLost, book
    <3> QED BY <3>1, <3>2, <3>3, <3>4 DEF BookNext, Step
  <2>2. at[r] = "writing" /\ at'[r] # "writing"
    <3>1. at[r] = "writing" /\ \E o \in Ended : End(r, o)
        BY <2>1 DEF Write, Remove, Ended
    <3> QED BY <3>1 DEF End, Proceed, Ended, BookInv, BookType
  <2>3. CASE Write(r)
      BY <2>2, <2>3, WriteFlags
  <2>4. CASE Remove(r)
      BY <2>2, <2>4 DEF Remove
  <2> QED BY <2>1, <2>3, <2>4
<1> QED BY <1>1, BookSound, PTL DEF BookSpec, DefaultSurvives
=============================================================================
