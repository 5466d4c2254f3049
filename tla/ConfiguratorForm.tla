--------------------------- MODULE ConfiguratorForm ---------------------------
(***************************************************************************)
(* The configurator page of the shop, from the selection to the order:      *)
(* ConfiguratorForm in the browser, POST /configurator/validate,            *)
(* CartService.addItem and OrderService.createOrder, which validate again.  *)
(*                                                                         *)
(* A change of the selection clears the timer and aborts the request of the *)
(* former one in the same rendering (React runs both effects before the     *)
(* next click), and the timer of the new one starts 350 ms later.  The      *)
(* catalogue is Catalogue[1] when the page is rendered and is edited        *)
(* meanwhile: versions 2, 3 ... replace it, also between two reads of one   *)
(* validation.  The customer clicks at any time the button is enabled.      *)
(***************************************************************************)
EXTENDS Configurator

CONSTANTS
    Catalogue,  \* Catalogue[v]: the rows, the rules and the day in version v
    Model,      \* the model of the page
    Run,        \* runs of handleAddToCart: bounds the lines of the cart
    Earlier     \* what those runs among them added that are of an earlier visit

(* No revision is deleted: a line of the cart would lose its own (SetNull).   *)
ASSUME CatalogueAssumption ==
    /\ DOMAIN Catalogue \subseteq Nat /\ 1 \in DOMAIN Catalogue
    /\ \A v \in DOMAIN Catalogue : DOMAIN Catalogue[1].revisions \subseteq DOMAIN Catalogue[v].revisions

VARIABLES
    ver,        \* the current version of the catalogue
    sel,        \* variantId, revisionId, serviceIds and optionIds
    timer,      \* setTimeout is pending for sel
    requests,   \* validations under way: asked in version "from", read until "to"
    shown,      \* result, with the selection and the versions it is about: none or one
    error,      \* validationError is set
    lost,       \* history: the last validation ended in the catch
    add,        \* add[c]: where run c is, what it adds and what the page showed
    order       \* the customer's way to the order, and its lines as priced

vars == <<ver, sel, timer, requests, shown, error, lost, add, order>>
page == <<timer, requests, shown, error, lost>>

Page == Catalogue[1]
Variants == {v \in DOMAIN Page.variants : Page.variants[v].model = Model}
RevisionsOf(v) == {r \in DOMAIN Page.revisions : Page.revisions[r] = v}
OfferedServices == {s \in DOMAIN Page.services : Sold(Page.services, s)}
(* The options under the ticked services: listActive keeps the active ones.  *)
OfferedOptions(services) == {o \in DOMAIN Page.options : /\ Sold(Page.options, o)
                                                         /\ Page.options[o].service \in services}

(* seen is what a settled page showed at the click, {} on another page; the  *)
(* page awaits a run while waited is TRUE; validation reads from "from" on.  *)
Idle == [step |-> "idle", waited |-> FALSE, sel |-> None, seen |-> {}, from |-> None]

(* The customer is in the shop, then at the checkout; todo: the runs whose     *)
(* lines are still to be validated.                                         *)
NoOrder == [step |-> "shop", asked |-> None, todo |-> {}, from |-> None, lines |-> {}]

Kept(x) == [Idle EXCEPT !.step = "stored", !.sel = x]

Init ==
    /\ ver = 1
    /\ \E v \in Variants : sel = [model |-> Model, variant |-> v, revision |-> None,
                                  services |-> <<>>, options |-> <<>>]
    /\ timer = FALSE /\ requests = {} /\ shown = {} /\ error = FALSE /\ lost = FALSE
    /\ add = [c \in Run |-> IF c \in DOMAIN Earlier THEN Kept(Earlier[c]) ELSE Idle]
    /\ order = NoOrder

CatalogueEdited ==
    /\ ver + 1 \in DOMAIN Catalogue
    /\ ver' = ver + 1
    /\ UNCHANGED <<sel, page, add, order>>

-----------------------------------------------------------------------------
(* Mutant: the requests of a former selection go on. *)
NotAborted == requests

(* The clean-up of the effect.                                              *)
Aborted == {}

WithSelectableOptions(new) ==
    [new EXCEPT !.options = SelectSeq(@, LAMBDA o : o \in OfferedOptions(ToSet(new.services)))]

(* Mutant: optionIds is missing from the dependencies of the effect. *)
EffectsWithoutOptions(new) ==
    /\ sel' = WithSelectableOptions(new)
    /\ IF new = [sel EXCEPT !.options = new.options] THEN UNCHANGED page
       ELSE /\ timer' = (new.services # <<>>) /\ requests' = Aborted /\ lost' = FALSE
            /\ shown' = IF new.services = <<>> THEN {} ELSE shown
            /\ UNCHANGED error

(* The two effects that follow a change of the selection.                   *)
Effects(new) ==
    /\ sel' = WithSelectableOptions(new)
    /\ timer' = (new.services # <<>>)
    /\ requests' = Aborted
    /\ shown' = IF new.services = <<>> THEN {} ELSE shown
    /\ lost' = FALSE
    /\ UNCHANGED error

Toggled(s, x) == IF x \in ToSet(s) THEN Remove(s, x) ELSE Append(s, x)

ChangeSelection ==
    /\ order.step = "shop"
    /\ \/ \E v \in Variants \ {sel.variant} :
              Effects([sel EXCEPT !.variant = v, !.revision = None])
       \/ \E r \in (RevisionsOf(sel.variant) \cup {None}) \ {sel.revision} :
              Effects([sel EXCEPT !.revision = r])
       \/ \E s \in OfferedServices :
              Effects([sel EXCEPT !.services = Toggled(@, s)])
       \/ \E o \in OfferedOptions(ToSet(sel.services)) :
              Effects([sel EXCEPT !.options = Toggled(@, o)])
    /\ UNCHANGED <<ver, add, order>>

TimerFires ==
    /\ timer
    /\ timer' = FALSE
    /\ error' = FALSE
    /\ requests' = requests \cup
           {[sel |-> sel, from |-> ver, to |-> None, valid |-> FALSE, total |-> 0]}
    /\ UNCHANGED <<ver, sel, shown, lost, add, order>>

(* What the engine may answer that has read from version v to the current one. *)
Readings == [from \in DOMAIN Catalogue |->
                [to \in DOMAIN Catalogue |-> Views(Catalogue, from, to)]]
AnswersFrom(v, in) == UNION {Answers(db, in, None) : db \in Readings[v][ver]}

(* POST /configurator/validate: the engine answers.                         *)
Serve(q) ==
    /\ q.to = None
    /\ \E a \in AnswersFrom(q.from, q.sel) :
          requests' = (requests \ {q}) \cup {[q EXCEPT !.to = ver, !.valid = a.valid, !.total = a.total]}
    /\ UNCHANGED <<ver, sel, timer, shown, error, lost, add, order>>

Answered(q) ==
    /\ q.to # None
    /\ shown' = {q}
    /\ requests' = requests \ {q}
    /\ UNCHANGED <<ver, sel, timer, error, lost, add, order>>

(* The API answers with an error: too many requests, CSRF token, failure.    *)
Refused(q) ==
    /\ error' = TRUE
    /\ shown' = {}
    /\ requests' = requests \ {q}
    /\ UNCHANGED <<ver, sel, timer, lost, add, order>>

(* fetch rejects without an abort: the connection failed.                   *)
ConnectionFails(q) ==
    /\ lost' = TRUE
    /\ requests' = requests \ {q}
    /\ UNCHANGED <<ver, sel, timer, shown, error, add, order>>

-----------------------------------------------------------------------------
Settled == ~timer /\ requests = {} /\ ~lost

ButtonEnabled == order.step = "shop" /\ (\E q \in shown : q.valid) /\ \A c \in Run : ~add[c].waited

(* handleAddToCart keeps the selection of the rendering that was clicked.    *)
Click(c) ==
    /\ ButtonEnabled
    /\ add[c] = Idle
    /\ add' = [add EXCEPT ![c] = [step |-> "cart", waited |-> TRUE, sel |-> sel,
                                  seen |-> IF Settled THEN shown ELSE {}, from |-> None]]
    /\ UNCHANGED <<ver, sel, page, order>>

(* GET /cart/mine or POST /cart/guest; a converted cart is not given again.   *)
CartResolved(c) ==
    /\ add[c].step = "cart" /\ order.step # "placed"
    /\ add' = [add EXCEPT ![c].step = "post", ![c].from = ver]
    /\ UNCHANGED <<ver, sel, page, order>>

(* addItem: the engine has no issue ...                                     *)
Accepts(c) ==
    /\ add[c].step = "post"
    /\ \E a \in AnswersFrom(add[c].from, add[c].sel) : a.valid
    /\ add' = [add EXCEPT ![c].step = "valid", ![c].from = None]
    /\ UNCHANGED <<ver, sel, page, order>>

(* ... and the line is inserted, by another statement and with no price.      *)
AddItem(c) ==
    /\ add[c].step = "valid"
    /\ add' = [add EXCEPT ![c].step = "stored"]
    /\ UNCHANGED <<ver, sel, page, order>>

(* The answer arrives, or an error in its place, or the connection fails: the  *)
(* button is enabled again, and what the API has begun goes on.             *)
AddAnswered(c) ==
    /\ add[c].waited /\ add[c].step # "cart"
    /\ add' = [add EXCEPT ![c].waited = FALSE]
    /\ UNCHANGED <<ver, sel, page, order>>

(* No cart, a refused line, or a failure: nothing is stored.                 *)
AddFails(c) ==
    /\ add[c].step \in {"cart", "post", "valid"}
    /\ add' = [add EXCEPT ![c] = Idle]
    /\ UNCHANGED <<ver, sel, page, order>>

-----------------------------------------------------------------------------
InCart == {c \in Run : add[c].step = "stored"}

(* The customer goes to the cart and the checkout: the page is unmounted, its *)
(* effects clean up, its state is dropped, and its runs go on.               *)
GoToCheckout ==
    /\ order.step = "shop"
    /\ order' = [order EXCEPT !.step = "checkout"]
    /\ sel' = [sel EXCEPT !.revision = None, !.services = <<>>, !.options = <<>>]
    /\ timer' = FALSE /\ requests' = Aborted /\ shown' = {} /\ error' = FALSE /\ lost' = FALSE
    /\ UNCHANGED <<ver, add>>

(* createOrder reads the lines of the cart ...                              *)
Submit ==
    /\ order.step = "checkout" /\ InCart # {}
    /\ order' = [order EXCEPT !.step = "checking", !.asked = ver, !.todo = InCart, !.from = ver]
    /\ UNCHANGED <<ver, sel, page, add>>

(* Mutant: a line of the cart is priced but no longer refused. *)
RevalidatePriceOnly(c) ==
    /\ \E a \in AnswersFrom(order.from, add[c].sel) :
          order' = [order EXCEPT !.todo = @ \ {c}, !.from = ver,
                       !.lines = @ \cup {[sel |-> add[c].sel, seen |-> add[c].seen,
                                          from |-> order.from, to |-> ver, total |-> a.total]}]
    /\ UNCHANGED <<ver, sel, page, add>>

(* ... validates one after another, as it did when they were added ...        *)
Revalidate(c) ==
    /\ \E a \in AnswersFrom(order.from, add[c].sel) :
          /\ a.valid
          /\ order' = [order EXCEPT !.todo = @ \ {c}, !.from = ver,
                           !.lines = @ \cup {[sel |-> add[c].sel, seen |-> add[c].seen,
                                              from |-> order.from, to |-> ver, total |-> a.total]}]
    /\ UNCHANGED <<ver, sel, page, add>>

(* ... and writes the order with what the validations answered.              *)
PlaceOrder ==
    /\ order.step = "checking" /\ order.todo = {}
    /\ order' = [order EXCEPT !.step = "placed"]
    /\ UNCHANGED <<ver, sel, page, add>>

(* A line is not valid any more, or a failure: the cart can be submitted again. *)
OrderFails ==
    /\ order.step = "checking"
    /\ order' = [NoOrder EXCEPT !.step = "checkout"]
    /\ UNCHANGED <<ver, sel, page, add>>

Next ==
    \/ CatalogueEdited
    \/ ChangeSelection
    \/ TimerFires
    \/ \E q \in requests : Serve(q) \/ Answered(q) \/ Refused(q) \/ ConnectionFails(q)
    \/ \E c \in Run : \/ Click(c) \/ CartResolved(c) \/ Accepts(c) \/ AddItem(c)
                      \/ AddAnswered(c) \/ AddFails(c)
    \/ GoToCheckout \/ Submit \/ (\E c \in order.todo : Revalidate(c)) \/ PlaceOrder \/ OrderFails

Spec == Init /\ [][Next]_vars

-----------------------------------------------------------------------------
(* Settled page: once the timer has fired and its request has been answered, *)
(* the price on the screen is the one of the selection on the screen, and    *)
(* there is none only for an empty selection or an error.                   *)
SettledShowsSelection ==
    Settled => IF sel.services = <<>> THEN shown = {}
               ELSE IF shown = {} THEN error ELSE \A q \in shown : q.sel = sel

(* Two rules of the same level are in force: the row the engine takes is up  *)
(* to the database.                                                         *)
Tied(v, in) == \E db \in Readings[v][v] : \E x, y \in Subtotals(db, in, None) : x # y

(* Bought as shown: what a click on a settled page has added is ordered as    *)
(* the selection whose price was on the screen, at that price unless the    *)
(* catalogue was edited between the page's question and the order's          *)
(* validation, or its rules tie.                                            *)
BoughtAsShown ==
    \A p \in order.lines : \A q \in p.seen :
        /\ p.sel = q.sel
        /\ \/ p.total = q.total
           \/ q.from # p.to
           \/ Tied(p.to, p.sel)

(* What makes a selection sellable, by the kind of issue that says no.        *)
Conditions == {"model", "variant", "revision", "services", "once", "options", "required",
               "white list", "exclusions", "requirements"}

Meets(kind, db, in) ==
    LET S == ToSet(in.services)
        O == ToSet(in.options)
    IN  CASE kind = "model" -> in.model \in DOMAIN db.models /\ db.models[in.model] = "ACTIVE"
          [] kind = "variant" ->
                /\ in.variant \in DOMAIN db.variants
                /\ db.variants[in.variant].model = in.model
                /\ db.variants[in.variant].status = "ACTIVE"
          [] kind = "revision" ->
                in.revision # None => /\ in.revision \in DOMAIN db.revisions
                                      /\ db.revisions[in.revision] = in.variant
          [] kind = "services" -> \A s \in S : /\ s \in DOMAIN db.services
                                                /\ db.services[s].status = "ACTIVE"
          [] kind = "once" -> \A i, j \in DOMAIN in.services :
                                 in.services[i] = in.services[j] => i = j
          [] kind = "options" -> \A o \in O : /\ o \in DOMAIN db.options
                                               /\ db.options[o].status = "ACTIVE"
                                               /\ db.options[o].service \in S
          [] kind = "required" -> \A o \in DOMAIN db.options :
                                     db.options[o].required /\ db.options[o].status = "ACTIVE"
                                     /\ db.options[o].service \in S => o \in O
          [] kind = "white list" -> \A s \in S :
                LET rules == {r \in db.compatibility : r.service = s}
                IN  rules # {} => \E r \in rules : /\ r.model \in {None, in.model}
                                                   /\ r.variant \in {None, in.variant}
                                                   /\ r.revision \in {None, in.revision}
          [] kind = "exclusions" -> \A e \in db.exclusions : e.a \notin S \/ e.b \notin S
          [] kind = "requirements" -> \A r \in db.requirements : r.service \in S => r.needs \in S

(* Ordered was on sale: whatever was edited between the page, the two         *)
(* validations, the insertion of the line and the submission, and between   *)
(* two reads of one validation, a line of an order met every condition of    *)
(* sale at some time between the submission and the validation of the line.  *)
OrderedWasOnSale ==
    \A p \in order.lines : \A kind \in Conditions :
        \E v \in order.asked..p.to : Meets(kind, Catalogue[v], p.sel)
=============================================================================
