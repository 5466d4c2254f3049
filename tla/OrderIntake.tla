------------------------------ MODULE OrderIntake ------------------------------
(***************************************************************************)
(* POST /orders beside the resources it competes for: the connections of    *)
(* the Prisma pool, the counters of references, the addresses, and the       *)
(* checkout page that submits a cart and may submit it again.               *)
(*                                                                         *)
(* An attempt is one execution of OrderService.createOrder.  A query outside *)
(* a transaction takes a connection of the pool and gives it back at once; a *)
(* transaction keeps its own until it ends, and the reference of each repair *)
(* case is taken with a second one meanwhile.  What two attempts on one     *)
(* cart answer is in Checkout, prices are in Configurator.                  *)
(***************************************************************************)
EXTENDS Naturals, FiniteSets

CONSTANTS
    Cart, Attempt,
    From,       \* From[c]: attempts the page of cart c may make, one or several
    Item,       \* positions of the lines of a cart
    ItemsOf,    \* ItemsOf[c]: the lines of cart c
    Address,    \* rows of addresses at the start
    PoolSize,   \* connections of the pool
    Limit,      \* 999999 in the code
    LastYear,   \* bound on the years that pass
    None

ASSUME IntakeAssumption ==
    /\ From \in [Cart -> SUBSET Attempt] /\ ItemsOf \in [Cart -> (SUBSET Item) \ {{}}]
    /\ PoolSize \in Nat \ {0} /\ Limit \in Nat \ {0} /\ LastYear \in Nat
    /\ None \notin Attempt \cup [scope : {"ORDER", "REPAIR"}, year : Nat, value : Nat]

VARIABLES
    year,       \* UTC year
    counter,    \* counter[s][y]: reference_counters.last_value
    book,       \* addresses that have not been deleted
    page,       \* page[c]: "ready", the attempt waited for, "order", "error", "stuck", "empty"
    pc,         \* pc[r]: the next statement of attempt r
    cart,       \* cart[r]: the cart submitted
    wanted,     \* wanted[r]: billing and shipping addresses
    open,       \* open[r]: r holds the connection of its transaction
    ref,        \* ref[r]: the reference taken for the next row, or None
    todo,       \* todo[r]: lines of the order that have no repair case yet
    pair,       \* pair[r][i]: the cart line at the index of order line i
    tx,         \* tx[r]: rows written by the open transaction of r
    db          \* rows committed

attempts == <<pc, cart, wanted, open, ref, todo, pair, tx>>
vars == <<year, counter, book, page, attempts, db>>

Scope == {"ORDER", "REPAIR"}
Year == 0 .. LastYear

OrderRow(r) == [kind |-> "order", order |-> r, cart |-> cart[r], item |-> None,
                device |-> None, ref |-> ref[r]]
CaseRow(r, i) == [kind |-> "case", order |-> r, cart |-> cart[r], item |-> i,
                  device |-> pair[r][i], ref |-> ref[r]]

Converted(c) == \E x \in db : x.kind = "order" /\ x.cart = c

Init ==
    /\ year = 0 /\ counter = [s \in Scope |-> [y \in Year |-> 0]]
    /\ book = Address /\ page = [c \in Cart |-> "ready"]
    /\ pc = [r \in Attempt |-> "idle"] /\ wanted = [r \in Attempt |-> {}]
    /\ cart = [r \in Attempt |-> None] /\ open = [r \in Attempt |-> FALSE] /\ ref = [r \in Attempt |-> None]
    /\ todo = [r \in Attempt |-> {}] /\ pair = [r \in Attempt |-> <<>>]
    /\ tx = [r \in Attempt |-> {}] /\ db = {}

FreeConnection == Cardinality({r \in Attempt : open[r]}) < PoolSize

Goto(r, l) == pc' = [pc EXCEPT ![r] = l]

(* The attempt is over: what it held is given back, and the page, if it still *)
(* waits for it, shows the outcome.                                         *)
End(r, outcome) ==
    /\ Goto(r, "ended")
    /\ open' = [open EXCEPT ![r] = FALSE] /\ tx' = [tx EXCEPT ![r] = {}]
    /\ ref' = [ref EXCEPT ![r] = None] /\ wanted' = [wanted EXCEPT ![r] = {}]
    /\ UNCHANGED cart
    /\ todo' = [todo EXCEPT ![r] = {}] /\ pair' = [pair EXCEPT ![r] = <<>>]
    /\ page' = [page EXCEPT ![cart[r]] = IF @ = r THEN outcome ELSE @]

Fail(r) == End(r, "error")

-----------------------------------------------------------------------------
(* The checkout page.  Its addresses were listed when it was loaded.         *)
Click(c, r) ==
    /\ pc[r] = "idle" /\ page[c] \in {"ready", "error"}
    /\ cart' = [cart EXCEPT ![r] = c]
    /\ \E b, s \in Address : wanted' = [wanted EXCEPT ![r] = {b, s}]
    /\ page' = [page EXCEPT ![c] = r]
    /\ Goto(r, "reading")
    /\ UNCHANGED <<year, counter, book, open, ref, todo, pair, tx, db>>

(* api.POST throws: submitting is never reset.  The API goes on.             *)
ConnectionLost(c) ==
    /\ page[c] \in Attempt
    /\ page' = [page EXCEPT ![c] = "stuck"]
    /\ UNCHANGED <<year, counter, book, attempts, db>>

(* GET /cart/mine finds no cart that is not converted.                       *)
Reload(c) ==
    /\ page[c] = "stuck"
    /\ page' = [page EXCEPT ![c] = IF Converted(c) THEN "empty" ELSE "ready"]
    /\ UNCHANGED <<year, counter, book, attempts, db>>

-----------------------------------------------------------------------------
(* Before the transaction.                                                  *)
ReadCart(r) ==
    /\ pc[r] = "reading" /\ FreeConnection
    /\ Goto(r, IF Converted(cart[r]) THEN "answering" ELSE "checking")
    /\ UNCHANGED <<year, counter, book, page, cart, wanted, open, ref, todo, pair, tx, db>>

(* Both addresses are read, then every line is validated and priced.         *)
ReadAddresses(r) ==
    /\ pc[r] = "checking" /\ FreeConnection
    /\ \/ /\ wanted[r] \subseteq book
          /\ Goto(r, "numbering")
          /\ UNCHANGED <<page, cart, wanted, open, ref, todo, pair, tx>>
       \/ Fail(r)
    /\ UNCHANGED <<year, counter, book, db>>

Named(s, y, v) == [scope |-> s, year |-> y, value |-> v]

(* Mutant: the reference is the scope and the number, without the year. *)
Yearless(s, y, v) == Named(s, 0, v)

Reference(s, y, v) == Named(s, y, v)

(* One upsert that returns the number, which stays taken if it is too large.  *)
TakeNumber(r, s) ==
    LET value == counter[s][year] + 1
    IN  /\ counter' = [counter EXCEPT ![s][year] = value]
        /\ \/ /\ value <= Limit
              /\ ref' = [ref EXCEPT ![r] = Reference(s, year, value)]
              /\ Goto(r, IF s = "ORDER" THEN "starting" ELSE "casing")
              /\ UNCHANGED <<page, open, tx, cart, wanted, todo, pair>>
           \/ value > Limit /\ Fail(r)
        /\ UNCHANGED <<year, book, db>>

NumberOrder(r) == pc[r] = "numbering" /\ FreeConnection /\ TakeNumber(r, "ORDER")

Begin(r) ==
    /\ pc[r] = "starting" /\ FreeConnection
    /\ open' = [open EXCEPT ![r] = TRUE]
    /\ Goto(r, "claiming")
    /\ UNCHANGED <<year, counter, book, page, cart, wanted, ref, todo, pair, tx, db>>

-----------------------------------------------------------------------------
(* The transaction.  The row of the cart is locked by the claim of another.  *)
Claimed(c) == \E r \in Attempt : open[r] /\ cart[r] = c /\ pc[r] \in {"creating", "casing"}

Claim(r) ==
    /\ pc[r] = "claiming" /\ open[r] /\ ~Claimed(cart[r])
    /\ IF Converted(cart[r])
       THEN Goto(r, "answering") /\ open' = [open EXCEPT ![r] = FALSE] /\ ref' = [ref EXCEPT ![r] = None]
       ELSE Goto(r, "creating") /\ UNCHANGED <<open, ref>>
    /\ UNCHANGED <<year, counter, book, page, cart, wanted, todo, pair, tx, db>>

Pairings(S) == {p \in [S -> S] : \A i, j \in S : i # j => p[i] # p[j]}

(* createdOrder.items comes back in the order of the database.  An address    *)
(* deleted meanwhile breaks the foreign key.                                *)
CreateOrder(r) ==
    /\ pc[r] = "creating" /\ open[r]
    /\ IF wanted[r] \subseteq book
       THEN /\ tx' = [tx EXCEPT ![r] = {OrderRow(r)}]
            /\ ref' = [ref EXCEPT ![r] = None]
            /\ todo' = [todo EXCEPT ![r] = ItemsOf[cart[r]]]
            /\ \E p \in Pairings(ItemsOf[cart[r]]) : pair' = [pair EXCEPT ![r] = p]
            /\ Goto(r, "casing")
            /\ UNCHANGED <<page, cart, wanted, open>>
       ELSE Fail(r)
    /\ UNCHANGED <<year, counter, book, db>>

(* On another connection than the transaction's, and whatever became of it.   *)
NumberCase(r) ==
    /\ pc[r] = "casing" /\ todo[r] # {} /\ ref[r] = None
    /\ FreeConnection /\ TakeNumber(r, "REPAIR")

(* Mutant: the case is created by the client of the repository, not by tx. *)
CreateCaseOutside(r) ==
    /\ pc[r] = "casing" /\ open[r] /\ ref[r] # None
    /\ \E i \in todo[r] : /\ db' = db \cup {CaseRow(r, i)}
                          /\ todo' = [todo EXCEPT ![r] = @ \ {i}]
    /\ ref' = [ref EXCEPT ![r] = None]
    /\ UNCHANGED <<year, counter, book, page, pc, cart, wanted, open, pair, tx>>

(* The case, its first history row and its event.                            *)
CreateCase(r) ==
    /\ pc[r] = "casing" /\ open[r] /\ ref[r] # None
    /\ \E i \in todo[r] : /\ tx' = [tx EXCEPT ![r] = @ \cup {CaseRow(r, i)}]
                          /\ todo' = [todo EXCEPT ![r] = @ \ {i}]
    /\ ref' = [ref EXCEPT ![r] = None]
    /\ UNCHANGED <<year, counter, book, page, pc, cart, wanted, open, pair, db>>

(* converted_to_order_id is written, and the transaction commits.            *)
Commit(r) ==
    /\ pc[r] = "casing" /\ open[r] /\ todo[r] = {}
    /\ db' = db \cup tx[r]
    /\ tx' = [tx EXCEPT ![r] = {}]
    /\ open' = [open EXCEPT ![r] = FALSE]
    /\ Goto(r, "answering")
    /\ UNCHANGED <<year, counter, book, page, cart, wanted, ref, todo, pair>>

(* getOrderForUser, and the page goes to the order.                          *)
Answer(r) ==
    /\ pc[r] = "answering" /\ FreeConnection
    /\ End(r, "order")
    /\ UNCHANGED <<year, counter, book, db>>

-----------------------------------------------------------------------------
(* Mutant: it lasts as long as its statements wait. *)
TxNeverTimesOut(r) == FALSE /\ UNCHANGED vars

(* Prisma ends a transaction that lasts more than 5 s: the attempt finds out  *)
(* with its next statement of the transaction.                              *)
TxTimeout(r) ==
    /\ open[r]
    /\ open' = [open EXCEPT ![r] = FALSE] /\ tx' = [tx EXCEPT ![r] = {}]
    /\ UNCHANGED <<year, counter, book, page, pc, cart, wanted, ref, todo, pair, db>>

InTransaction(r) == \/ pc[r] \in {"claiming", "creating"}
                    \/ pc[r] = "casing" /\ (todo[r] = {} \/ ref[r] # None)

TransactionClosed(r) ==
    /\ InTransaction(r) /\ ~open[r]
    /\ Fail(r)
    /\ UNCHANGED <<year, counter, book, db>>

WaitsForConnection(r) ==
    /\ pc[r] \in {"reading", "checking", "numbering", "starting", "casing", "answering"}
    /\ pc[r] = "casing" => todo[r] # {} /\ ref[r] = None

(* No connection within the time the pool or the transaction allows.         *)
PoolTimeout(r) ==
    /\ WaitsForConnection(r) /\ ~FreeConnection
    /\ Fail(r)
    /\ UNCHANGED <<year, counter, book, db>>

(* The API process stops: PostgreSQL rolls its transactions back.            *)
Crash ==
    /\ \E r \in Attempt : pc[r] \notin {"idle", "ended"}
    /\ pc' = [r \in Attempt |-> IF pc[r] = "idle" THEN "idle" ELSE "ended"]
    /\ open' = [r \in Attempt |-> FALSE] /\ tx' = [r \in Attempt |-> {}]
    /\ ref' = [r \in Attempt |-> None] /\ wanted' = [r \in Attempt |-> {}]
    /\ todo' = [r \in Attempt |-> {}] /\ pair' = [r \in Attempt |-> <<>>]
    /\ page' = [c \in Cart |-> IF page[c] \in Attempt THEN "stuck" ELSE page[c]]
    /\ UNCHANGED <<year, counter, book, cart, db>>

(* DELETE waits for the transaction whose order refers to the address.       *)
DeleteAddress(a) ==
    /\ a \in book
    /\ \A r \in Attempt : ~(open[r] /\ pc[r] = "casing" /\ a \in wanted[r])
    /\ book' = book \ {a}
    /\ UNCHANGED <<year, counter, page, attempts, db>>

NewYear ==
    /\ year < LastYear
    /\ year' = year + 1
    /\ UNCHANGED <<counter, book, page, attempts, db>>

Step(r) ==
    \/ ReadCart(r) \/ ReadAddresses(r) \/ NumberOrder(r) \/ Begin(r)
    \/ Claim(r) \/ CreateOrder(r) \/ NumberCase(r) \/ CreateCase(r) \/ Commit(r)
    \/ Answer(r) \/ TransactionClosed(r)

Next ==
    \/ \E r \in Attempt : Step(r) \/ TxTimeout(r) \/ PoolTimeout(r)
    \/ \E c \in Cart : ConnectionLost(c) \/ Reload(c) \/ \E r \in From[c] : Click(c, r)
    \/ \E a \in Address : DeleteAddress(a)
    \/ NewYear \/ Crash

Spec == Init /\ [][Next]_vars

(* The process runs its ready work, and Prisma its timer.                     *)
FairSpec == Spec /\ \A r \in Attempt : WF_vars(Step(r)) /\ WF_vars(TxTimeout(r))

-----------------------------------------------------------------------------
(* No two rows, whatever years, crashes and rollbacks lie between them, have   *)
(* the same reference, and none has a number past the limit                  *)
(* (outbox-claim.ts:77-98).                                                 *)
ReferencesUnique ==
    /\ \A x, y \in db : x.ref = y.ref => x = y
    /\ \A x \in db : x.ref.value <= Limit

(* One repair case for each line of an order, one order for each cart, and no *)
(* case without its order, whatever timeouts and crashes interrupted          *)
(* (order.service.ts:115-238).                                              *)
OrderIsWhole ==
    /\ \A x \in db : x.kind = "order" =>
          \A i \in ItemsOf[x.cart] :
              Cardinality({y \in db : y.kind = "case" /\ y.order = x.order /\ y.item = i}) = 1
    /\ \A x \in db : x.kind = "case" => \E y \in db : y.kind = "order" /\ y.order = x.order
    /\ \A c \in Cart : Cardinality({x \in db : x.kind = "order" /\ x.cart = c}) <= 1

(* Every attempt ends, even when the transactions hold all connections and    *)
(* wait for another.                                                        *)
RequestsEnd == \A r \in Attempt : (pc[r] # "idle") ~> (pc[r] = "ended")
=============================================================================
