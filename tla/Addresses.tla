------------------------------- MODULE Addresses -------------------------------
(***************************************************************************)
(* The address book of a customer: AddressRepository, its routes, and the    *)
(* page compte/adresses that creates and deletes.                           *)
(*                                                                         *)
(* A request that makes an address a default clears the other defaults and  *)
(* writes the address in one transaction, READ COMMITTED.  An UPDATE of      *)
(* several rows finds them when it starts and locks them one after another; *)
(* for a row another transaction has locked it waits, and then compares its *)
(* WHERE clause again, but a row committed meanwhile it never sees.         *)
(* PostgreSQL cancels a transaction of a cycle of waits.                    *)
(***************************************************************************)
EXTENDS Naturals, FiniteSets

CONSTANTS
    Address,    \* rows of addresses, existing or to come
    Existing,   \* those there at the start
    Call,       \* executions of POST, PATCH and DELETE; a bound
    OfPage,     \* those the page makes; the others come from another client
    Free        \* no transaction, no address

ASSUME AddressesAssumption ==
    /\ IsFiniteSet(Address) /\ Existing \subseteq Address
    /\ OfPage \subseteq Call /\ Free \notin Call

Kind == {"billing", "shipping"}

VARIABLES
    rows,       \* the addresses of the customer
    flag,       \* flag[k]: those that are the default of kind k
    lock,       \* lock[a]: the transaction that has written row a, or Free
    at,         \* at[r]: the next statement of request r
    op,         \* op[r]: "create", "update" or "delete"
    of,         \* of[r]: its address
    on, off,    \* on[r], off[r]: the kinds of default it sets, and unsets
    seen,       \* seen[r]: rows its UPDATE has found and not reached
    cleared,    \* cleared[r][k]: rows whose default it has cleared
    raced,      \* history: kinds that overlapping requests have set
    waits,      \* requests whose answer the page awaits
    submitting, \* the creation of the form, or Free
    shown,      \* the list the page shows
    loading,    \* the page shows no button
    asked,      \* GET /addresses the API has not answered
    lists,      \* answers under way to the page, numbered as they were read
    served,     \* history: how many the API has read for the page
    last,       \* history: the number of the one it shows, 0 for none
    untold      \* history: a change since then that the page will not ask about

book == <<rows, flag>>
work == <<lock, at, op, of, on, off, seen, cleared, raced>>
list == <<shown, lists, served, last>>
front == <<waits, submitting, loading, asked, list, untold>>
bookVars == <<book, work, front>>

Listed == [rows |-> rows, flag |-> flag]
NoList == [rows |-> {}, flag |-> [k \in Kind |-> {}]]

BookInit ==
    /\ rows = Existing
    /\ flag \in [Kind -> {D \in SUBSET Existing : Cardinality(D) <= 1}]
    /\ lock = [a \in Address |-> Free]
    /\ at = [r \in Call |-> "idle"] /\ of = [r \in Call |-> Free]
    /\ op = [r \in Call |-> "none"]
    /\ on = [r \in Call |-> {}] /\ off = [r \in Call |-> {}]
    /\ seen = [r \in Call |-> {}]
    /\ cleared = [r \in Call |-> [k \in Kind |-> {}]]
    /\ raced = {}
    /\ waits = {} /\ submitting = Free /\ untold = FALSE
    /\ shown = NoList /\ loading = TRUE /\ asked = 1 /\ lists = {} /\ served = 0 /\ last = 0

Ended == {"committed", "failed"}
Running(r) == at[r] \notin {"idle", "done"} \cup Ended
Proceed(r, l) == at' = [at EXCEPT ![r] = l]

-----------------------------------------------------------------------------
(* A request comes in; the page makes one while it shows its buttons.        *)
Receive(r, o, a, S, U) ==
    /\ at[r] = "idle" /\ (r \in OfPage => ~loading)
    /\ op' = [op EXCEPT ![r] = o]
    /\ of' = [of EXCEPT ![r] = a] /\ on' = [on EXCEPT ![r] = S] /\ off' = [off EXCEPT ![r] = U]
    /\ Proceed(r, IF "billing" \in S THEN "billing" ELSE IF "shipping" \in S THEN "shipping" ELSE "writing")
    /\ raced' = raced \cup UNION {on[s] \cap S : s \in {t \in Call : Running(t)}}
    /\ waits' = IF r \in OfPage THEN waits \cup {r} ELSE waits
    /\ UNCHANGED <<book, lock, seen, cleared, loading, asked, list, untold>>

(* The form is submitted once at a time.                                    *)
Create(r) ==
    /\ \E a \in Address \ rows, S \in SUBSET Kind :
          (\A s \in Call : of[s] # a) /\ Receive(r, "create", a, S, {})
    /\ r \in OfPage => submitting = Free
    /\ submitting' = IF r \in OfPage THEN r ELSE submitting

(* updateForUser looks for the address before anything else.                 *)
Update(r) ==
    /\ r \notin OfPage
    /\ \E a \in rows, S, U \in SUBSET Kind : S \cap U = {} /\ Receive(r, "update", a, S, U)
    /\ UNCHANGED submitting

Delete(r) ==
    \E a \in Address :
        /\ a \in IF r \in OfPage THEN shown.rows ELSE rows
        /\ Receive(r, "delete", a, {}, {})
        /\ UNCHANGED submitting

-----------------------------------------------------------------------------
(* updateMany of the defaults of one kind, billing before shipping, in the    *)
(* order of the two statements.                                             *)
(* Mutant: an address that becomes both defaults clears those of billing only. *)
AfterFirst(r, k) == "writing"

After(r, k) == IF k = "billing" /\ "shipping" \in on[r] THEN "shipping" ELSE "writing"
Clearing == [billing |-> "clearing billing", shipping |-> "clearing shipping"]

Seek(r, k, S) ==
    /\ seen' = [seen EXCEPT ![r] = S]
    /\ Proceed(r, IF S = {} THEN After(r, k) ELSE Clearing[k])

FindDefaults(r, k) ==
    /\ at[r] = k
    /\ Seek(r, k, flag[k] \ {of[r]})
    /\ UNCHANGED <<book, lock, op, of, on, off, cleared, raced, front>>

(* Mutant: the defaults are cleared before the transaction. *)
ClearAtOnce(r, k, a) ==
    /\ at[r] = Clearing[k] /\ a \in seen[r] /\ lock[a] \in {Free, r}
    /\ Seek(r, k, seen[r] \ {a})
    /\ flag' = [flag EXCEPT ![k] = @ \ {a}]
    /\ UNCHANGED <<rows, lock, op, of, on, off, cleared, raced, front>>

ClearDefault(r, k, a) ==
    /\ at[r] = Clearing[k] /\ a \in seen[r] /\ lock[a] \in {Free, r}
    /\ Seek(r, k, seen[r] \ {a})
    /\ IF a \in flag[k]
       THEN /\ lock' = [lock EXCEPT ![a] = r]
            /\ cleared' = [cleared EXCEPT ![r][k] = @ \cup {a}]
       ELSE UNCHANGED <<lock, cleared>>
    /\ UNCHANGED <<book, op, of, on, off, raced, front>>

(* The request ends, and its answer goes to the page if the page awaits it.   *)
End(r, outcome) ==
    /\ Proceed(r, IF r \in waits THEN outcome ELSE "done")
    /\ lock' = [a \in Address |-> IF lock[a] = r THEN Free ELSE lock[a]]
    /\ of' = [of EXCEPT ![r] = Free] /\ op' = [op EXCEPT ![r] = "none"]
    /\ on' = [on EXCEPT ![r] = {}] /\ off' = [off EXCEPT ![r] = {}]
    /\ seen' = [seen EXCEPT ![r] = {}]
    /\ cleared' = [cleared EXCEPT ![r] = [k \in Kind |-> {}]]
    /\ raced' = {k \in raced : Cardinality(flag'[k]) > 1 \/ \E s \in Call \ {r} : k \in on[s]}
    /\ untold' = (untold \/ (outcome = "committed" /\ r \notin waits))
    /\ UNCHANGED <<waits, submitting, loading, asked, list>>

(* The address itself, and commit.  An update that does not find it any more  *)
(* throws.                                                                  *)
Write(r) ==
    /\ at[r] = "writing" /\ op[r] # "delete"
    /\ op[r] = "update" => of[r] \in rows
    /\ lock[of[r]] \in {Free, r}
    /\ rows' = rows \cup {of[r]}
    /\ flag' = [k \in Kind |-> ((flag[k] \ cleared[r][k]) \cup {a \in {of[r]} : k \in on[r]})
                               \ {a \in {of[r]} : k \in off[r]}]
    /\ End(r, "committed")

(* DELETE FROM addresses; nothing to delete is answered 404.                 *)
Remove(r) ==
    /\ at[r] = "writing" /\ op[r] = "delete"
    /\ lock[of[r]] = Free
    /\ rows' = rows \ {of[r]}
    /\ flag' = [k \in Kind |-> flag[k] \ {of[r]}]
    /\ End(r, IF of[r] \in rows THEN "committed" ELSE "failed")

Abort(r) == UNCHANGED book /\ End(r, "failed")

(* The statement fails, the connection is lost, the process dies: rollback.   *)
Fail(r) == Running(r) /\ Abort(r)

Vanished(r) == at[r] = "writing" /\ op[r] = "update" /\ of[r] \notin rows /\ Abort(r)

(* What r needs next is locked by s.                                         *)
Needs(r) == IF at[r] = "writing" THEN {of[r]} ELSE seen[r]
Waits(r, s) == /\ s # r /\ \E a \in Needs(r) : lock[a] = s
               /\ \A a \in Needs(r) : lock[a] \notin {Free, r}

(* deadlock_timeout.                                                        *)
Cancel(r) ==
    /\ \E C \in SUBSET Call :
          /\ r \in C
          /\ \A s \in C : (\E t \in C : Waits(s, t)) /\ (\E t \in C : Waits(t, s))
    /\ Abort(r)

-----------------------------------------------------------------------------
(* Mutant: no list is asked for while one is under way. *)
LoadUnlessLoading ==
    IF loading THEN UNCHANGED <<asked, loading>> ELSE asked' = asked + 1 /\ loading' = TRUE

LoadAddresses == asked' = asked + 1 /\ loading' = TRUE

(* The page receives an answer, and loads the list again after a success.     *)
AnswerArrives(r) ==
    /\ r \in waits /\ at[r] \in Ended
    /\ Proceed(r, "done")
    /\ waits' = waits \ {r}
    /\ submitting' = IF submitting = r THEN Free ELSE submitting
    /\ IF at[r] = "committed" THEN LoadAddresses ELSE UNCHANGED <<asked, loading>>
    /\ UNCHANGED <<book, lock, op, of, on, off, seen, cleared, raced, list, untold>>

(* fetch rejects: nothing that follows it in the handler is executed; what    *)
(* the API has begun goes on.                                               *)
AnswerLost(r) ==
    /\ r \in waits
    /\ waits' = waits \ {r}
    /\ IF at[r] \in Ended THEN Proceed(r, "done") ELSE UNCHANGED at
    /\ untold' = (untold \/ at[r] = "committed")
    /\ UNCHANGED <<book, lock, op, of, on, off, seen, cleared, raced, submitting, loading, asked, list>>

-----------------------------------------------------------------------------
(* The list of the page.                                                    *)
ServeList ==
    /\ asked > 0
    /\ asked' = asked - 1
    /\ served' = served + 1
    /\ lists' = lists \cup {[serial |-> served + 1, list |-> Listed]}
    /\ untold' = FALSE
    /\ UNCHANGED <<book, work, waits, submitting, loading, shown, last>>

SetAddresses(l) ==
    /\ shown' = l.list /\ last' = l.serial
    /\ loading' = FALSE /\ lists' = lists \ {l}
    /\ UNCHANGED <<book, work, waits, submitting, asked, served, untold>>

(* The API answers with an error, or fetch rejects and the page goes on       *)
(* loading.                                                                 *)
ListFails ==
    /\ asked > 0
    /\ asked' = asked - 1
    /\ loading' \in {loading, FALSE}
    /\ untold' = TRUE
    /\ UNCHANGED <<book, work, waits, submitting, list>>

ListLost(l) ==
    /\ lists' = lists \ {l}
    /\ UNCHANGED <<book, work, waits, submitting, loading, asked, shown, served, last, untold>>

(* The page is left or loaded again; what the API has begun goes on.          *)
Reload ==
    /\ at' = [r \in Call |-> IF at[r] \in Ended THEN "done" ELSE at[r]]
    /\ waits' = {} /\ submitting' = Free /\ untold' = FALSE
    /\ shown' = NoList /\ loading' = TRUE /\ asked' = 1 /\ lists' = {} /\ served' = 0 /\ last' = 0
    /\ UNCHANGED <<book, lock, op, of, on, off, seen, cleared, raced>>

Step(r) ==
    \/ \E k \in Kind : \/ FindDefaults(r, k) \/ \E a \in Address : ClearDefault(r, k, a)
    \/ Write(r) \/ Remove(r) \/ Vanished(r) \/ Cancel(r)

BookNext ==
    \/ \E r \in Call : \/ Create(r) \/ Update(r) \/ Delete(r) \/ Step(r) \/ Fail(r)
                       \/ AnswerArrives(r) \/ AnswerLost(r)
    \/ ServeList \/ ListFails \/ Reload \/ \E l \in lists : SetAddresses(l) \/ ListLost(l)

BookSpec == BookInit /\ [][BookNext]_bookVars

-----------------------------------------------------------------------------
(* A customer has one default address of a kind, whatever fails; requests     *)
(* that set the same kind at the same time may leave several                 *)
(* (address.repository.ts:45-99).                                           *)
OneDefault == \A k \in Kind : k \notin raced => Cardinality(flag[k]) <= 1

(* A default is replaced, or taken away by a request that says so: a request  *)
(* that fails half-way never leaves the customer without (ibid.:45-51).      *)
DefaultSurvives ==
    [][\A k \in Kind : (flag[k] # {} /\ flag'[k] = {}) =>
          \E r \in Call : at[r] = "writing" /\ at'[r] # "writing"
                             /\ (k \in off[r] \/ op[r] = "delete")]_bookVars

PageQuiet == waits = {} /\ asked = 0 /\ lists = {}

(* Once all that the page waits for has been answered it lists what the book   *)
(* holds, whatever committed between its own changes, their answers and the *)
(* lists.  Two exceptions: a change it is not told of since its last list    *)
(* was read (another client's, one of its own whose answer is lost, a list   *)
(* refused), and an older list that arrives after a newer one, which         *)
(* replaces it (compte/adresses/page.tsx:33-72).                            *)
PageListsBook == (PageQuiet /\ ~untold /\ last = served) => shown = Listed
=============================================================================
