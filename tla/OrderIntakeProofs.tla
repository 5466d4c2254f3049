-------------------------- MODULE OrderIntakeProofs --------------------------
(***************************************************************************)
(* Proofs about POST /orders, for any number of carts and attempts, any     *)
(* pool and any years.  No two committed rows share a reference: a number   *)
(* taken is spent, so the argument follows it, held by one attempt, then by *)
(* one row, with the counter past it.  And what is committed is whole       *)
(* orders: the argument follows the draft of an attempt, the rows of its    *)
(* open transaction, on a cart that no other attempt works on.              *)
(***************************************************************************)
EXTENDS OrderIntake, FiniteSetTheorems, TLAPS

Label == {"idle", "reading", "checking", "numbering", "starting", "claiming", "creating",
          "casing", "answering", "ended"}

References == [scope : Scope, year : Year, value : 1 .. Limit]

(* The part of the type invariant the proof rests on. *)
TypeOK ==
    /\ year \in Year
    /\ counter \in [Scope -> [Year -> Nat]]
    /\ pc \in [Attempt -> Label]
    /\ DOMAIN ref = Attempt
    /\ DOMAIN tx = Attempt

(* A reference that has been handed out. *)
Spent(v) == v \in References /\ v.value <= counter[v.scope][v.year]

Held(r) == ref[r] \in References

(* Between the order's number and the order's row, the number is held. *)
Numbered(r) == pc[r] \in {"starting", "claiming", "creating"} => Held(r)

(* What is held, written or committed was handed out. *)
AllSpent ==
    /\ \A r \in Attempt : ref[r] = None \/ Spent(ref[r])
    /\ \A r \in Attempt : \A x \in tx[r] : Spent(x.ref)
    /\ \A x \in db : Spent(x.ref)

(* What an attempt holds is held by nobody else, and by no row. *)
HeldOnce ==
    \A r \in Attempt : Held(r) =>
        /\ \A q \in Attempt \ {r} : ref[q] # ref[r]
        /\ \A q \in Attempt : \A x \in tx[q] : x.ref # ref[r]
        /\ \A x \in db : x.ref # ref[r]

(* What a row of an open transaction has, no other row has. *)
WrittenOnce ==
    \A r \in Attempt : \A x \in tx[r] :
        /\ \A q \in Attempt : \A y \in tx[q] : x.ref = y.ref => q = r /\ x = y
        /\ \A y \in db : x.ref # y.ref

CommittedOnce == \A x, y \in db : x.ref = y.ref => x = y

RefInv ==
    /\ TypeOK
    /\ \A r \in Attempt : Numbered(r)
    /\ AllSpent /\ HeldOnce /\ WrittenOnce /\ CommittedOnce

-----------------------------------------------------------------------------
(* Holding less and writing less keeps the invariant. *)
LEMMA LessKeeps ==
    ASSUME RefInv, TypeOK', UNCHANGED db, \A v : Spent(v) => Spent(v)',
           \A r \in Attempt : tx'[r] \subseteq tx[r] /\ ref'[r] \in {ref[r], None},
           \A r \in Attempt : pc'[r] \in {"starting", "claiming", "creating"} =>
                 pc[r] \in {"starting", "claiming", "creating"} /\ ref'[r] = ref[r]
    PROVE  RefInv'
<1>1. \A r \in Attempt : Numbered(r)'
      BY DEF RefInv, Numbered, Held
<1>3. AllSpent'
      BY DEF RefInv, AllSpent
<1>4. ASSUME NEW r \in Attempt, Held(r)'
      PROVE  /\ \A q \in Attempt \ {r} : ref'[q] # ref'[r]
             /\ \A q \in Attempt : \A x \in tx'[q] : x.ref # ref'[r]
             /\ \A x \in db' : x.ref # ref'[r]
  <2>1. None \notin References
        BY IntakeAssumption DEF References, Scope, Year
  <2>2. ref'[r] = ref[r] /\ Held(r)
        BY <1>4, <2>1 DEF Held
  <2> QED BY <2>1, <2>2 DEF RefInv, HeldOnce, Held
<1>5. WrittenOnce'
      BY DEF RefInv, WrittenOnce
<1>6. CommittedOnce'
      BY DEF RefInv, CommittedOnce
<1>7. HeldOnce'
      BY <1>4 DEF HeldOnce
<1> QED BY <1>1, <1>3, <1>5, <1>6, <1>7 DEF RefInv

(* A counter that moves on leaves every number it gave behind it. *)
LEMMA NumberIsNew ==
    ASSUME TypeOK, NEW s \in Scope, NEW v, Spent(v)
    PROVE  v # Named(s, year, counter[s][year] + 1)
<1> SUFFICES ASSUME v = Named(s, year, counter[s][year] + 1) PROVE FALSE
    OBVIOUS
<1>1. v.scope = s /\ v.year = year /\ v.value = counter[s][year] + 1
      BY DEF Named
<1>2. counter[s][year] \in Nat
      BY DEF TypeOK
<1> QED BY <1>1, <1>2 DEF Spent

LEMMA CounterMoves ==
    ASSUME TypeOK, NEW s \in Scope,
           counter' = [counter EXCEPT ![s][year] = counter[s][year] + 1]
    PROVE  /\ counter' \in [Scope -> [Year -> Nat]]
           /\ \A v : Spent(v) => Spent(v)'
           /\ counter[s][year] + 1 <= Limit =>
                 \A v : v = Named(s, year, counter[s][year] + 1) => Spent(v)'
<1> DEFINE n == counter[s][year] + 1
           row == [counter[s] EXCEPT ![year] = n]
<1>1. n \in Nat \ {0} /\ year \in Year
      BY DEF TypeOK
<1>2. row \in [Year -> Nat] /\ row[year] = n
      BY <1>1 DEF TypeOK
<1>3. counter' = [counter EXCEPT ![s] = row]
      BY DEF TypeOK
<1>4. counter' \in [Scope -> [Year -> Nat]] /\ counter'[s][year] = n
      BY <1>2, <1>3 DEF TypeOK
<1>5. \A t \in Scope, y \in Year : counter[t][y] <= counter'[t][y]
  <2> SUFFICES ASSUME NEW t \in Scope, NEW y \in Year PROVE counter[t][y] <= counter'[t][y]
      OBVIOUS
  <2>1. counter[t][y] \in Nat
        BY DEF TypeOK
  <2>2. CASE t = s /\ y = year
        BY <1>4, <2>1, <2>2
  <2>3. CASE t # s
        BY <1>3, <2>1, <2>3 DEF TypeOK
  <2>4. CASE t = s /\ y # year
    <3>1. counter'[t] = row
          BY <1>3, <2>4 DEF TypeOK
    <3>2. row[y] = counter[s][y]
          BY <2>4 DEF TypeOK
    <3> QED BY <2>1, <2>4, <3>1, <3>2
  <2> QED BY <2>2, <2>3, <2>4
<1>6. ASSUME NEW v, Spent(v) PROVE Spent(v)'
  <2>1. v.scope \in Scope /\ v.year \in Year /\ v.value \in Nat
        BY <1>6 DEF Spent, References
  <2>2. counter[v.scope][v.year] \in Nat /\ counter'[v.scope][v.year] \in Nat
        BY <1>4, <2>1 DEF TypeOK
  <2> QED BY <1>5, <1>6, <2>1, <2>2 DEF Spent
<1>7. ASSUME n <= Limit, NEW v, v = Named(s, year, n) PROVE Spent(v)'
  <2>1. v \in References
        BY <1>1, <1>7, IntakeAssumption DEF Named, References
  <2>2. v.scope = s /\ v.year = year /\ v.value = n
        BY <1>7 DEF Named
  <2> QED BY <1>1, <1>4, <2>1, <2>2 DEF Spent
<1> QED BY <1>4, <1>6, <1>7

(* Taking a number: it is new, so it is held once. *)
LEMMA TakeKeeps ==
    ASSUME RefInv, TypeOK', NEW r \in Attempt, NEW s \in Scope,
           counter' = [counter EXCEPT ![s][year] = counter[s][year] + 1],
           counter[s][year] + 1 <= Limit,
           ref' = [ref EXCEPT ![r] = Named(s, year, counter[s][year] + 1)],
           UNCHANGED <<tx, db>>,
           \A q \in Attempt \ {r} : pc'[q] = pc[q]
    PROVE  RefInv'
<1> PICK new : new = Named(s, year, counter[s][year] + 1)
    OBVIOUS
<1>1. TypeOK
      BY DEF RefInv
<1>2. \A v : Spent(v) => Spent(v)' /\ v # new
      BY <1>1, CounterMoves, NumberIsNew
<1>3. Spent(new)' /\ new \in References /\ new # None
  <2>1. Spent(new)'
        BY <1>1, CounterMoves
  <2>2. new \in References
        BY <2>1 DEF Spent
  <2> QED BY <2>1, <2>2, IntakeAssumption DEF References, Scope, Year
<1>4. ref'[r] = new /\ \A q \in Attempt \ {r} : ref'[q] = ref[q]
      BY <1>1 DEF TypeOK
<1>5. \A q \in Attempt : Numbered(q)'
      BY <1>3, <1>4 DEF RefInv, Numbered, Held
<1>6. AllSpent'
      BY <1>2, <1>3, <1>4 DEF RefInv, AllSpent
<1>7. HeldOnce'
  <2> SUFFICES ASSUME NEW q \in Attempt, Held(q)'
               PROVE  /\ \A p \in Attempt \ {q} : ref'[p] # ref'[q]
                      /\ \A p \in Attempt : \A x \in tx'[p] : x.ref # ref'[q]
                      /\ \A x \in db' : x.ref # ref'[q]
      BY DEF HeldOnce
  <2>1. CASE q = r
        BY <1>2, <1>3, <1>4, <2>1 DEF RefInv, AllSpent
  <2>2. CASE q # r
    <3>1. ref'[q] = ref[q] /\ Held(q) /\ ref[q] # None
          BY <1>4, <2>2, IntakeAssumption DEF Held, References, Scope, Year
    <3>2. ref[q] # new
          BY <1>2, <3>1 DEF RefInv, AllSpent
    <3> QED BY <1>4, <3>1, <3>2 DEF RefInv, HeldOnce
  <2> QED BY <2>1, <2>2
<1>8. WrittenOnce' /\ CommittedOnce'
      BY DEF RefInv, WrittenOnce, CommittedOnce
<1> QED BY <1>5, <1>6, <1>7, <1>8 DEF RefInv

(* Writing a row moves the number held into it. *)
LEMMA WriteKeeps ==
    ASSUME RefInv, TypeOK', NEW r \in Attempt, Held(r), NEW row, row.ref = ref[r],
           UNCHANGED <<counter, db>>,
           \A q \in Attempt \ {r} : tx'[q] = tx[q] /\ pc'[q] = pc[q],
           tx'[r] \subseteq tx[r] \cup {row},
           ref' = [ref EXCEPT ![r] = None],
           pc'[r] = "casing"
    PROVE  RefInv'
<1>1. ref'[r] = None /\ \A q \in Attempt \ {r} : ref'[q] = ref[q]
      BY DEF RefInv, TypeOK
<1>2. None \notin References
      BY IntakeAssumption DEF References, Scope, Year
<1>3. \A q \in Attempt : Numbered(q)'
      BY <1>1 DEF RefInv, Numbered, Held
<1>4. AllSpent'
  <2>1. \A v : Spent(v) => Spent(v)'
        BY DEF Spent
  <2>2. Spent(row.ref)
        BY <1>2 DEF RefInv, AllSpent, Held
  <2> QED BY <1>1, <2>1, <2>2 DEF RefInv, AllSpent
<1>5. HeldOnce'
  <2> SUFFICES ASSUME NEW q \in Attempt, Held(q)'
               PROVE  /\ \A p \in Attempt \ {q} : ref'[p] # ref'[q]
                      /\ \A p \in Attempt : \A x \in tx'[p] : x.ref # ref'[q]
                      /\ \A x \in db' : x.ref # ref'[q]
      BY DEF HeldOnce
  <2>1. q # r /\ ref'[q] = ref[q] /\ Held(q) /\ ref[q] # None
        BY <1>1, <1>2 DEF Held
  <2> QED BY <1>1, <2>1 DEF RefInv, HeldOnce
<1>6. WrittenOnce'
  <2>1. \A q \in Attempt : \A x \in tx[q] : x.ref # row.ref
        BY DEF RefInv, HeldOnce
  <2>2. \A x \in db : x.ref # row.ref
        BY DEF RefInv, HeldOnce
  <2> QED BY <2>1, <2>2 DEF RefInv, WrittenOnce
<1>7. CommittedOnce'
      BY DEF RefInv, CommittedOnce
<1> QED BY <1>3, <1>4, <1>5, <1>6, <1>7 DEF RefInv

(* A commit moves the rows of one transaction to the database. *)
LEMMA CommitKeeps ==
    ASSUME RefInv, TypeOK', NEW r \in Attempt,
           UNCHANGED <<counter, ref>>,
           db' = db \cup tx[r], tx' = [tx EXCEPT ![r] = {}],
           \A q \in Attempt \ {r} : pc'[q] = pc[q], pc'[r] = "answering"
    PROVE  RefInv'
<1>1. tx'[r] = {} /\ \A q \in Attempt \ {r} : tx'[q] = tx[q]
      BY DEF RefInv, TypeOK
<1>2. \A q \in Attempt : Numbered(q)'
      BY DEF RefInv, Numbered, Held
<1>3. AllSpent'
  <2>1. \A v : Spent(v) => Spent(v)'
        BY DEF Spent
  <2> QED BY <1>1, <2>1 DEF RefInv, AllSpent
<1>4. HeldOnce'
      BY <1>1 DEF RefInv, HeldOnce, Held
<1>5. WrittenOnce'
      BY <1>1 DEF RefInv, WrittenOnce
<1>6. CommittedOnce'
      BY DEF RefInv, WrittenOnce, CommittedOnce
<1> QED BY <1>2, <1>3, <1>4, <1>5, <1>6 DEF RefInv

-----------------------------------------------------------------------------
LEMMA CountersKept ==
    ASSUME UNCHANGED counter
    PROVE  \A v : Spent(v) => Spent(v)'
BY DEF Spent

LEMMA GotoTypes ==
    ASSUME TypeOK, NEW r \in Attempt, NEW l \in Label, Goto(r, l)
    PROVE  /\ pc' \in [Attempt -> Label] /\ pc'[r] = l
           /\ \A q \in Attempt \ {r} : pc'[q] = pc[q]
BY DEF TypeOK, Goto

(* The end of an attempt gives up what it holds and has written. *)
LEMMA EndKeeps ==
    ASSUME RefInv, NEW r \in Attempt, NEW outcome, End(r, outcome), UNCHANGED <<year, db>>,
           counter' \in [Scope -> [Year -> Nat]], \A v : Spent(v) => Spent(v)'
    PROVE  RefInv'
<1>1. TypeOK
      BY DEF RefInv
<1>2. /\ pc' \in [Attempt -> Label] /\ pc'[r] = "ended"
      /\ \A q \in Attempt \ {r} : pc'[q] = pc[q]
      BY <1>1, GotoTypes DEF End, Label
<1>3. /\ DOMAIN ref' = Attempt /\ DOMAIN tx' = Attempt
      /\ ref'[r] = None /\ tx'[r] = {}
      /\ \A q \in Attempt \ {r} : ref'[q] = ref[q] /\ tx'[q] = tx[q]
      BY <1>1 DEF End, TypeOK
<1>4. TypeOK'
      BY <1>1, <1>2, <1>3 DEF TypeOK
<1>5. \A q \in Attempt : tx'[q] \subseteq tx[q] /\ ref'[q] \in {ref[q], None}
      BY <1>3
<1>6. \A q \in Attempt : pc'[q] \in {"starting", "claiming", "creating"} =>
          pc[q] \in {"starting", "claiming", "creating"} /\ ref'[q] = ref[q]
      BY <1>2, <1>3
<1> QED BY <1>4, <1>5, <1>6, LessKeeps

(* A step that moves an attempt on, taking no number and writing nothing. *)
LEMMA MoveKeeps ==
    ASSUME RefInv, NEW r \in Attempt, NEW l \in Label, Goto(r, l),
           UNCHANGED <<year, counter, db, tx, ref>>,
           l \in {"starting", "claiming", "creating"} =>
               pc[r] \in {"starting", "claiming", "creating"}
    PROVE  RefInv'
<1>1. TypeOK
      BY DEF RefInv
<1>2. /\ pc' \in [Attempt -> Label] /\ pc'[r] = l
      /\ \A q \in Attempt \ {r} : pc'[q] = pc[q]
      BY <1>1, GotoTypes
<1>3. TypeOK'
      BY <1>1, <1>2 DEF TypeOK
<1>4. \A q \in Attempt : pc'[q] \in {"starting", "claiming", "creating"} =>
          pc[q] \in {"starting", "claiming", "creating"} /\ ref'[q] = ref[q]
      BY <1>2
<1>5. \A v : Spent(v) => Spent(v)'
      BY CountersKept
<1> QED BY <1>3, <1>4, <1>5, LessKeeps

LEMMA TakeNumberKeeps ==
    ASSUME RefInv, NEW r \in Attempt, NEW s \in Scope, TakeNumber(r, s)
    PROVE  RefInv'
<1>1. TypeOK
      BY DEF RefInv
<1>2. counter' = [counter EXCEPT ![s][year] = counter[s][year] + 1] /\ UNCHANGED <<year, db>>
      BY DEF TakeNumber
<1>3. counter' \in [Scope -> [Year -> Nat]] /\ \A v : Spent(v) => Spent(v)'
      BY <1>1, <1>2, CounterMoves
<1>4. CASE Fail(r)
      BY <1>2, <1>3, <1>4, EndKeeps DEF Fail
<1>5. CASE ~Fail(r)
  <2>1. /\ counter[s][year] + 1 <= Limit
        /\ ref' = [ref EXCEPT ![r] = Named(s, year, counter[s][year] + 1)]
        /\ Goto(r, IF s = "ORDER" THEN "starting" ELSE "casing")
        /\ UNCHANGED tx
        BY <1>5 DEF TakeNumber, Reference
  <2>2. (IF s = "ORDER" THEN "starting" ELSE "casing") \in Label
        BY DEF Label
  <2>3. pc' \in [Attempt -> Label] /\ \A q \in Attempt \ {r} : pc'[q] = pc[q]
        BY <1>1, <2>1, <2>2, GotoTypes
  <2>4. DOMAIN ref' = Attempt
        BY <1>1, <2>1 DEF TypeOK
  <2>5. TypeOK'
        BY <1>1, <1>2, <1>3, <2>1, <2>3, <2>4 DEF TypeOK
  <2> QED BY <1>2, <2>1, <2>3, <2>5, TakeKeeps
<1> QED BY <1>4, <1>5

(* The order's row takes the order's number. *)
LEMMA CreateOrderKeeps ==
    ASSUME RefInv, NEW r \in Attempt, CreateOrder(r)
    PROVE  RefInv'
<1>1. TypeOK /\ Numbered(r)
      BY DEF RefInv
<1>2. CASE Fail(r)
      BY <1>1, <1>2, EndKeeps, CountersKept DEF CreateOrder, Fail, TypeOK
<1>3. CASE ~Fail(r)
  <2>1. /\ tx' = [tx EXCEPT ![r] = {OrderRow(r)}] /\ ref' = [ref EXCEPT ![r] = None]
        /\ Goto(r, "casing") /\ UNCHANGED <<year, counter, db>>
        BY <1>3 DEF CreateOrder
  <2>2. /\ pc' \in [Attempt -> Label] /\ pc'[r] = "casing"
        /\ \A q \in Attempt \ {r} : pc'[q] = pc[q]
        BY <1>1, <2>1, GotoTypes DEF Label
  <2>3. TypeOK'
        BY <1>1, <2>1, <2>2 DEF TypeOK
  <2>4. Held(r) /\ OrderRow(r).ref = ref[r]
        BY <1>1 DEF CreateOrder, Numbered, OrderRow
  <2>5. tx'[r] \subseteq tx[r] \cup {OrderRow(r)} /\ \A q \in Attempt \ {r} : tx'[q] = tx[q]
        BY <1>1, <2>1 DEF TypeOK
  <2> QED BY <2>1, <2>2, <2>3, <2>4, <2>5, WriteKeeps
<1> QED BY <1>2, <1>3

(* The case's row takes the case's number. *)
LEMMA CreateCaseKeeps ==
    ASSUME RefInv, NEW r \in Attempt, CreateCase(r)
    PROVE  RefInv'
<1>1. TypeOK
      BY DEF RefInv
<1>2. PICK i \in todo[r] : tx' = [tx EXCEPT ![r] = @ \cup {CaseRow(r, i)}]
      BY DEF CreateCase
<1>3. /\ ref' = [ref EXCEPT ![r] = None] /\ UNCHANGED <<year, counter, db, pc>>
      /\ pc[r] = "casing"
      BY DEF CreateCase
<1>4. TypeOK'
      BY <1>1, <1>2, <1>3 DEF TypeOK
<1>5. Held(r) /\ CaseRow(r, i).ref = ref[r]
      BY DEF RefInv, AllSpent, Spent, Held, CreateCase, CaseRow
<1>6. /\ tx'[r] \subseteq tx[r] \cup {CaseRow(r, i)}
      /\ \A q \in Attempt \ {r} : tx'[q] = tx[q]
      BY <1>1, <1>2 DEF TypeOK
<1> QED BY <1>3, <1>4, <1>5, <1>6, WriteKeeps

LEMMA StepKeeps ==
    ASSUME RefInv, NEW r \in Attempt, Step(r)
    PROVE  RefInv'
<1>1. TypeOK
      BY DEF RefInv
<1> USE DEF Label
<1>2. CASE ReadCart(r)
      BY <1>2, MoveKeeps DEF ReadCart
<1>3. CASE ReadAddresses(r)
  <2>1. CASE Fail(r)
        BY <1>1, <1>3, <2>1, EndKeeps, CountersKept DEF ReadAddresses, Fail, TypeOK
  <2> QED BY <1>3, <2>1, MoveKeeps DEF ReadAddresses
<1>4. CASE NumberOrder(r) \/ NumberCase(r)
      BY <1>4, TakeNumberKeeps DEF NumberOrder, NumberCase, Scope
<1>5. CASE Begin(r)
      BY <1>5, MoveKeeps DEF Begin
<1>6. CASE Claim(r)
  <2>1. CASE Converted(cart[r])
    <3>1. /\ pc' \in [Attempt -> Label] /\ pc'[r] = "answering"
          /\ \A q \in Attempt \ {r} : pc'[q] = pc[q]
          BY <1>1, <1>6, <2>1, GotoTypes DEF Claim
    <3>2. /\ ref' = [ref EXCEPT ![r] = None] /\ UNCHANGED <<year, counter, db, tx>>
          BY <1>6, <2>1 DEF Claim
    <3>3. TypeOK' /\ ref'[r] = None /\ \A q \in Attempt \ {r} : ref'[q] = ref[q]
          BY <1>1, <3>1, <3>2 DEF TypeOK
    <3>4. \A v : Spent(v) => Spent(v)'
          BY <3>2, CountersKept
    <3>5. \A q \in Attempt : pc'[q] \in {"starting", "claiming", "creating"} =>
              pc[q] \in {"starting", "claiming", "creating"} /\ ref'[q] = ref[q]
          BY <3>1, <3>3
    <3> QED BY <3>2, <3>3, <3>4, <3>5, LessKeeps
  <2> QED BY <1>6, <2>1, MoveKeeps DEF Claim
<1>7. CASE CreateOrder(r)
      BY <1>7, CreateOrderKeeps
<1>8. CASE CreateCase(r)
      BY <1>8, CreateCaseKeeps
<1>9. CASE Commit(r)
  <2>1. /\ pc' \in [Attempt -> Label] /\ pc'[r] = "answering"
        /\ \A q \in Attempt \ {r} : pc'[q] = pc[q]
        BY <1>1, <1>9, GotoTypes DEF Commit
  <2>2. TypeOK'
        BY <1>1, <1>9, <2>1 DEF Commit, TypeOK
  <2> QED BY <1>9, <2>1, <2>2, CommitKeeps DEF Commit
<1>10. CASE Answer(r) \/ TransactionClosed(r)
      BY <1>1, <1>10, EndKeeps, CountersKept DEF Answer, TransactionClosed, Fail, TypeOK
<1> QED BY <1>2, <1>3, <1>4, <1>5, <1>6, <1>7, <1>8, <1>9, <1>10 DEF Step

(* What befalls the attempts from outside: timeouts, crashes, the page, the year. *)
LEMMA OutsideKeeps ==
    ASSUME RefInv,
           \/ \E r \in Attempt : TxTimeout(r) \/ PoolTimeout(r)
           \/ \E c \in Cart : ConnectionLost(c) \/ Reload(c) \/ \E r \in From[c] : Click(c, r)
           \/ \E a \in Address : DeleteAddress(a)
           \/ NewYear \/ Crash \/ UNCHANGED vars
    PROVE  RefInv'
<1>1. TypeOK
      BY DEF RefInv
<1>2. ASSUME UNCHANGED <<counter, db, tx, ref, pc>>, year' \in Year PROVE RefInv'
  <2>1. TypeOK'
        BY <1>1, <1>2 DEF TypeOK
  <2> QED BY <1>2, <2>1, CountersKept, LessKeeps
<1>3. ASSUME NEW r \in Attempt, TxTimeout(r) PROVE RefInv'
  <2>1. UNCHANGED <<year, counter, pc, ref, db>> /\ tx' = [tx EXCEPT ![r] = {}]
        BY <1>3 DEF TxTimeout
  <2>2. TypeOK' /\ \A q \in Attempt : tx'[q] \subseteq tx[q]
        BY <1>1, <2>1 DEF TypeOK
  <2> QED BY <2>1, <2>2, CountersKept, LessKeeps
<1>4. ASSUME NEW r \in Attempt, PoolTimeout(r) PROVE RefInv'
      BY <1>1, <1>4, EndKeeps, CountersKept DEF PoolTimeout, Fail, TypeOK
<1>5. ASSUME NEW c \in Cart, NEW r \in From[c], Click(c, r) PROVE RefInv'
  <2>1. r \in Attempt
        BY IntakeAssumption
  <2>2. Goto(r, "reading") /\ UNCHANGED <<year, counter, ref, tx, db>>
        BY <1>5 DEF Click
  <2> QED BY <2>1, <2>2, MoveKeeps DEF Label
<1>6. CASE \/ \E c \in Cart : ConnectionLost(c) \/ Reload(c)
           \/ \E a \in Address : DeleteAddress(a)
           \/ UNCHANGED vars
  <2>1. UNCHANGED <<year, counter, attempts, db>>
        BY <1>6 DEF ConnectionLost, Reload, DeleteAddress, vars
  <2> QED BY <1>1, <1>2, <2>1 DEF attempts, TypeOK
<1>7. CASE NewYear
  <2>1. UNCHANGED <<counter, attempts, db>>
        BY <1>7 DEF NewYear
  <2>2. year' \in Year
        BY <1>1, <1>7, IntakeAssumption DEF NewYear, TypeOK, Year
  <2> QED BY <1>2, <2>1, <2>2 DEF attempts
<1>8. CASE Crash
  <2>1. /\ pc' = [r \in Attempt |-> IF pc[r] = "idle" THEN "idle" ELSE "ended"]
        /\ tx' = [r \in Attempt |-> {}] /\ ref' = [r \in Attempt |-> None]
        /\ UNCHANGED <<year, counter, db>>
        BY <1>8 DEF Crash
  <2>2. TypeOK'
        BY <1>1, <2>1 DEF TypeOK, Label
  <2> QED BY <2>1, <2>2, CountersKept, LessKeeps
<1> QED BY <1>3, <1>4, <1>5, <1>6, <1>7, <1>8

LEMMA InitRefInv == Init => RefInv
<1> SUFFICES ASSUME Init PROVE RefInv
    OBVIOUS
<1>1. TypeOK
  <2>1. year \in Year /\ counter \in [Scope -> [Year -> Nat]]
        BY IntakeAssumption DEF Init, Year
  <2> QED BY <2>1 DEF Init, TypeOK, Label
<1>2. /\ \A r \in Attempt : pc[r] = "idle" /\ ref[r] = None /\ tx[r] = {}
      /\ db = {}
      BY DEF Init
<1>3. None \notin References
      BY IntakeAssumption DEF References, Scope, Year
<1> QED BY <1>1, <1>2, <1>3
        DEF RefInv, Numbered, AllSpent, HeldOnce, WrittenOnce, CommittedOnce, Held

(* Every number follows its way from the counter to at most one row. *)
THEOREM RefInvariance == Spec => []RefInv
<1>1. RefInv /\ [Next]_vars => RefInv'
      BY StepKeeps, OutsideKeeps DEF Next
<1> QED BY <1>1, InitRefInv, PTL DEF Spec

(* For any number of carts, attempts and connections, through timeouts,     *)
(* crashes, rollbacks and changes of year: no two rows have the same        *)
(* reference, and none has a number past the limit.                         *)
THEOREM ReferencesAreUnique == Spec => []ReferencesUnique
<1>1. RefInv => ReferencesUnique
  <2> SUFFICES ASSUME RefInv PROVE ReferencesUnique
      OBVIOUS
  <2>1. \A x \in db : x.ref \in References
        BY DEF RefInv, AllSpent, Spent
  <2>2. \A x \in db : x.ref.value \in 1 .. Limit
        BY <2>1 DEF References
  <2> QED BY <2>2, IntakeAssumption DEF RefInv, CommittedOnce, ReferencesUnique
<1> QED BY <1>1, RefInvariance, PTL

-----------------------------------------------------------------------------
(* Orders are whole.                                                        *)
One(S) == \E x \in S : S = {x}

OrdersOf(S) == {x \in S : x.kind = "order"}
CasesOf(S, r, i) == {x \in S : x.kind = "case" /\ x.order = r /\ x.item = i}

(* The attempt that holds the row of its cart. *)
Working(r) == open[r] /\ pc[r] \in {"creating", "casing"}

Over(r) == pc[r] \in {"answering", "ended"}

(* What the transaction has written: nothing before the order; then the     *)
(* order, and one case for each line that is done.                          *)
Draft(r) ==
    /\ open[r] => pc[r] \in {"claiming", "creating", "casing"}
    /\ tx[r] # {} => open[r] /\ pc[r] = "casing"
    /\ \A x \in tx[r] : x.order = r /\ x.cart = cart[r]
    /\ open[r] /\ pc[r] = "casing" =>
          /\ One(OrdersOf(tx[r]))
          /\ \A i \in ItemsOf[cart[r]] : IF i \in todo[r] THEN CasesOf(tx[r], r, i) = {}
                                         ELSE One(CasesOf(tx[r], r, i))

(* A cart that is worked on has no order, and one attempt works on it. *)
Exclusive(r) ==
    Working(r) => /\ ~Converted(cart[r])
                  /\ \A q \in Attempt : Working(q) /\ cart[q] = cart[r] => q = r

(* An attempt with committed rows writes no more. *)
Committed ==
    /\ \A x \in db : x.order \in Attempt /\ Over(x.order)
    /\ \A x \in OrdersOf(db) : \A i \in ItemsOf[x.cart] : One(CasesOf(db, x.order, i))
    /\ \A x \in db : x.kind = "case" => \E y \in OrdersOf(db) : y.order = x.order
    /\ \A x, y \in OrdersOf(db) : x.cart = y.cart => x = y

WholeInv ==
    /\ DOMAIN cart = Attempt /\ DOMAIN open = Attempt /\ DOMAIN todo = Attempt
    /\ \A r \in Attempt : Draft(r) /\ Exclusive(r)
    /\ Committed

(* What the step leaves as it is, and an attempt without a draft after it. *)
Same(r) == UNCHANGED <<pc[r], cart[r], open[r], todo[r], tx[r]>>

Outside(r) ==
    /\ tx'[r] = {} /\ (open'[r] => pc'[r] = "claiming")
    /\ Over(r) => Over(r)'

Shaped == DOMAIN cart' = Attempt /\ DOMAIN open' = Attempt /\ DOMAIN todo' = Attempt

-----------------------------------------------------------------------------
LEMMA SameDraft ==
    ASSUME NEW r \in Attempt, Draft(r), Same(r)
    PROVE  Draft(r)' /\ (Working(r)' => Working(r)) /\ (Over(r) => Over(r)')
<1>1. /\ pc'[r] = pc[r] /\ cart'[r] = cart[r] /\ open'[r] = open[r] /\ todo'[r] = todo[r]
      /\ tx'[r] = tx[r]
      BY DEF Same
<1> QED BY <1>1 DEF Draft, Working, Over, One, OrdersOf, CasesOf

LEMMA OutsideDraft ==
    ASSUME NEW r \in Attempt, Outside(r)
    PROVE  Draft(r)' /\ ~Working(r)'
<1>1. tx'[r] = {} /\ (open'[r] => pc'[r] = "claiming")
      BY DEF Outside
<1> QED BY <1>1 DEF Draft, Working

LEMMA CommittedStays ==
    ASSUME Committed, UNCHANGED db, \A r \in Attempt : Over(r) => Over(r)'
    PROVE  Committed'
BY DEF Committed, OrdersOf, CasesOf, One

(* Attempts go on, or leave their transaction, and no draft grows. *)
LEMMA NoDraftGrows ==
    ASSUME WholeInv, Shaped, UNCHANGED db, \A r \in Attempt : Same(r) \/ Outside(r)
    PROVE  WholeInv'
<1>1. ASSUME NEW r \in Attempt
      PROVE  Draft(r)' /\ (Working(r)' => Working(r) /\ cart'[r] = cart[r]) /\ (Over(r) => Over(r)')
  <2>1. CASE Same(r)
    <3>1. cart'[r] = cart[r]
          BY <2>1 DEF Same
    <3> QED BY <2>1, <3>1, SameDraft DEF WholeInv
  <2>2. CASE Outside(r)
    <3>1. Over(r) => Over(r)'
          BY <2>2 DEF Outside
    <3> QED BY <2>2, <3>1, OutsideDraft
  <2> QED BY <2>1, <2>2
<1>2. ASSUME NEW r \in Attempt PROVE Exclusive(r)'
      BY <1>1 DEF WholeInv, Exclusive, Converted
<1>3. Committed'
      BY <1>1, CommittedStays DEF WholeInv
<1> QED BY <1>1, <1>2, <1>3 DEF WholeInv, Shaped

(* An attempt claims its cart, or writes a row of its draft. *)
LEMMA DraftGrows ==
    ASSUME WholeInv, Shaped, UNCHANGED db, NEW r \in Attempt,
           \A q \in Attempt \ {r} : Same(q),
           cart'[r] = cart[r], ~Over(r), Draft(r)',
           Working(r) \/ (~Converted(cart[r]) /\ ~Claimed(cart[r]))
    PROVE  WholeInv'
<1>1. ASSUME NEW q \in Attempt \ {r}
      PROVE  Draft(q)' /\ (Working(q)' => Working(q)) /\ cart'[q] = cart[q] /\ (Over(q) => Over(q)')
      BY SameDraft DEF WholeInv, Same
<1>2. ~Converted(cart[r]) /\ \A q \in Attempt \ {r} : Working(q) => cart[q] # cart[r]
      BY DEF WholeInv, Exclusive, Claimed, Working
<1>3. ASSUME NEW q \in Attempt PROVE Exclusive(q)'
      BY <1>1, <1>2 DEF WholeInv, Exclusive, Converted
<1>4. Committed'
      BY <1>1, CommittedStays DEF WholeInv
<1> QED BY <1>1, <1>3, <1>4 DEF WholeInv, Shaped

(* An attempt that goes on to a place outside the transaction. *)
LEMMA MoveLeaves ==
    ASSUME WholeInv, TypeOK, NEW r \in Attempt, NEW l \in Label, Goto(r, l),
           ~open[r], pc[r] # "casing", Over(r) => l \in {"answering", "ended"},
           open' = open \/ (open' = [open EXCEPT ![r] = TRUE] /\ l = "claiming"),
           UNCHANGED <<cart, todo, tx, db>>
    PROVE  WholeInv'
<1>1. pc'[r] = l /\ \A q \in Attempt \ {r} : pc'[q] = pc[q]
      BY GotoTypes
<1>2. Shaped /\ (open'[r] => l = "claiming") /\ \A q \in Attempt \ {r} : open'[q] = open[q]
      BY DEF WholeInv, Shaped
<1>3. tx[r] = {}
      BY DEF WholeInv, Draft
<1>4. Outside(r) /\ \A q \in Attempt \ {r} : Same(q)
      BY <1>1, <1>2, <1>3 DEF Outside, Same, Over
<1> QED BY <1>2, <1>4, NoDraftGrows

LEMMA EndLeaves ==
    ASSUME WholeInv, TypeOK, NEW r \in Attempt, NEW outcome, End(r, outcome), UNCHANGED db
    PROVE  WholeInv'
<1>1. pc'[r] = "ended" /\ \A q \in Attempt \ {r} : pc'[q] = pc[q]
      BY GotoTypes DEF End, Label
<1>2. /\ open' = [open EXCEPT ![r] = FALSE] /\ tx' = [tx EXCEPT ![r] = {}]
      /\ todo' = [todo EXCEPT ![r] = {}] /\ UNCHANGED cart
      BY DEF End
<1>3. Shaped /\ ~open'[r] /\ tx'[r] = {}
      BY <1>2 DEF WholeInv, Shaped, TypeOK
<1>4. \A q \in Attempt \ {r} : open'[q] = open[q] /\ tx'[q] = tx[q] /\ todo'[q] = todo[q] /\ cart'[q] = cart[q]
      BY <1>2 DEF WholeInv, TypeOK
<1>5. Outside(r) /\ \A q \in Attempt \ {r} : Same(q)
      BY <1>1, <1>3, <1>4 DEF Outside, Same, Over
<1> QED BY <1>3, <1>5, NoDraftGrows

LEMMA TakeLeaves ==
    ASSUME WholeInv, TypeOK, NEW r \in Attempt, NumberOrder(r) \/ NumberCase(r)
    PROVE  WholeInv'
<1>1. PICK s \in Scope : TakeNumber(r, s) /\ pc[r] = IF s = "ORDER" THEN "numbering" ELSE "casing"
      BY DEF NumberOrder, NumberCase, Scope
<1>2. UNCHANGED db
      BY <1>1 DEF TakeNumber
<1>3. CASE Fail(r)
      BY <1>2, <1>3, EndLeaves DEF Fail
<1>4. CASE ~Fail(r)
  <2>1. Goto(r, IF s = "ORDER" THEN "starting" ELSE "casing") /\ UNCHANGED <<open, cart, todo, tx>>
        BY <1>1, <1>4 DEF TakeNumber
  <2>2. CASE s = "ORDER"
    <3>1. Goto(r, "starting") /\ pc[r] = "numbering" /\ ~open[r]
          BY <1>1, <2>1, <2>2 DEF WholeInv, Draft
    <3> QED BY <1>2, <2>1, <3>1, MoveLeaves DEF Label, Over
  <2>3. CASE s # "ORDER"
    <3>1. Goto(r, "casing") /\ pc[r] = "casing"
          BY <1>1, <2>1, <2>3
    <3>2. UNCHANGED pc
          BY <3>1 DEF Goto, TypeOK
    <3>3. Shaped /\ \A q \in Attempt : Same(q)
          BY <2>1, <3>2 DEF WholeInv, Shaped, Same
    <3> QED BY <1>2, <3>3, NoDraftGrows
  <2> QED BY <2>2, <2>3
<1> QED BY <1>3, <1>4

LEMMA ClaimWorks ==
    ASSUME WholeInv, TypeOK, NEW r \in Attempt, Claim(r)
    PROVE  WholeInv'
<1>1. pc[r] = "claiming" /\ open[r] /\ ~Claimed(cart[r]) /\ UNCHANGED <<cart, todo, tx, db>>
      BY DEF Claim
<1>2. tx[r] = {}
      BY <1>1 DEF WholeInv, Draft
<1>3. CASE Converted(cart[r])
  <2>1. Goto(r, "answering") /\ open' = [open EXCEPT ![r] = FALSE]
        BY <1>3 DEF Claim
  <2>2. pc'[r] = "answering" /\ \A q \in Attempt \ {r} : pc'[q] = pc[q]
        BY <2>1, GotoTypes DEF Label
  <2>3. Shaped /\ ~open'[r] /\ \A q \in Attempt \ {r} : open'[q] = open[q]
        BY <1>1, <2>1 DEF WholeInv, Shaped
  <2>4. Outside(r) /\ \A q \in Attempt \ {r} : Same(q)
        BY <1>1, <1>2, <2>2, <2>3 DEF Outside, Same, Over
  <2> QED BY <1>1, <2>3, <2>4, NoDraftGrows
<1>4. CASE ~Converted(cart[r])
  <2>1. Goto(r, "creating") /\ UNCHANGED open
        BY <1>4 DEF Claim
  <2>2. pc'[r] = "creating" /\ \A q \in Attempt \ {r} : pc'[q] = pc[q]
        BY <2>1, GotoTypes DEF Label
  <2>3. Shaped /\ \A q \in Attempt \ {r} : Same(q)
        BY <1>1, <2>1, <2>2 DEF WholeInv, Shaped, Same
  <2>4. Draft(r)' /\ ~Over(r) /\ cart'[r] = cart[r]
        BY <1>1, <1>2, <2>2 DEF Draft, Over
  <2> QED BY <1>1, <1>4, <2>3, <2>4, DraftGrows
<1> QED BY <1>3, <1>4

(* The draft begins with the order's row and no case. *)
LEMMA OrderWorks ==
    ASSUME WholeInv, TypeOK, NEW r \in Attempt, CreateOrder(r)
    PROVE  WholeInv'
<1>1. pc[r] = "creating" /\ open[r] /\ UNCHANGED db
      BY DEF CreateOrder
<1>2. CASE Fail(r)
      BY <1>1, <1>2, EndLeaves DEF Fail
<1>3. CASE ~Fail(r)
  <2>1. PICK row : row = OrderRow(r)
        OBVIOUS
  <2>2. row.kind = "order" /\ row.order = r /\ row.cart = cart[r]
        BY <2>1 DEF OrderRow
  <2>3. /\ tx' = [tx EXCEPT ![r] = {row}] /\ todo' = [todo EXCEPT ![r] = ItemsOf[cart[r]]]
        /\ Goto(r, "casing") /\ UNCHANGED <<cart, open>>
        BY <1>3, <2>1 DEF CreateOrder
  <2>4. pc'[r] = "casing" /\ \A q \in Attempt \ {r} : pc'[q] = pc[q]
        BY <2>3, GotoTypes DEF Label
  <2>5. /\ tx'[r] = {row} /\ todo'[r] = ItemsOf[cart[r]]
        /\ \A q \in Attempt \ {r} : tx'[q] = tx[q] /\ todo'[q] = todo[q]
        BY <2>3 DEF WholeInv, TypeOK
  <2>6. Shaped /\ \A q \in Attempt \ {r} : Same(q)
        BY <2>3, <2>4, <2>5 DEF WholeInv, Shaped, Same
  <2>7. One(OrdersOf(tx'[r])) /\ \A i : CasesOf(tx'[r], r, i) = {}
        BY <2>2, <2>5 DEF One, OrdersOf, CasesOf
  <2>8. Draft(r)' /\ ~Over(r) /\ Working(r)
        BY <1>1, <2>2, <2>3, <2>4, <2>5, <2>7 DEF Draft, Over, Working
  <2> QED BY <1>1, <2>3, <2>6, <2>8, DraftGrows
<1> QED BY <1>2, <1>3

(* A case for a line that has none. *)
LEMMA CaseWorks ==
    ASSUME WholeInv, TypeOK, NEW r \in Attempt, CreateCase(r)
    PROVE  WholeInv'
<1>1. pc[r] = "casing" /\ open[r] /\ UNCHANGED <<pc, cart, open, db>>
      BY DEF CreateCase
<1>2. PICK i \in todo[r] : /\ tx' = [tx EXCEPT ![r] = @ \cup {CaseRow(r, i)}]
                           /\ todo' = [todo EXCEPT ![r] = @ \ {i}]
      BY DEF CreateCase
<1>3. PICK row : row = CaseRow(r, i)
      OBVIOUS
<1>4. row.kind = "case" /\ row.order = r /\ row.cart = cart[r] /\ row.item = i
      BY <1>3 DEF CaseRow
<1>5. /\ tx'[r] = tx[r] \cup {row} /\ todo'[r] = todo[r] \ {i}
      /\ \A q \in Attempt \ {r} : tx'[q] = tx[q] /\ todo'[q] = todo[q]
      BY <1>2, <1>3 DEF WholeInv, TypeOK
<1>6. Shaped /\ \A q \in Attempt \ {r} : Same(q)
      BY <1>1, <1>2, <1>5 DEF WholeInv, Shaped, Same
<1>7. OrdersOf(tx'[r]) = OrdersOf(tx[r])
      BY <1>4, <1>5 DEF OrdersOf
<1>8. ASSUME NEW j \in ItemsOf[cart[r]]
      PROVE  IF j \in todo'[r] THEN CasesOf(tx'[r], r, j) = {} ELSE One(CasesOf(tx'[r], r, j))
  <2>1. CASE j = i
    <3>1. CasesOf(tx[r], r, j) = {}
          BY <1>1, <1>2, <2>1 DEF WholeInv, Draft
    <3>2. CasesOf(tx'[r], r, j) = {row}
          BY <1>4, <1>5, <2>1, <3>1 DEF CasesOf
    <3> QED BY <1>5, <2>1, <3>2 DEF One
  <2>2. CASE j # i
    <3>1. CasesOf(tx'[r], r, j) = CasesOf(tx[r], r, j)
          BY <1>4, <1>5, <2>2 DEF CasesOf
    <3> QED BY <1>1, <1>5, <2>2, <3>1 DEF WholeInv, Draft
  <2> QED BY <2>1, <2>2
<1>9. Draft(r)'
  <2>1. pc'[r] = "casing" /\ open'[r] /\ cart'[r] = cart[r]
        BY <1>1
  <2>2. \A x \in tx'[r] : x.order = r /\ x.cart = cart[r]
        BY <1>4, <1>5 DEF WholeInv, Draft
  <2>3. One(OrdersOf(tx'[r]))
        BY <1>1, <1>7 DEF WholeInv, Draft
  <2> QED BY <1>8, <2>1, <2>2, <2>3 DEF Draft
<1>10. ~Over(r) /\ Working(r) /\ cart'[r] = cart[r]
      BY <1>1 DEF Over, Working
<1> QED BY <1>1, <1>6, <1>9, <1>10, DraftGrows

(* The commit of a finished draft: its order is the first of its cart, and   *)
(* its cases are those of its lines.                                        *)
LEMMA CommitWorks ==
    ASSUME WholeInv, TypeOK, NEW r \in Attempt, Commit(r)
    PROVE  WholeInv'
<1>1. /\ pc[r] = "casing" /\ open[r] /\ todo[r] = {} /\ Working(r)
      /\ db' = db \cup tx[r] /\ UNCHANGED <<cart, todo>>
      BY DEF Commit, Working
<1>2. pc'[r] = "answering" /\ \A q \in Attempt \ {r} : pc'[q] = pc[q]
      BY GotoTypes DEF Commit, Label
<1>3. /\ tx'[r] = {} /\ ~open'[r]
      /\ \A q \in Attempt \ {r} : tx'[q] = tx[q] /\ open'[q] = open[q]
      BY DEF Commit, WholeInv, TypeOK
<1>4. Shaped
      BY DEF Commit, WholeInv, Shaped
<1>5. Outside(r) /\ \A q \in Attempt \ {r} : Same(q)
      BY <1>1, <1>2, <1>3 DEF Outside, Same, Over
<1>6. PICK o \in tx[r] : OrdersOf(tx[r]) = {o} /\ o.kind = "order" /\ o.order = r /\ o.cart = cart[r]
      BY <1>1 DEF WholeInv, Draft, One, OrdersOf
<1>7. \A x \in db : x.order # r
      BY <1>1 DEF WholeInv, Committed, Over
<1>8. \A x \in OrdersOf(db) : x.cart # cart[r]
      BY <1>1 DEF WholeInv, Exclusive, Converted, OrdersOf
<1>9. OrdersOf(db') = OrdersOf(db) \cup {o}
      BY <1>1, <1>6 DEF OrdersOf
<1>10. /\ \A i : CasesOf(db', r, i) = CasesOf(tx[r], r, i)
       /\ \A q : q # r => \A i : CasesOf(db', q, i) = CasesOf(db, q, i)
  <2>1. \A x \in tx[r] : x.order = r
        BY DEF WholeInv, Draft
  <2> QED BY <1>1, <1>7, <2>1 DEF CasesOf
<1>11. Committed'
  <2>1. ASSUME NEW q \in Attempt, Over(q) PROVE Over(q)'
        BY <1>2, <2>1 DEF Over
  <2>2. \A x \in db' : x.order \in Attempt /\ Over(x.order)'
    <3>1. ASSUME NEW x \in db PROVE x.order \in Attempt /\ Over(x.order)'
          BY <2>1 DEF WholeInv, Committed
    <3>2. ASSUME NEW x \in tx[r] PROVE x.order \in Attempt /\ Over(x.order)'
          BY <1>2 DEF WholeInv, Draft, Over
    <3> QED BY <1>1, <3>1, <3>2
  <2>3. \A x \in OrdersOf(db') : \A i \in ItemsOf[x.cart] : One(CasesOf(db', x.order, i))
    <3>1. ASSUME NEW x \in OrdersOf(db), NEW i \in ItemsOf[x.cart]
          PROVE  One(CasesOf(db', x.order, i))
          BY <1>7, <1>10 DEF WholeInv, Committed, OrdersOf
    <3>2. ASSUME NEW i \in ItemsOf[o.cart] PROVE One(CasesOf(db', o.order, i))
          BY <1>1, <1>6, <1>10 DEF WholeInv, Draft
    <3> QED BY <1>9, <3>1, <3>2
  <2>4. \A x \in db' : x.kind = "case" => \E y \in OrdersOf(db') : y.order = x.order
    <3>1. ASSUME NEW x \in db, x.kind = "case" PROVE \E y \in OrdersOf(db') : y.order = x.order
          BY <1>9, <3>1 DEF WholeInv, Committed
    <3>2. ASSUME NEW x \in tx[r] PROVE o.order = x.order
          BY <1>6 DEF WholeInv, Draft
    <3> QED BY <1>1, <1>9, <3>1, <3>2
  <2>5. \A x, y \in OrdersOf(db') : x.cart = y.cart => x = y
        BY <1>6, <1>8, <1>9 DEF WholeInv, Committed
  <2> QED BY <2>2, <2>3, <2>4, <2>5 DEF Committed
<1>12. ASSUME NEW q \in Attempt PROVE Draft(q)' /\ Exclusive(q)'
  <2>1. CASE q = r
        BY <1>5, <2>1, OutsideDraft DEF Exclusive
  <2>2. CASE q # r
    <3>1. Draft(q)' /\ (Working(q)' => Working(q)) /\ cart'[q] = cart[q]
          BY <1>5, <2>2, SameDraft DEF WholeInv, Same
    <3>2. ASSUME Working(q)'
          PROVE  ~Converted(cart[q])' /\ \A p \in Attempt : Working(p)' /\ cart'[p] = cart'[q] => p = q
      <4>1. cart[q] # cart[r] /\ ~Converted(cart[q])
            BY <1>1, <2>2, <3>1, <3>2 DEF WholeInv, Exclusive
      <4>2. ~Converted(cart[q])'
            BY <1>6, <1>9, <3>1, <4>1 DEF Converted, OrdersOf
      <4>3. \A p \in Attempt : Working(p)' => Working(p) /\ cart'[p] = cart[p]
            BY <1>1, <1>3, <1>5, SameDraft DEF WholeInv, Working, Same
      <4> QED BY <3>1, <3>2, <4>2, <4>3 DEF WholeInv, Exclusive
    <3> QED BY <3>1, <3>2 DEF Exclusive
  <2> QED BY <2>1, <2>2
<1> QED BY <1>4, <1>11, <1>12 DEF WholeInv, Shaped

LEMMA StepWorks ==
    ASSUME WholeInv, TypeOK, NEW r \in Attempt, Step(r)
    PROVE  WholeInv'
<1>1. CASE ReadCart(r) \/ ReadAddresses(r) \/ Begin(r)
  <2>1. CASE Fail(r)
        BY <1>1, <2>1, EndLeaves DEF ReadCart, ReadAddresses, Begin, Fail
  <2>2. ~open[r] /\ pc[r] # "casing" /\ ~Over(r)
        BY <1>1 DEF ReadCart, ReadAddresses, Begin, WholeInv, Draft, Over
  <2>3. CASE ReadCart(r)
        BY <2>2, <2>3, MoveLeaves DEF ReadCart, Label
  <2>4. CASE ReadAddresses(r) /\ ~Fail(r)
        BY <2>2, <2>4, MoveLeaves DEF ReadAddresses, Label
  <2>5. CASE Begin(r)
        BY <2>2, <2>5, MoveLeaves DEF Begin, Label
  <2> QED BY <1>1, <2>1, <2>3, <2>4, <2>5
<1>2. CASE NumberOrder(r) \/ NumberCase(r)
      BY <1>2, TakeLeaves
<1>3. CASE Answer(r) \/ TransactionClosed(r)
      BY <1>3, EndLeaves DEF Answer, TransactionClosed, Fail
<1> QED BY <1>1, <1>2, <1>3, ClaimWorks, OrderWorks, CaseWorks, CommitWorks DEF Step

(* Timeouts, crashes, the page, the addresses and the year. *)
LEMMA OutsideLeaves ==
    ASSUME WholeInv, TypeOK,
           \/ \E r \in Attempt : TxTimeout(r) \/ PoolTimeout(r)
           \/ \E c \in Cart : ConnectionLost(c) \/ Reload(c) \/ \E r \in From[c] : Click(c, r)
           \/ \E a \in Address : DeleteAddress(a)
           \/ NewYear \/ Crash \/ UNCHANGED vars
    PROVE  WholeInv'
<1>1. ASSUME NEW r \in Attempt, TxTimeout(r) PROVE WholeInv'
  <2>1. /\ UNCHANGED <<pc, cart, todo, db>>
        /\ open' = [open EXCEPT ![r] = FALSE] /\ tx' = [tx EXCEPT ![r] = {}]
        BY <1>1 DEF TxTimeout
  <2>2. Shaped /\ tx'[r] = {} /\ ~open'[r]
        BY <2>1 DEF WholeInv, Shaped, TypeOK
  <2>3. Outside(r) /\ \A q \in Attempt \ {r} : Same(q)
        BY <2>1, <2>2 DEF Outside, Same, Over, WholeInv, TypeOK
  <2> QED BY <2>1, <2>2, <2>3, NoDraftGrows
<1>2. ASSUME NEW r \in Attempt, PoolTimeout(r) PROVE WholeInv'
      BY <1>2, EndLeaves DEF PoolTimeout, Fail
<1>3. ASSUME NEW c \in Cart, NEW r \in From[c], Click(c, r) PROVE WholeInv'
  <2>1. r \in Attempt
        BY IntakeAssumption
  <2>2. /\ pc[r] = "idle" /\ Goto(r, "reading") /\ cart' = [cart EXCEPT ![r] = c]
        /\ UNCHANGED <<open, todo, tx, db>>
        BY <1>3 DEF Click
  <2>3. pc'[r] = "reading" /\ \A q \in Attempt \ {r} : pc'[q] = pc[q]
        BY <2>1, <2>2, GotoTypes DEF Label
  <2>4. tx[r] = {} /\ ~open[r]
        BY <2>1, <2>2 DEF WholeInv, Draft
  <2>5. Shaped /\ Outside(r) /\ \A q \in Attempt \ {r} : Same(q)
        BY <2>1, <2>2, <2>3, <2>4 DEF WholeInv, Shaped, Outside, Same, Over
  <2> QED BY <2>1, <2>2, <2>5, NoDraftGrows
<1>4. CASE \/ \E c \in Cart : ConnectionLost(c) \/ Reload(c)
           \/ \E a \in Address : DeleteAddress(a)
           \/ NewYear \/ UNCHANGED vars
  <2>1. UNCHANGED <<attempts, db>>
        BY <1>4 DEF ConnectionLost, Reload, DeleteAddress, NewYear, vars
  <2>2. Shaped /\ \A q \in Attempt : Same(q)
        BY <2>1 DEF attempts, WholeInv, Shaped, Same
  <2> QED BY <2>1, <2>2, NoDraftGrows
<1>5. CASE Crash
  <2>1. /\ pc' = [r \in Attempt |-> IF pc[r] = "idle" THEN "idle" ELSE "ended"]
        /\ open' = [r \in Attempt |-> FALSE] /\ tx' = [r \in Attempt |-> {}]
        /\ todo' = [r \in Attempt |-> {}] /\ UNCHANGED <<cart, db>>
        BY <1>5 DEF Crash
  <2>2. Shaped /\ \A r \in Attempt : Outside(r)
        BY <2>1 DEF WholeInv, Shaped, Outside, Over
  <2> QED BY <2>1, <2>2, NoDraftGrows
<1> QED BY <1>1, <1>2, <1>3, <1>4, <1>5

(* For any number of carts, lines and attempts, through timeouts and        *)
(* crashes: a committed order has one repair case for each of its lines, no *)
(* case is without its order, and a cart has one order at most.             *)
THEOREM OrdersAreWhole == Spec => []OrderIsWhole
<1>1. Init => WholeInv
  <2> SUFFICES ASSUME Init PROVE WholeInv
      OBVIOUS
  <2>1. ASSUME NEW r \in Attempt PROVE ~open[r] /\ tx[r] = {}
        BY DEF Init
  <2>2. DOMAIN cart = Attempt /\ DOMAIN open = Attempt /\ DOMAIN todo = Attempt /\ db = {}
        BY DEF Init
  <2> QED BY <2>1, <2>2 DEF WholeInv, Draft, Exclusive, Working, Committed, OrdersOf
<1>2. RefInv /\ WholeInv /\ [Next]_vars => WholeInv'
      BY StepWorks, OutsideLeaves DEF Next, RefInv
<1>3. WholeInv => OrderIsWhole
  <2> SUFFICES ASSUME WholeInv PROVE OrderIsWhole
      OBVIOUS
  <2>1. ASSUME NEW x \in db, x.kind = "order", NEW i \in ItemsOf[x.cart]
        PROVE  Cardinality({y \in db : y.kind = "case" /\ y.order = x.order /\ y.item = i}) = 1
    <3>1. One(CasesOf(db, x.order, i))
          BY <2>1 DEF WholeInv, Committed, OrdersOf
    <3> QED BY <3>1, FS_Singleton DEF One, CasesOf
  <2>2. ASSUME NEW c \in Cart PROVE Cardinality({x \in db : x.kind = "order" /\ x.cart = c}) <= 1
    <3> DEFINE S == {x \in db : x.kind = "order" /\ x.cart = c}
    <3>1. \A x, y \in S : x = y
          BY DEF WholeInv, Committed, OrdersOf
    <3>2. S = {} \/ \E x : S = {x}
          BY <3>1
    <3>3. Cardinality(S) = 0 \/ Cardinality(S) = 1
          BY <3>2, FS_EmptySet, FS_Singleton
    <3> QED BY <3>3
  <2>3. \A x \in db : x.kind = "case" => \E y \in db : y.kind = "order" /\ y.order = x.order
        BY DEF WholeInv, Committed, OrdersOf
  <2> QED BY <2>1, <2>2, <2>3 DEF OrderIsWhole
<1> QED BY <1>1, <1>2, <1>3, RefInvariance, PTL DEF Spec
=============================================================================
