-------------------------- MODULE ConfiguratorProofs --------------------------
(***************************************************************************)
(* Proofs about the configurator page: for any catalogue, edited at any     *)
(* time, the price of a settled page is that of its selection, and what is  *)
(* ordered is what was shown and was on sale.                               *)
(***************************************************************************)
EXTENDS ConfiguratorForm, FiniteSetTheorems, TLAPS

(* Records with the fields of a selection, a validation, a run and an order. *)
IsSelection(x) == \E m, v, r, s, o :
    x \in [model : {m}, variant : {v}, revision : {r}, services : {s}, options : {o}]
IsValidation(q) == \E s, f, t, v, n :
    q \in [sel : {s}, from : {f}, to : {t}, valid : {v}, total : {n}]
IsRun(r) == \E p, w, x, s, f :
    r \in [step : {p}, waited : {w}, sel : {x}, seen : {s}, from : {f}]
IsOrder(o) == \E p, a, t, f, l :
    o \in [step : {p}, asked : {a}, todo : {t}, from : {f}, lines : {l}]

Empty == sel.services = <<>>

(* One validation at most is pending, and it is about the selection shown;  *)
(* nothing is pending for an empty selection.                               *)
PageInv ==
    /\ timer => requests = {}
    /\ \A p, q \in requests : p = q
    /\ \A q \in requests : IsValidation(q) /\ q.sel = sel
    /\ Empty => ~timer /\ requests = {} /\ shown = {}
    /\ SettledShowsSelection

FormInv == IsSelection(sel) /\ PageInv

-----------------------------------------------------------------------------
(* What EXCEPT does to the fields of a selection. *)
LEMMA Fields ==
    ASSUME NEW x, IsSelection(x), NEW y, NEW z
    PROVE  /\ IsSelection([x EXCEPT !.variant = y, !.revision = z])
           /\ IsSelection([x EXCEPT !.revision = y])
           /\ IsSelection([x EXCEPT !.services = y])
           /\ IsSelection([x EXCEPT !.options = y])
           /\ [x EXCEPT !.options = y].services = x.services
<1>1. PICK m, v, r, s, o :
          x \in [model : {m}, variant : {v}, revision : {r}, services : {s}, options : {o}]
      BY DEF IsSelection
<1> DEFINE Of(a, b, c, d) ==
      [model : {m}, variant : {a}, revision : {b}, services : {c}, options : {d}]
<1>2. /\ [x EXCEPT !.variant = y, !.revision = z] \in Of(y, z, s, o)
      /\ [x EXCEPT !.revision = y] \in Of(v, y, s, o)
      /\ [x EXCEPT !.services = y] \in Of(v, r, y, o)
      /\ [x EXCEPT !.options = y] \in Of(v, r, s, y)
      /\ [x EXCEPT !.options = y].services = x.services
      BY <1>1
<1>3. ASSUME NEW a, NEW b, NEW c, NEW d, NEW w \in Of(a, b, c, d) PROVE IsSelection(w)
      BY <1>3 DEF IsSelection
<1> HIDE DEF Of
<1> QED BY <1>2, <1>3

(* Unselecting options leaves a selection, with the services chosen. *)
LEMMA Unselecting ==
    ASSUME NEW new, IsSelection(new)
    PROVE  IsSelection(WithSelectableOptions(new)) /\ WithSelectableOptions(new).services = new.services
<1>1. PICK kept : WithSelectableOptions(new) = [new EXCEPT !.options = kept]
      BY DEF WithSelectableOptions
<1>2. /\ IsSelection([new EXCEPT !.options = kept])
      /\ [new EXCEPT !.options = kept].services = new.services
      BY Fields
<1> HIDE DEF IsSelection
<1> QED BY <1>1, <1>2

(* The effects clean up what was pending. *)
LEMMA EffectsKeep ==
    ASSUME NEW new, IsSelection(new), Effects(new)
    PROVE  FormInv'
<1>1. IsSelection(sel') /\ sel'.services = new.services
      BY Unselecting DEF Effects
<1>2. PageInv'
      BY <1>1 DEF Effects, Aborted, PageInv, Empty, SettledShowsSelection, Settled
<1> QED BY <1>1, <1>2 DEF FormInv, IsSelection

LEMMA ChangeKeeps ==
    ASSUME FormInv, ChangeSelection
    PROVE  FormInv'
<1>1. \E new : IsSelection(new) /\ Effects(new)
  <2> HIDE DEF Effects
  <2>1. IsSelection(sel)
        BY DEF FormInv
  <2>2. ASSUME NEW y, NEW z, Effects([sel EXCEPT !.variant = y, !.revision = z])
        PROVE  \E new : IsSelection(new) /\ Effects(new)
        BY <2>1, <2>2, Fields, Zenon
  <2>3. ASSUME NEW y, Effects([sel EXCEPT !.revision = y])
        PROVE  \E new : IsSelection(new) /\ Effects(new)
        BY <2>1, <2>3, Fields, Zenon
  <2>4. ASSUME NEW y, Effects([sel EXCEPT !.services = y])
        PROVE  \E new : IsSelection(new) /\ Effects(new)
        BY <2>1, <2>4, Fields, Zenon
  <2>5. ASSUME NEW y, Effects([sel EXCEPT !.options = y])
        PROVE  \E new : IsSelection(new) /\ Effects(new)
        BY <2>1, <2>5, Fields, Zenon
  <2> QED BY <2>2, <2>3, <2>4, <2>5, Zenon DEF ChangeSelection
<1> QED BY <1>1, EffectsKeep

(* The page is left with an empty selection and nothing pending. *)
LEMMA LeavingKeeps ==
    ASSUME FormInv, GoToCheckout
    PROVE  FormInv'
<1>1. IsSelection(sel') /\ sel'.services = <<>>
      BY DEF FormInv, IsSelection, GoToCheckout
<1>2. PageInv'
      BY <1>1 DEF GoToCheckout, Aborted, PageInv, Empty, SettledShowsSelection
<1> QED BY <1>1, <1>2 DEF FormInv, IsSelection

(* The validation goes its way; the selection stays. *)
LEMMA ValidationKeeps ==
    ASSUME PageInv, UNCHANGED sel,
           \/ TimerFires
           \/ \E q \in requests : Serve(q) \/ Answered(q) \/ Refused(q) \/ ConnectionFails(q)
    PROVE  PageInv'
<1>1. CASE TimerFires
  <2> DEFINE new == [sel |-> sel, from |-> ver, to |-> None, valid |-> FALSE, total |-> 0]
  <2>1. timer /\ requests = {} /\ ~Empty
        BY <1>1 DEF TimerFires, PageInv
  <2>2. timer' = FALSE /\ requests' = {new}
        BY <1>1, <2>1 DEF TimerFires
  <2>3. IsValidation(new) /\ new.sel = sel'
        BY DEF IsValidation
  <2>4. ~Empty' /\ ~Settled'
        BY <2>1, <2>2 DEF Empty, Settled
  <2> HIDE DEF new
  <2> QED BY <2>2, <2>3, <2>4 DEF PageInv, SettledShowsSelection, IsValidation
<1>2. ASSUME NEW q \in requests, Serve(q) PROVE PageInv'
  <2>1. PICK a : requests' =
            (requests \ {q}) \cup {[q EXCEPT !.to = ver, !.valid = a.valid, !.total = a.total]}
        BY <1>2, Zenon DEF Serve
  <2>2. PICK new : new = [q EXCEPT !.to = ver, !.valid = a.valid, !.total = a.total]
        OBVIOUS
  <2>3. requests' = {new} /\ requests # {} /\ IsValidation(q) /\ q.sel = sel
        BY <2>1, <2>2 DEF PageInv
  <2>4. IsValidation(new) /\ new.sel = sel'
        BY <2>2, <2>3 DEF IsValidation
  <2>5. ~Empty' /\ ~timer' /\ ~Settled'
        BY <1>2, <2>3 DEF PageInv, Empty, Serve, Settled
  <2> QED BY <2>3, <2>4, <2>5 DEF PageInv, SettledShowsSelection, IsValidation
<1>3. ASSUME NEW q \in requests, Answered(q) \/ Refused(q) \/ ConnectionFails(q) PROVE PageInv'
  <2>1. requests' = {} /\ q.sel = sel /\ ~Empty /\ ~Empty' /\ ~timer /\ ~timer'
        BY <1>3 DEF PageInv, Answered, Refused, ConnectionFails, Empty
  <2>2. SettledShowsSelection'
    <3>1. CASE Answered(q)
          BY <2>1, <3>1 DEF Answered, SettledShowsSelection, Empty
    <3>2. CASE Refused(q)
          BY <2>1, <3>2, Zenon DEF Refused, SettledShowsSelection, Empty
    <3>3. CASE ConnectionFails(q)
          BY <3>3 DEF ConnectionFails, SettledShowsSelection, Settled
    <3> QED BY <1>3, <3>1, <3>2, <3>3
  <2> QED BY <2>1, <2>2 DEF PageInv
<1> QED BY <1>1, <1>2, <1>3

LEMMA FormInit == Init => FormInv
<1> SUFFICES ASSUME Init PROVE FormInv
    OBVIOUS
<1>1. IsSelection(sel) /\ sel.services = <<>>
      BY DEF Init, IsSelection
<1>2. PageInv
      BY <1>1 DEF Init, PageInv, Empty, SettledShowsSelection
<1> QED BY <1>1, <1>2 DEF FormInv

(* The actions of the customer and of the API beyond the page. *)
RunStep ==
    \/ \E c \in Run : \/ Click(c) \/ CartResolved(c) \/ Accepts(c) \/ AddItem(c)
                      \/ AddAnswered(c) \/ AddFails(c)
    \/ Submit \/ (\E c \in order.todo : Revalidate(c)) \/ PlaceOrder \/ OrderFails

ValidationStep ==
    TimerFires \/ \E q \in requests : Serve(q) \/ Answered(q) \/ Refused(q) \/ ConnectionFails(q)

LEMMA Steps ==
    [Next]_vars => \/ CatalogueEdited \/ ChangeSelection \/ GoToCheckout
                   \/ ValidationStep \/ RunStep \/ UNCHANGED vars
BY DEF Next, RunStep, ValidationStep

LEMMA RunStepsLeavePage == RunStep => UNCHANGED <<ver, sel, page>>
BY DEF RunStep, Click, CartResolved, Accepts, AddItem, AddAnswered, AddFails, Submit, Revalidate,
       PlaceOrder, OrderFails

(* The selection and the validation stay in step. *)
THEOREM FormInvariance == Spec => []FormInv
<1>1. FormInv /\ [Next]_vars => FormInv'
  <2> SUFFICES ASSUME FormInv, [Next]_vars PROVE FormInv'
      OBVIOUS
  <2>1. ASSUME UNCHANGED <<sel, page>> PROVE FormInv'
        BY <2>1 DEF FormInv, IsSelection, PageInv, page, Empty, SettledShowsSelection, Settled,
                    IsValidation
  <2>2. CASE CatalogueEdited \/ RunStep \/ UNCHANGED vars
    <3>1. UNCHANGED <<sel, page>>
          BY <2>2, RunStepsLeavePage DEF CatalogueEdited, vars, page
    <3> QED BY <2>1, <3>1
  <2>3. CASE ValidationStep
    <3>1. UNCHANGED sel
          BY <2>3 DEF ValidationStep, TimerFires, Serve, Answered, Refused, ConnectionFails
    <3> QED BY <2>3, <3>1, ValidationKeeps DEF FormInv, IsSelection, ValidationStep
  <2> QED BY <2>2, <2>3, Steps, ChangeKeeps, LeavingKeeps
<1> QED BY <1>1, FormInit, PTL DEF Spec

(* For any catalogue and any edits of it, whatever is clicked, aborted,     *)
(* refused or lost: the price on a settled page is that of the selection on *)
(* it.                                                                      *)
THEOREM PageIsSettled == Spec => []SettledShowsSelection
<1>1. FormInv => SettledShowsSelection
      BY DEF FormInv, PageInv
<1> QED BY <1>1, FormInvariance, PTL

-----------------------------------------------------------------------------
(* What a validation reads is of versions between its ends. *)
LEMMA ReadInSpan ==
    ASSUME NEW from \in Nat, NEW to \in Nat, from <= to, NEW db \in Views(Catalogue, from, to)
    PROVE  \E at : (\A i \in 1..Reads : at[i] \in from..to) /\ db = Read(Catalogue, at)
<1>1. PICK done \in [(from + 1)..to -> 0..Reads] :
          db = Read(Catalogue,
                    [i \in 1..Reads |-> from + Cardinality({v \in (from + 1)..to : done[v] < i})])
      BY DEF Views
<1> DEFINE Before(i) == {v \in (from + 1)..to : done[v] < i}
           at == [i \in 1..Reads |-> from + Cardinality(Before(i))]
<1>2. ASSUME NEW i \in 1..Reads PROVE at[i] \in from..to
  <2>1. IsFiniteSet((from + 1)..to) /\ Cardinality((from + 1)..to) <= to - from
    <3>1. from + 1 \in Int /\ to \in Int
          OBVIOUS
    <3>2. /\ IsFiniteSet((from + 1)..to)
          /\ Cardinality((from + 1)..to) = IF from + 1 > to THEN 0 ELSE to - (from + 1) + 1
          BY <3>1, FS_Interval
    <3>3. (IF from + 1 > to THEN 0 ELSE to - (from + 1) + 1) <= to - from
          OBVIOUS
    <3> QED BY <3>2, <3>3
  <2>2. Before(i) \in SUBSET ((from + 1)..to)
        OBVIOUS
  <2> HIDE DEF Before
  <2>3. IsFiniteSet(Before(i)) /\ Cardinality(Before(i)) <= Cardinality((from + 1)..to)
        BY <2>1, <2>2, FS_Subset
  <2>4. Cardinality(Before(i)) \in Nat /\ Cardinality((from + 1)..to) \in Nat
        BY <2>1, <2>3, FS_CardinalityType
  <2>5. at[i] = from + Cardinality(Before(i))
        OBVIOUS
  <2> HIDE DEF at
  <2> QED BY <2>1, <2>3, <2>4, <2>5
<1>3. db = Read(Catalogue, at)
      BY <1>1
<1> QED BY <1>2, <1>3

(* In one version there is one reading. *)
LEMMA OneReading ==
    ASSUME NEW v \in Nat, NEW a \in Views(Catalogue, v, v), NEW b \in Views(Catalogue, v, v)
    PROVE  a = b
<1>1. PICK f : (\A i \in 1..Reads : f[i] \in v..v) /\ a = Read(Catalogue, f)
      BY ReadInSpan
<1>2. PICK g : (\A i \in 1..Reads : g[i] \in v..v) /\ b = Read(Catalogue, g)
      BY ReadInSpan
<1>3. \A i \in 1..Reads : f[i] = v /\ g[i] = v
      BY <1>1, <1>2
<1>4. /\ f[1] = g[1] /\ f[2] = g[2] /\ f[3] = g[3] /\ f[4] = g[4] /\ f[5] = g[5]
      /\ f[6] = g[6] /\ f[7] = g[7] /\ f[8] = g[8] /\ f[9] = g[9] /\ f[10] = g[10]
      /\ f[11] = g[11] /\ f[12] = g[12] /\ f[13] = g[13] /\ f[14] = g[14] /\ f[15] = g[15]
      BY <1>3 DEF Reads
<1> QED BY <1>1, <1>2, <1>4 DEF Read

-----------------------------------------------------------------------------
(* A selection the engine has no issue with meets every condition of sale in *)
(* what was read: each kind of issue rules one way out.                     *)
LEMMA NothingIncompatible ==
    ASSUME NEW ids, Incompatible(ids) = {}
    PROVE  ids = {}
<1> SUFFICES ASSUME NEW i \in ids PROVE FALSE
    OBVIOUS
<1>1. <<"INCOMPATIBLE", i>> \in Incompatible(ids)
      BY DEF Incompatible
<1> QED BY <1>1

LEMMA NoIssueIsSellable ==
    ASSUME NEW db, NEW in, Issues(db, in) = {}
    PROVE  /\ ModelActive(db, in.model) /\ VariantActive(db, in.model, in.variant)
           /\ in.revision # None => RevisionValid(db, in.variant, in.revision)
           /\ \A s \in ToSet(in.services) : Sold(db.services, s)
           /\ IsInjective(in.services)
           /\ \A o \in ToSet(in.options) :
                 Sold(db.options, o) /\ db.options[o].service \in ToSet(in.services)
           /\ RequiredOptions(db, ToSet(in.services)) \subseteq ToSet(in.options)
           /\ \A s \in ToSet(in.services) : LET rules == {r \in db.compatibility : r.service = s}
                                            IN  rules # {} => \E r \in rules : InScope(r, in)
           /\ \A x \in db.exclusions : ~({x.a, x.b} \subseteq ToSet(in.services))
           /\ \A x \in db.requirements :
                 x.service \in ToSet(in.services) => x.needs \in ToSet(in.services)
<1>1. /\ DeviceIssues(db, in) = {} /\ ServiceIssues(db, in) = {} /\ OptionIssues(db, in) = {}
      /\ CompatibilityIssues(db, in) = {} /\ CombinationIssues(db, in) = {}
      BY DEF Issues
<1>2. /\ ModelActive(db, in.model) /\ VariantActive(db, in.model, in.variant)
      /\ in.revision # None => RevisionValid(db, in.variant, in.revision)
  <2>1. {m \in {in.model} : ~ModelActive(db, m)}
            \cup {v \in {in.variant} : ~VariantActive(db, in.model, v)}
            \cup {r \in {in.revision} \ {None} : ~RevisionValid(db, in.variant, r)} = {}
        BY <1>1, NothingIncompatible DEF DeviceIssues
  <2> QED BY <2>1
<1>3. (\A s \in ToSet(in.services) : Sold(db.services, s)) /\ IsInjective(in.services)
  <2>1. {s \in ToSet(in.services) : ~Sold(db.services, s)}
            \cup {d \in {"duplicate"} : ~IsInjective(in.services)} = {}
        BY <1>1, NothingIncompatible DEF ServiceIssues
  <2> QED BY <2>1
<1>4. \A o \in ToSet(in.options) :
          Sold(db.options, o) /\ db.options[o].service \in ToSet(in.services)
  <2>1. {o \in ToSet(in.options) : \/ ~Sold(db.options, o)
                                   \/ db.options[o].service \notin ToSet(in.services)} = {}
        BY <1>1, NothingIncompatible DEF OptionIssues
  <2> QED BY <2>1
<1>5. RequiredOptions(db, ToSet(in.services)) \subseteq ToSet(in.options)
  <2> SUFFICES ASSUME NEW o \in RequiredOptions(db, ToSet(in.services)) \ ToSet(in.options)
               PROVE  FALSE
      OBVIOUS
  <2>1. <<"MISSING_REQUIRED_OPTION", o>> \in OptionIssues(db, in)
        BY DEF OptionIssues
  <2> QED BY <1>1, <2>1
<1>6. \A s \in ToSet(in.services) : LET rules == {r \in db.compatibility : r.service = s}
                                   IN  rules # {} => \E r \in rules : InScope(r, in)
  <2>1. {s \in ToSet(in.services) : LET rules == {r \in db.compatibility : r.service = s}
                                    IN  rules # {} /\ \A r \in rules : ~InScope(r, in)} = {}
        BY <1>1, NothingIncompatible, Zenon DEF CompatibilityIssues
  <2> QED BY <2>1
<1>7. ASSUME NEW x \in db.exclusions, {x.a, x.b} \subseteq ToSet(in.services) PROVE FALSE
  <2>1. <<"INCOMPATIBLE", x.a>> \in CombinationIssues(db, in)
        BY <1>7 DEF CombinationIssues, Incompatible
  <2> QED BY <1>1, <2>1
<1>8. ASSUME NEW x \in db.requirements, x.service \in ToSet(in.services),
             x.needs \notin ToSet(in.services)
      PROVE  FALSE
  <2>1. <<"REQUIRES", x.service>> \in CombinationIssues(db, in)
        BY <1>8 DEF CombinationIssues
  <2> QED BY <1>1, <2>1
<1> QED BY <1>2, <1>3, <1>4, <1>5, <1>6, <1>7, <1>8

(* So each condition is met in the version its rows were read in. *)
LEMMA ValidWasOnSale ==
    ASSUME NEW from \in Nat, NEW to \in Nat, from <= to, NEW db \in Views(Catalogue, from, to),
           NEW in, Issues(db, in) = {}, NEW kind \in Conditions
    PROVE  \E v \in from..to : Meets(kind, Catalogue[v], in)
<1>1. PICK at : (\A i \in 1..Reads : at[i] \in from..to) /\ db = Read(Catalogue, at)
      BY ReadInSpan
<1>2. /\ at[1] \in from..to /\ at[2] \in from..to /\ at[3] \in from..to /\ at[4] \in from..to
      /\ at[5] \in from..to /\ at[6] \in from..to /\ at[7] \in from..to /\ at[8] \in from..to
      /\ at[9] \in from..to
      BY <1>1 DEF Reads
<1>3. /\ db.models = Catalogue[at[1]].models /\ db.variants = Catalogue[at[2]].variants
      /\ db.revisions = Catalogue[at[3]].revisions /\ db.services = Catalogue[at[4]].services
      /\ db.options = Catalogue[at[5]].options /\ db.required = Catalogue[at[6]].options
      /\ db.compatibility = Catalogue[at[7]].compatibility
      /\ db.exclusions = Catalogue[at[8]].exclusions
      /\ db.requirements = Catalogue[at[9]].requirements
      BY <1>1 DEF Read
<1>m. CASE kind = "model"
  <2>1. Meets("model", Catalogue[at[1]], in)
        BY <1>3, NoIssueIsSellable DEF Meets, ModelActive
  <2> QED BY <1>m, <1>2, <2>1
<1>v. CASE kind = "variant"
  <2>1. Meets("variant", Catalogue[at[2]], in)
        BY <1>3, NoIssueIsSellable DEF Meets, VariantActive
  <2> QED BY <1>v, <1>2, <2>1
<1>r. CASE kind = "revision"
  <2>1. Meets("revision", Catalogue[at[3]], in)
        BY <1>3, NoIssueIsSellable DEF Meets, RevisionValid
  <2> QED BY <1>r, <1>2, <2>1
<1>s. CASE kind = "services"
  <2>1. Meets("services", Catalogue[at[4]], in)
        BY <1>3, NoIssueIsSellable DEF Meets, Sold
  <2> QED BY <1>s, <1>2, <2>1
<1>d. CASE kind = "once"
  <2>1. Meets("once", Catalogue[at[1]], in)
        BY NoIssueIsSellable DEF Meets, IsInjective
  <2> QED BY <1>d, <1>2, <2>1
<1>o. CASE kind = "options"
  <2>1. Meets("options", Catalogue[at[5]], in)
        BY <1>3, NoIssueIsSellable DEF Meets, Sold
  <2> QED BY <1>o, <1>2, <2>1
<1>q. CASE kind = "required"
  <2>1. Meets("required", Catalogue[at[6]], in)
        BY <1>3, NoIssueIsSellable DEF Meets, RequiredOptions
  <2> QED BY <1>q, <1>2, <2>1
<1>w. CASE kind = "white list"
  <2>1. Meets("white list", Catalogue[at[7]], in)
        BY <1>3, NoIssueIsSellable DEF Meets, InScope
  <2> QED BY <1>w, <1>2, <2>1
<1>e. CASE kind = "exclusions"
  <2>1. Meets("exclusions", Catalogue[at[8]], in)
        BY <1>3, NoIssueIsSellable DEF Meets
  <2> QED BY <1>e, <1>2, <2>1
<1>n. CASE kind = "requirements"
  <2>1. Meets("requirements", Catalogue[at[9]], in)
        BY <1>3, NoIssueIsSellable DEF Meets
  <2> QED BY <1>n, <1>2, <2>1
<1> QED BY <1>m, <1>v, <1>r, <1>s, <1>d, <1>o, <1>q, <1>w, <1>e, <1>n DEF Conditions

-----------------------------------------------------------------------------
(* Prices are answers of the engine, wherever they have got to: the          *)
(* validation, the screen, what was seen at the click, the order.           *)
Span(from, to) == from \in DOMAIN Catalogue /\ to \in DOMAIN Catalogue /\ from <= to

PricedAnswer(q) ==
    /\ Span(q.from, q.to)
    /\ \E db \in Readings[q.from][q.to] : \E a \in Answers(db, q.sel, None) : q.total = a.total

(* What was seen is about the selection added, and answered before version v. *)
SeenBy(seen, x, v) == \A q \in seen : PricedAnswer(q) /\ q.sel = x /\ q.to <= v

AskInv ==
    /\ ver \in DOMAIN Catalogue
    /\ \A q \in requests : /\ q.from \in DOMAIN Catalogue /\ q.from <= ver
                           /\ q.to # None => PricedAnswer(q) /\ q.to <= ver
    /\ \A q \in shown : PricedAnswer(q) /\ q.to <= ver

AddInv ==
    /\ add = [c \in Run |-> add[c]]
    /\ \A c \in Run : IsRun(add[c]) /\ SeenBy(add[c].seen, add[c].sel, ver)

(* A line of the order was accepted, from its reading on. *)
Accepted(p, asked) ==
    /\ Span(p.from, p.to) /\ asked \in DOMAIN Catalogue /\ asked <= p.from
    /\ \E db \in Readings[p.from][p.to] : \E a \in Answers(db, p.sel, None) :
          a.valid /\ p.total = a.total
    /\ SeenBy(p.seen, p.sel, p.from)

OrderInv ==
    /\ IsOrder(order)
    /\ order.todo \subseteq InCart
    /\ order.step \in {"shop", "checkout"} => order.todo = {} /\ order.lines = {}
    /\ order.todo # {} => /\ Span(order.asked, order.from) /\ order.from <= ver
                          /\ \A c \in order.todo : SeenBy(add[c].seen, add[c].sel, order.from)
    /\ \A p \in order.lines : Accepted(p, order.asked)

BuyInv == AskInv /\ AddInv /\ OrderInv

LEMMA Versions == \A v \in DOMAIN Catalogue : v \in Nat
BY CatalogueAssumption

LEMMA SeenLater ==
    ASSUME NEW seen, NEW x, NEW v \in DOMAIN Catalogue, NEW w \in DOMAIN Catalogue, v <= w,
           SeenBy(seen, x, v)
    PROVE  SeenBy(seen, x, w)
<1> SUFFICES ASSUME NEW q \in seen PROVE PricedAnswer(q) /\ q.sel = x /\ q.to <= w
    BY DEF SeenBy
<1>1. PricedAnswer(q) /\ q.sel = x /\ q.to <= v
      BY DEF SeenBy
<1>2. q.to \in Nat /\ v \in Nat /\ w \in Nat
      BY <1>1, Versions DEF PricedAnswer, Span
<1> QED BY <1>1, <1>2

LEMMA Reading ==
    ASSUME NEW v \in DOMAIN Catalogue, NEW w \in DOMAIN Catalogue
    PROVE  Readings[v][w] = Views(Catalogue, v, w)
BY DEF Readings

(* What EXCEPT does to the fields of a run. *)
LEMMA RunFields ==
    ASSUME NEW r, IsRun(r), NEW y, NEW z
    PROVE  /\ IsRun([r EXCEPT !.step = y, !.from = z])
           /\ [r EXCEPT !.step = y, !.from = z].step = y
           /\ [r EXCEPT !.step = y, !.from = z].sel = r.sel
           /\ [r EXCEPT !.step = y, !.from = z].seen = r.seen
           /\ IsRun([r EXCEPT !.step = y])
           /\ [r EXCEPT !.step = y].step = y
           /\ [r EXCEPT !.step = y].sel = r.sel
           /\ [r EXCEPT !.step = y].seen = r.seen
           /\ IsRun([r EXCEPT !.waited = y])
           /\ [r EXCEPT !.waited = y].step = r.step
           /\ [r EXCEPT !.waited = y].sel = r.sel
           /\ [r EXCEPT !.waited = y].seen = r.seen
<1>1. PICK p, w, x, s, f : r \in [step : {p}, waited : {w}, sel : {x}, seen : {s}, from : {f}]
      BY DEF IsRun
<1> DEFINE Of(a, b, c) == [step : {a}, waited : {b}, sel : {x}, seen : {s}, from : {c}]
<1>2. /\ [r EXCEPT !.step = y, !.from = z] \in Of(y, w, z)
      /\ [r EXCEPT !.step = y] \in Of(y, w, f)
      /\ [r EXCEPT !.waited = y] \in Of(p, y, f)
      BY <1>1
<1>3. ASSUME NEW a, NEW b, NEW c, NEW u \in Of(a, b, c)
      PROVE  IsRun(u) /\ u.step = a /\ u.sel = x /\ u.seen = s
      BY <1>3 DEF IsRun
<1>4. r.step = p /\ r.sel = x /\ r.seen = s
      BY <1>1
<1> HIDE DEF Of
<1> QED BY <1>2, <1>3, <1>4

LEMMA OrderFields ==
    ASSUME NEW o, IsOrder(o), NEW y, NEW z, NEW u, NEW w
    PROVE  /\ [o EXCEPT !.step = y] \in
                 [step : {y}, asked : {o.asked}, todo : {o.todo}, from : {o.from}, lines : {o.lines}]
           /\ [o EXCEPT !.step = y, !.asked = z, !.todo = u, !.from = w] \in
                 [step : {y}, asked : {z}, todo : {u}, from : {w}, lines : {o.lines}]
           /\ [o EXCEPT !.todo = u, !.from = w, !.lines = z] \in
                 [step : {o.step}, asked : {o.asked}, todo : {u}, from : {w}, lines : {z}]
BY DEF IsOrder

(* Runs that keep their steps, or at least the stored ones, and lose nothing  *)
(* of what they carry leave the order alone.                                *)
LEMMA OrderStays ==
    ASSUME OrderInv, UNCHANGED order, ver' \in DOMAIN Catalogue, ver \in DOMAIN Catalogue, ver <= ver',
           \A c \in InCart : /\ c \in InCart'
                             /\ add'[c].seen = add[c].seen /\ add'[c].sel = add[c].sel
    PROVE  OrderInv'
<1>1. order.todo # {} => order.from \in Nat /\ ver \in Nat /\ ver' \in Nat
      BY Versions DEF OrderInv, Span
<1>2. \A c \in order.todo : add'[c].seen = add[c].seen /\ add'[c].sel = add[c].sel /\ c \in InCart'
      BY DEF OrderInv
<1> QED BY <1>1, <1>2 DEF OrderInv, Span, Accepted, SeenBy, PricedAnswer, IsOrder

(* A run makes a step: what it carries is kept, or seen by now. *)
LEMMA RunMoves ==
    ASSUME BuyInv, UNCHANGED <<ver, page, order>>, NEW c \in Run, NEW r,
           add' = [add EXCEPT ![c] = r], IsRun(r), SeenBy(r.seen, r.sel, ver),
           add[c].step = "stored" =>
               r.step = "stored" /\ r.seen = add[c].seen /\ r.sel = add[c].sel
    PROVE  BuyInv'
<1>1. AskInv'
      BY DEF BuyInv, AskInv, PricedAnswer, page, Span
<1>2. AddInv'
  <2>1. /\ add' = [d \in Run |-> add'[d]] /\ add'[c] = r
        /\ \A d \in Run \ {c} : add'[d] = add[d]
        BY DEF BuyInv, AddInv
  <2>2. ASSUME NEW d \in Run PROVE IsRun(add'[d]) /\ SeenBy(add'[d].seen, add'[d].sel, ver)
        BY <2>1 DEF BuyInv, AddInv
  <2> QED BY <2>1, <2>2 DEF AddInv, IsRun, SeenBy, PricedAnswer, Span
<1>3. OrderInv'
  <2>1. /\ add'[c] = r /\ \A d \in Run \ {c} : add'[d] = add[d]
        BY DEF BuyInv, AddInv
  <2>2. ver \in Nat /\ ver \in DOMAIN Catalogue /\ ver <= ver'
        BY Versions DEF BuyInv, AskInv
  <2> QED BY <2>1, <2>2, OrderStays DEF BuyInv, InCart
<1> QED BY <1>1, <1>2, <1>3 DEF BuyInv

-----------------------------------------------------------------------------
LEMMA BuyInit == Init => BuyInv
<1> SUFFICES ASSUME Init PROVE BuyInv
    OBVIOUS
<1>1. ASSUME NEW x PROVE IsRun(Kept(x)) /\ Kept(x).seen = {}
  <2>1. Kept(x) \in [step : {"stored"}, waited : {FALSE}, sel : {x}, seen : {{}}, from : {None}]
        BY DEF Kept, Idle
  <2> QED BY <2>1 DEF IsRun
<1>2. IsRun(Idle) /\ Idle.seen = {}
      BY DEF Idle, IsRun
<1>3. ASSUME NEW c \in Run PROVE IsRun(add[c]) /\ add[c].seen = {}
  <2>1. add[c] = IF c \in DOMAIN Earlier THEN Kept(Earlier[c]) ELSE Idle
        BY DEF Init
  <2> QED BY <1>1, <1>2, <2>1
<1>4. add = [c \in Run |-> add[c]]
      BY DEF Init
<1>5. AddInv
      BY <1>3, <1>4 DEF AddInv, SeenBy
<1>6. AskInv
      BY CatalogueAssumption DEF AskInv, Init
<1>7. order.todo = {} /\ order.lines = {} /\ IsOrder(order)
      BY DEF Init, NoOrder, IsOrder
<1>8. OrderInv
      BY <1>7 DEF OrderInv
<1> QED BY <1>5, <1>6, <1>8 DEF BuyInv

LEMMA EditKeeps ==
    ASSUME BuyInv, CatalogueEdited
    PROVE  BuyInv'
<1>1. /\ ver \in DOMAIN Catalogue /\ ver' \in DOMAIN Catalogue /\ ver <= ver'
      /\ UNCHANGED <<requests, shown, add, order>>
      BY Versions DEF CatalogueEdited, BuyInv, AskInv, page
<1>2. ASSUME NEW n, NEW m, n \in DOMAIN Catalogue, n <= ver PROVE n <= ver'
      BY <1>1, <1>2, Versions
<1>3. AskInv'
      BY <1>1, <1>2 DEF BuyInv, AskInv, PricedAnswer, Span
<1>4. AddInv'
  <2>1. ASSUME NEW c \in Run PROVE IsRun(add[c]) /\ SeenBy(add[c].seen, add[c].sel, ver')
        BY <1>1, SeenLater DEF BuyInv, AddInv
  <2> QED BY <1>1, <2>1 DEF BuyInv, AddInv, SeenBy, PricedAnswer, IsRun, Span
<1>5. OrderInv'
      BY <1>1, OrderStays DEF BuyInv, InCart
<1> QED BY <1>3, <1>4, <1>5 DEF BuyInv

(* The page asks, the engine answers, the answer is shown, or there is none. *)
LEMMA AskKeeps ==
    ASSUME FormInv, BuyInv, ChangeSelection \/ ValidationStep \/ GoToCheckout
    PROVE  BuyInv'
<1>1. /\ UNCHANGED <<ver, add>>
      /\ order.todo' = order.todo /\ order.asked' = order.asked /\ order.from' = order.from
      /\ order.lines' = order.lines /\ IsOrder(order)'
      /\ order'.step \in {"shop", "checkout"} => order.step \in {"shop", "checkout"}
  <2>1. CASE GoToCheckout
    <3>1. order' \in [step : {"checkout"}, asked : {order.asked}, todo : {order.todo},
                      from : {order.from}, lines : {order.lines}]
          BY <2>1, OrderFields DEF GoToCheckout, BuyInv, OrderInv
    <3> QED BY <2>1, <3>1 DEF GoToCheckout, IsOrder
  <2>2. CASE ChangeSelection \/ ValidationStep
    <3>1. UNCHANGED <<ver, add, order>>
          BY <2>2 DEF ChangeSelection, ValidationStep, TimerFires, Serve, Answered, Refused,
                      ConnectionFails
    <3> QED BY <3>1 DEF BuyInv, OrderInv, IsOrder
  <2> QED BY <2>1, <2>2
<1>2. AddInv' /\ OrderInv'
  <2>1. AddInv'
        BY <1>1 DEF BuyInv, AddInv, SeenBy, PricedAnswer, IsRun, Span
  <2>2. OrderInv'
        BY <1>1 DEF BuyInv, OrderInv, InCart, Accepted, SeenBy, PricedAnswer, Span
  <2> QED BY <2>1, <2>2
<1>3. CASE ChangeSelection \/ GoToCheckout
  <2>1. requests' \subseteq requests /\ shown' \subseteq shown
        BY <1>3 DEF ChangeSelection, Effects, GoToCheckout, Aborted
  <2> QED BY <1>1, <1>2, <2>1 DEF BuyInv, AskInv, PricedAnswer, Span
<1>4. CASE TimerFires
  <2>1. PICK new : /\ new = [sel |-> sel, from |-> ver, to |-> None, valid |-> FALSE, total |-> 0]
                   /\ requests' = requests \cup {new}
        BY <1>4, Zenon DEF TimerFires
  <2>2. UNCHANGED shown /\ new.to = None /\ new.from = ver /\ ver <= ver
        BY <1>4, <2>1, Versions DEF TimerFires, BuyInv, AskInv
  <2> QED BY <1>1, <1>2, <2>1, <2>2 DEF BuyInv, AskInv, PricedAnswer, Span
<1>5. ASSUME NEW q \in requests, Serve(q) PROVE BuyInv'
  <2>1. PICK a \in AnswersFrom(q.from, q.sel) : requests' =
            (requests \ {q}) \cup {[q EXCEPT !.to = ver, !.valid = a.valid, !.total = a.total]}
        BY <1>5 DEF Serve
  <2>2. PICK db \in Readings[q.from][ver] : a \in Answers(db, q.sel, None)
        BY DEF AnswersFrom
  <2>3. PICK new : new = [q EXCEPT !.to = ver, !.valid = a.valid, !.total = a.total]
        OBVIOUS
  <2>4. new.sel = q.sel /\ new.from = q.from /\ new.to = ver /\ new.total = a.total
    <3>1. IsValidation(q)
          BY DEF FormInv, PageInv
    <3> QED BY <2>3, <3>1 DEF IsValidation
  <2>5. Span(new.from, new.to) /\ ver <= ver
        BY <2>4, Versions DEF BuyInv, AskInv, Span
  <2>6. PricedAnswer(new) /\ new.to <= ver /\ new.from <= ver
        BY <2>2, <2>4, <2>5 DEF PricedAnswer, Span
  <2>7. UNCHANGED shown /\ requests' = (requests \ {q}) \cup {new}
        BY <1>5, <2>1, <2>3 DEF Serve
  <2> QED BY <1>1, <1>2, <2>5, <2>6, <2>7 DEF BuyInv, AskInv, PricedAnswer, Span
<1>6. ASSUME NEW q \in requests, Answered(q) \/ Refused(q) \/ ConnectionFails(q) PROVE BuyInv'
  <2>1. /\ requests' \subseteq requests /\ shown' \subseteq shown \cup {q}
        /\ q \in shown' => q \in shown \/ q.to # None
        BY <1>6 DEF Answered, Refused, ConnectionFails
  <2> QED BY <1>1, <1>2, <2>1 DEF BuyInv, AskInv, PricedAnswer, Span
<1> QED BY <1>3, <1>4, <1>5, <1>6 DEF ValidationStep

(* A run: what was seen at the click goes with the selection of the click. *)
LEMMA RunKeeps ==
    ASSUME FormInv, BuyInv, NEW c \in Run,
           Click(c) \/ CartResolved(c) \/ Accepts(c) \/ AddItem(c) \/ AddAnswered(c) \/ AddFails(c)
    PROVE  BuyInv'
<1>1. UNCHANGED <<ver, page, order>>
      BY DEF Click, CartResolved, Accepts, AddItem, AddAnswered, AddFails
<1>2. IsRun(add[c]) /\ SeenBy(add[c].seen, add[c].sel, ver) /\ c \in DOMAIN add
      BY DEF BuyInv, AddInv
<1>3. CASE Click(c)
  <2>1. PICK s, r : /\ r = [step |-> "cart", waited |-> TRUE, sel |-> sel, seen |-> s, from |-> None]
                    /\ s = IF Settled THEN shown ELSE {}
                    /\ add' = [add EXCEPT ![c] = r] /\ add[c] = Idle
        BY <1>3 DEF Click
  <2>2. r.sel = sel /\ r.seen = s
        BY <2>1
  <2>3. IsRun(r)
    <3>1. r \in [step : {"cart"}, waited : {TRUE}, sel : {sel}, seen : {s}, from : {None}]
          BY <2>1
    <3> QED BY <3>1 DEF IsRun
  <2>4. \A q \in s : PricedAnswer(q) /\ q.sel = sel /\ q.to <= ver
    <3>1. \A q \in s : q \in shown /\ q.sel = sel
          BY <2>1 DEF FormInv, PageInv, SettledShowsSelection
    <3> QED BY <3>1 DEF BuyInv, AskInv
  <2>5. SeenBy(r.seen, r.sel, ver)
        BY <2>2, <2>4 DEF SeenBy
  <2>6. add[c].step # "stored"
        BY <2>1 DEF Idle
  <2> QED BY <1>1, <2>1, <2>3, <2>5, <2>6, RunMoves
<1>4. CASE CartResolved(c)
  <2>1. PICK r : r = [add[c] EXCEPT !.step = "post", !.from = ver]
        OBVIOUS
  <2>2. IsRun(r) /\ r.sel = add[c].sel /\ r.seen = add[c].seen
        BY <1>2, <2>1 DEF IsRun
  <2>3. add' = [add EXCEPT ![c] = r] /\ add[c].step = "cart"
        BY <1>2, <1>4, <2>1 DEF CartResolved
  <2> QED BY <1>1, <1>2, <2>2, <2>3, RunMoves
<1>5. CASE Accepts(c)
  <2>1. PICK r : r = [add[c] EXCEPT !.step = "valid", !.from = None]
        OBVIOUS
  <2>2. IsRun(r) /\ r.sel = add[c].sel /\ r.seen = add[c].seen
        BY <1>2, <2>1 DEF IsRun
  <2>3. add' = [add EXCEPT ![c] = r] /\ add[c].step = "post"
        BY <1>2, <1>5, <2>1 DEF Accepts
  <2> QED BY <1>1, <1>2, <2>2, <2>3, RunMoves
<1>6. CASE AddItem(c)
  <2>1. PICK r : r = [add[c] EXCEPT !.step = "stored"]
        OBVIOUS
  <2>2. IsRun(r) /\ r.sel = add[c].sel /\ r.seen = add[c].seen
        BY <1>2, <2>1, RunFields
  <2>3. add' = [add EXCEPT ![c] = r] /\ add[c].step = "valid"
        BY <1>2, <1>6, <2>1 DEF AddItem
  <2> QED BY <1>1, <1>2, <2>2, <2>3, RunMoves
<1>7. CASE AddAnswered(c)
  <2>1. PICK r : r = [add[c] EXCEPT !.waited = FALSE]
        OBVIOUS
  <2>2. IsRun(r) /\ r.step = add[c].step /\ r.sel = add[c].sel /\ r.seen = add[c].seen
        BY <1>2, <2>1, RunFields
  <2>3. add' = [add EXCEPT ![c] = r]
        BY <1>2, <1>7, <2>1 DEF AddAnswered
  <2> QED BY <1>1, <1>2, <2>2, <2>3, RunMoves
<1>8. CASE AddFails(c)
  <2>1. add' = [add EXCEPT ![c] = Idle] /\ add[c].step # "stored"
        BY <1>8 DEF AddFails
  <2>2. IsRun(Idle) /\ SeenBy(Idle.seen, Idle.sel, ver)
        BY DEF Idle, IsRun, SeenBy
  <2> QED BY <1>1, <2>1, <2>2, RunMoves
<1> QED BY <1>3, <1>4, <1>5, <1>6, <1>7, <1>8

(* The order: what it writes was accepted by a validation of its own. *)
LEMMA OrderKeeps ==
    ASSUME BuyInv, Submit \/ (\E c \in order.todo : Revalidate(c)) \/ PlaceOrder \/ OrderFails
    PROVE  BuyInv'
<1>1. UNCHANGED <<ver, sel, page, add>>
      BY DEF Submit, Revalidate, PlaceOrder, OrderFails
<1>2. AskInv' /\ AddInv'
  <2>1. AskInv'
        BY <1>1 DEF BuyInv, AskInv, PricedAnswer, Span, page
  <2>2. AddInv'
        BY <1>1 DEF BuyInv, AddInv, SeenBy, PricedAnswer, IsRun, Span
  <2> QED BY <2>1, <2>2
<1>3. ver \in DOMAIN Catalogue /\ ver \in Nat /\ IsOrder(order)
      BY Versions DEF BuyInv, AskInv, OrderInv
<1>4. OrderInv'
  <2>1. CASE Submit
    <3>1. /\ order' \in [step : {"checking"}, asked : {ver}, todo : {InCart}, from : {ver},
                         lines : {order.lines}]
          BY <1>3, <2>1, OrderFields DEF Submit
    <3>2. /\ IsOrder(order') /\ order'.asked = ver /\ order'.todo = InCart /\ order'.from = ver
          /\ order'.lines = order.lines /\ order'.step = "checking"
          BY <3>1 DEF IsOrder
    <3>3. order'.todo # {} => Span(order'.asked, order'.from) /\ order'.from <= ver'
          BY <1>1, <1>3, <3>2 DEF Span
    <3>4. order.lines = {}
          BY <2>1 DEF Submit, BuyInv, OrderInv
    <3>5. \A c \in Run : SeenBy(add'[c].seen, add'[c].sel, order'.from)
          BY <1>1, <3>2 DEF BuyInv, AddInv
    <3> QED BY <1>1, <3>2, <3>3, <3>4, <3>5 DEF OrderInv, InCart
  <2>2. ASSUME NEW c \in order.todo, Revalidate(c) PROVE OrderInv'
    <3>1. /\ Span(order.asked, order.from) /\ order.from <= ver /\ c \in Run
          /\ order.todo \subseteq InCart /\ \A p \in order.lines : Accepted(p, order.asked)
          BY DEF BuyInv, OrderInv, InCart
    <3>2. PICK a \in AnswersFrom(order.from, add[c].sel) :
              /\ a.valid
              /\ order' = [order EXCEPT !.todo = @ \ {c}, !.from = ver,
                              !.lines = @ \cup {[sel |-> add[c].sel, seen |-> add[c].seen,
                                                 from |-> order.from, to |-> ver, total |-> a.total]}]
          BY <2>2 DEF Revalidate
    <3>3. PICK p : p = [sel |-> add[c].sel, seen |-> add[c].seen,
                        from |-> order.from, to |-> ver, total |-> a.total]
          OBVIOUS
    <3>4. Accepted(p, order.asked)
      <4>1. PICK db \in Readings[order.from][ver] : a \in Answers(db, add[c].sel, None)
            BY DEF AnswersFrom
      <4>2. SeenBy(add[c].seen, add[c].sel, order.from)
            BY DEF BuyInv, OrderInv
      <4>3. /\ p.sel = add[c].sel /\ p.seen = add[c].seen /\ p.from = order.from
            /\ p.to = ver /\ p.total = a.total
            BY <3>3
      <4>4. Span(p.from, p.to) /\ order.asked \in DOMAIN Catalogue /\ order.asked <= p.from
            BY <1>3, <3>1, <4>3 DEF Span
      <4> QED BY <3>2, <4>1, <4>2, <4>3, <4>4 DEF Accepted
    <3>5. order' = [order EXCEPT !.todo = order.todo \ {c}, !.from = ver, !.lines = order.lines \cup {p}]
          BY <1>3, <3>2, <3>3
    <3>6. order' \in [step : {order.step}, asked : {order.asked}, todo : {order.todo \ {c}},
                      from : {ver}, lines : {order.lines \cup {p}}]
          BY <1>3, <3>5, OrderFields
    <3>7. /\ IsOrder(order') /\ order'.step = order.step /\ order'.asked = order.asked
          /\ order'.todo = order.todo \ {c} /\ order'.from = ver
          /\ order'.lines = order.lines \cup {p}
          BY <3>6 DEF IsOrder
    <3>8. Span(order'.asked, order'.from) /\ order'.from <= ver'
      <4>1. order.asked \in Nat /\ order.from \in Nat
            BY <3>1, Versions DEF Span
      <4> QED BY <1>1, <1>3, <3>1, <3>7, <4>1 DEF Span
    <3>9. \A d \in Run : SeenBy(add'[d].seen, add'[d].sel, order'.from)
          BY <1>1, <3>7 DEF BuyInv, AddInv
    <3>10. order'.todo \subseteq InCart'
          BY <1>1, <3>1, <3>7 DEF InCart
    <3>11. \A x \in order'.lines : Accepted(x, order'.asked)
      <4>1. \A x \in order'.lines : Accepted(x, order.asked)
            BY <3>1, <3>4, <3>7
      <4> QED BY <3>7, <4>1 DEF Accepted, SeenBy, PricedAnswer, Span
    <3>12. order.step \notin {"shop", "checkout"}
          BY DEF BuyInv, OrderInv
    <3> QED BY <3>7, <3>8, <3>9, <3>10, <3>11, <3>12 DEF OrderInv, InCart
  <2>3. CASE PlaceOrder
    <3>1. order' \in [step : {"placed"}, asked : {order.asked}, todo : {order.todo},
                      from : {order.from}, lines : {order.lines}]
          BY <1>3, <2>3, OrderFields DEF PlaceOrder
    <3>2. /\ IsOrder(order') /\ order'.step = "placed" /\ order'.asked = order.asked
          /\ order'.todo = order.todo /\ order'.from = order.from /\ order'.lines = order.lines
          BY <3>1 DEF IsOrder
    <3> QED BY <1>1, <3>2 DEF BuyInv, OrderInv, InCart, Accepted, SeenBy, PricedAnswer, Span
  <2>4. CASE OrderFails
    <3>1. order' \in [step : {"checkout"}, asked : {None}, todo : {{}}, from : {None}, lines : {{}}]
          BY <2>4 DEF OrderFails, NoOrder
    <3>2. IsOrder(order') /\ order'.todo = {} /\ order'.lines = {}
          BY <3>1 DEF IsOrder
    <3> QED BY <3>2 DEF OrderInv
  <2> QED BY <2>1, <2>2, <2>3, <2>4
<1> QED BY <1>2, <1>4 DEF BuyInv

-----------------------------------------------------------------------------
(* What is added and ordered was asked for, answered and accepted. *)
THEOREM BuyInvariance == Spec => []BuyInv
<1>1. FormInv /\ BuyInv /\ [Next]_vars => BuyInv'
  <2> SUFFICES ASSUME FormInv, BuyInv, [Next]_vars PROVE BuyInv'
      OBVIOUS
  <2>1. CASE UNCHANGED vars
        BY <2>1 DEF vars, page, BuyInv, AskInv, AddInv, OrderInv, InCart, Accepted, SeenBy,
                    PricedAnswer, Span, IsRun, IsOrder
  <2> QED BY <2>1, Steps, EditKeeps, AskKeeps, RunKeeps, OrderKeeps DEF RunStep
<1> QED BY <1>1, BuyInit, FormInvariance, PTL DEF Spec

(* For any catalogue, edited at any time, also between two reads of one       *)
(* validation and between the validation and the insertion of a line: a      *)
(* line of an order met every condition of sale between the submission and   *)
(* its validation.                                                          *)
THEOREM OrderedWereOnSale == Spec => []OrderedWasOnSale
<1>1. BuyInv => OrderedWasOnSale
  <2> SUFFICES ASSUME BuyInv, NEW p \in order.lines, NEW kind \in Conditions
               PROVE  \E v \in order.asked..p.to : Meets(kind, Catalogue[v], p.sel)
      BY DEF OrderedWasOnSale
  <2>1. Accepted(p, order.asked)
        BY DEF BuyInv, OrderInv
  <2>2. PICK db \in Readings[p.from][p.to] : \E a \in Answers(db, p.sel, None) : a.valid
        BY <2>1 DEF Accepted
  <2>3. Issues(db, p.sel) = {}
    <3>1. PICK a \in Answers(db, p.sel, None) : a.valid
          BY <2>2
    <3>2. a.valid = (Issues(db, p.sel) = {})
          BY DEF Answers
    <3> QED BY <3>1, <3>2
  <2>4. /\ p.from \in DOMAIN Catalogue /\ p.to \in DOMAIN Catalogue
        /\ order.asked \in DOMAIN Catalogue /\ order.asked <= p.from /\ p.from <= p.to
        BY <2>1 DEF Accepted, Span
  <2>5. p.from \in Nat /\ p.to \in Nat /\ order.asked \in Nat
        BY <2>4, Versions
  <2>6. db \in Views(Catalogue, p.from, p.to)
        BY <2>2, <2>4, Reading
  <2>7. PICK v \in p.from..p.to : Meets(kind, Catalogue[v], p.sel)
        BY <2>3, <2>4, <2>5, <2>6, ValidWasOnSale
  <2>8. v \in order.asked..p.to
        BY <2>4, <2>5
  <2> QED BY <2>7, <2>8
<1> QED BY <1>1, BuyInvariance, PTL

(* Two answers about one reading of the catalogue have different totals only *)
(* if two subtotals are possible.                                           *)
LEMMA OneTotal ==
    ASSUME NEW db, NEW in, NEW a \in Answers(db, in, None), NEW b \in Answers(db, in, None),
           \A x, y \in Subtotals(db, in, None) : x = y
    PROVE  a.total = b.total
<1>1. CASE Issues(db, in) = {}
  <2>1. PICK x \in Subtotals(db, in, None) : a.total = x + Tax(db, x)
        BY <1>1 DEF Answers
  <2>2. PICK y \in Subtotals(db, in, None) : b.total = y + Tax(db, y)
        BY <1>1 DEF Answers
  <2> QED BY <2>1, <2>2
<1>2. CASE Issues(db, in) # {}
  <2>1. a.total = 0 + 0 /\ b.total = 0 + 0
        BY <1>2 DEF Answers
  <2> QED BY <2>1
<1> QED BY <1>1, <1>2

(* For any catalogue and any edits of it: what a click on a settled page has  *)
(* added is ordered as the selection whose price was on the screen, at that  *)
(* price, unless the catalogue was edited in between or its rules tie.       *)
THEOREM ShownIsBought == Spec => []BoughtAsShown
<1>1. BuyInv => BoughtAsShown
  <2> SUFFICES ASSUME BuyInv, NEW p \in order.lines, NEW q \in p.seen
               PROVE  p.sel = q.sel /\ (p.total = q.total \/ q.from # p.to \/ Tied(p.to, p.sel))
      BY DEF BoughtAsShown
  <2>1. Accepted(p, order.asked)
        BY DEF BuyInv, OrderInv
  <2>2. /\ PricedAnswer(q) /\ q.sel = p.sel /\ q.to <= p.from /\ p.from <= p.to /\ q.from <= q.to
        /\ {p.from, p.to, q.from, q.to} \subseteq DOMAIN Catalogue
        BY <2>1 DEF Accepted, SeenBy, PricedAnswer, Span
  <2>3. ASSUME q.from = p.to, ~Tied(p.to, p.sel) PROVE p.total = q.total
    <3>1. PICK v \in Nat : v \in DOMAIN Catalogue /\ p.from = v /\ p.to = v /\ q.from = v /\ q.to = v
      <4>1. p.from \in Nat /\ p.to \in Nat /\ q.from \in Nat /\ q.to \in Nat
            BY <2>2, Versions
      <4> QED BY <2>2, <2>3, <4>1
    <3>2. PICK x \in Views(Catalogue, v, v) : \E a \in Answers(x, p.sel, None) : p.total = a.total
          BY <2>1, <3>1, Reading DEF Accepted
    <3>3. PICK y \in Views(Catalogue, v, v) : \E b \in Answers(y, p.sel, None) : q.total = b.total
          BY <2>2, <3>1, Reading DEF PricedAnswer
    <3>4. x = y
          BY OneReading
    <3>5. \A m, n \in Subtotals(x, p.sel, None) : m = n
          BY <2>3, <3>1, Reading DEF Tied
    <3> QED BY <3>2, <3>3, <3>4, <3>5, OneTotal
  <2> QED BY <2>2, <2>3
<1> QED BY <1>1, BuyInvariance, PTL
=============================================================================
