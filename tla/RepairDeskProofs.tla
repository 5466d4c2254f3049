-------------------------- MODULE RepairDeskProofs --------------------------
(***************************************************************************)
(* Proofs about the workshop's routes: for any staff, any roles and any    *)
(* number of overlapping requests, no write is made on behalf of an        *)
(* account that was not entitled to it, and no dead label scans again.     *)
(*                                                                         *)
(* And about the seed those rights and the workshop's matrix come from: it *)
(* doubles nothing, stays whole, and its matrix ships nothing untested.    *)
(***************************************************************************)
EXTENDS RepairDesk, Seed, FiniteSetTheorems, WellFoundedInduction, TLAPS

Stage == {"idle", "received", "known", "allowed", "assignee", "checked", "written", "answering"}

Job == [op : Operation, by : Person, to : Person \cup {Nobody}, entitled : BOOLEAN, fit : BOOLEAN]

(* The part of the type invariant the proofs rest on. *)
TypeOK ==
    /\ active \in [Person -> BOOLEAN]
    /\ roles \in [Person -> SUBSET SeedRole]
    /\ step \in [Request -> Stage]
    /\ request \in [Request -> Job]
    /\ label \in Nat \ {0}
    /\ revoked \in BOOLEAN
    /\ dead \subseteq 1 .. label

(* What the guards still to come will establish is what the request was     *)
(* found to have when it arrived: rights are only lost meanwhile.           *)
AccountPromise(r) ==
    /\ step[r] = "received" =>
           (IsActiveStaff(request[r].by) /\ Required[request[r].op] \in Keys(request[r].by)
               => request[r].entitled)
    /\ step[r] = "known" =>
           (Required[request[r].op] \in Keys(request[r].by) => request[r].entitled)
    /\ step[r] \in {"allowed", "assignee", "checked", "written", "answering"} =>
           request[r].entitled

AssigneePromise(r) ==
    /\ request[r].op # "assign" /\ step[r] # "idle" => request[r].fit
    /\ step[r] \in {"received", "known", "allowed"} =>
           (IsActiveStaff(request[r].to) /\ IsTechnician(request[r].to) => request[r].fit)
    /\ step[r] = "assignee" => (IsTechnician(request[r].to) => request[r].fit)
    /\ step[r] \in {"checked", "written", "answering"} => request[r].fit

Promises == \A r \in Request : AccountPromise(r) /\ AssigneePromise(r)

-----------------------------------------------------------------------------
(* Rights are only lost: a change of the accounts gives nobody a permission. *)
Lessened ==
    \A p \in Person \cup {Nobody} :
        /\ IsActiveStaff(p)' => IsActiveStaff(p)
        /\ Keys(p)' \subseteq Keys(p)

LEMMA AccountsLessen ==
    ASSUME TypeOK, AccountChange
    PROVE  Lessened
<1>1. PICK p \in Staff :
          \/ active[p] /\ active' = [active EXCEPT ![p] = FALSE] /\ UNCHANGED <<roles, signedIn>>
          \/ roles[p] # {} /\ roles' = [roles EXCEPT ![p] = {}] /\ UNCHANGED <<active, signedIn>>
          \/ p \in signedIn /\ signedIn' = signedIn \ {p} /\ UNCHANGED <<active, roles>>
      BY DEF AccountChange
<1>2. ASSUME NEW q \in Staff PROVE IsActiveStaff(q)' => IsActiveStaff(q)
      BY <1>1, <1>2 DEF TypeOK, IsActiveStaff, Person
<1>3. ASSUME NEW q \in Person \cup {Nobody} PROVE IsActiveStaff(q)' => IsActiveStaff(q)
      BY <1>2 DEF IsActiveStaff
<1>4. ASSUME NEW q \in Person \cup {Nobody} PROVE Keys(q)' \subseteq Keys(q)
  <2>1. CASE roles' = roles
        BY <2>1 DEF Keys
  <2>2. CASE roles' = [roles EXCEPT ![p] = {}]
    <3>1. CASE q = p
      <4>1. roles'[q] = {}
            BY <2>2, <3>1 DEF TypeOK, Person
      <4> QED BY <4>1 DEF Keys
    <3>2. CASE q # p
      <4>1. roles'[q] = roles[q]
            BY <2>2, <3>2 DEF TypeOK
      <4> QED BY <4>1 DEF Keys
    <3> QED BY <3>1, <3>2
  <2> QED BY <1>1, <2>1, <2>2
<1> QED BY <1>3, <1>4 DEF Lessened

(* Promises survive a loss of rights. *)
LEMMA PromisesSurvive ==
    ASSUME TypeOK, Promises, Lessened, UNCHANGED <<step, request>>
    PROVE  Promises'
<1> SUFFICES ASSUME NEW r \in Request PROVE AccountPromise(r)' /\ AssigneePromise(r)'
    BY DEF Promises
<1>1. request[r].by \in Person \cup {Nobody} /\ request[r].to \in Person \cup {Nobody}
      BY DEF TypeOK, Job
<1>2. AccountPromise(r) /\ AssigneePromise(r)
      BY DEF Promises
<1>3. IsTechnician(request[r].to)' => IsTechnician(request[r].to)
      BY <1>1 DEF Lessened, IsTechnician
<1>4. AccountPromise(r)'
      BY <1>1, <1>2 DEF AccountPromise, Lessened
<1>5. AssigneePromise(r)'
      BY <1>1, <1>2, <1>3 DEF AssigneePromise, Lessened
<1> QED BY <1>4, <1>5

(* The promises of a request depend on its own step, itself and the accounts. *)
LEMMA OthersKeepPromises ==
    ASSUME NEW r \in Request, AccountPromise(r), AssigneePromise(r), UNCHANGED <<active, roles>>,
           step'[r] = step[r], request'[r] = request[r]
    PROVE  AccountPromise(r)' /\ AssigneePromise(r)'
BY DEF AccountPromise, AssigneePromise, IsActiveStaff, IsTechnician, Keys

(* The end of a request leaves nothing to promise. *)
LEMMA EndKeepsPromises ==
    ASSUME TypeOK, Promises, NEW r \in Request, End(r), UNCHANGED <<active, roles>>
    PROVE  Promises'
<1> SUFFICES ASSUME NEW s \in Request PROVE AccountPromise(s)' /\ AssigneePromise(s)'
    BY DEF Promises
<1>1. CASE s = r
  <2>1. step'[s] = "idle"
        BY <1>1 DEF End, TypeOK
  <2> QED BY <2>1 DEF AccountPromise, AssigneePromise
<1>2. CASE s # r
      BY <1>2, OthersKeepPromises DEF End, TypeOK, Promises
<1> QED BY <1>1, <1>2

(* A step of a request keeps the promises when the next step's are kept. *)
LEMMA StepKeepsPromises ==
    ASSUME TypeOK, Promises, NEW r \in Request, NEW s \in Stage,
           step' = [step EXCEPT ![r] = s], UNCHANGED <<request, active, roles>>,
           \/ s = "known" /\ step[r] = "received" /\ IsActiveStaff(request[r].by)
           \/ s = "allowed" /\ step[r] = "known"
                 /\ Required[request[r].op] \in Keys(request[r].by)
           \/ s = "assignee" /\ step[r] = "allowed" /\ IsActiveStaff(request[r].to)
           \/ s = "checked" /\ step[r] = "assignee" /\ IsTechnician(request[r].to)
           \/ s \in {"written", "answering"} /\ step[r] = "allowed" /\ request[r].op # "assign"
           \/ s = "written" /\ step[r] = "checked"
           \/ s = "answering" /\ step[r] = "written"
    PROVE  Promises'
<1> SUFFICES ASSUME NEW t \in Request PROVE AccountPromise(t)' /\ AssigneePromise(t)'
    BY DEF Promises
<1>1. CASE t = r
  <2>1. AccountPromise(r) /\ AssigneePromise(r)
        BY DEF Promises
  <2>2. step'[r] = s /\ request'[r] = request[r]
        BY DEF TypeOK
  <2>3. /\ IsActiveStaff(request[r].to)' = IsActiveStaff(request[r].to)
        /\ IsTechnician(request[r].to)' = IsTechnician(request[r].to)
        /\ Keys(request[r].by)' = Keys(request[r].by)
        BY DEF IsActiveStaff, IsTechnician, Keys
  <2>4. AccountPromise(r)'
        BY <2>1, <2>2, <2>3 DEF AccountPromise
  <2>5. AssigneePromise(r)'
        BY <2>1, <2>2, <2>3 DEF AssigneePromise
  <2> QED BY <1>1, <2>4, <2>5
<1>2. CASE t # r
      BY <1>2, OthersKeepPromises DEF TypeOK, Promises
<1> QED BY <1>1, <1>2

-----------------------------------------------------------------------------
LEMMA JobFields ==
    ASSUME NEW op \in Operation, NEW p \in Person, NEW x \in Person \cup {Nobody},
           NEW e \in BOOLEAN, NEW f \in BOOLEAN
    PROVE  [op |-> op, by |-> p, to |-> x, entitled |-> e, fit |-> f] \in Job
BY DEF Job

LEMMA NoRequestIsJob == NoRequest \in Job
BY DEF NoRequest, Job, Operation, Required, Person

LEMMA ParametersArePeople ==
    ASSUME NEW op \in Operation, NEW x \in Parameters(op)
    PROVE  x \in Person \cup {Nobody}
BY DEF Parameters

LEMMA InitTypeOK == Init => TypeOK
<1> SUFFICES ASSUME Init PROVE TypeOK
    OBVIOUS
<1>1. roles \in [Person -> Appointment \cup {{}}]
      BY DEF Init
<1>2. roles \in [Person -> SUBSET SeedRole]
      BY <1>1, AppointmentAssumption
<1>3. request \in [Request -> Job]
      BY NoRequestIsJob DEF Init
<1>4. active \in [Person -> BOOLEAN] /\ step \in [Request -> Stage]
      BY DEF Init, Stage
<1>5. label \in Nat \ {0} /\ dead \subseteq 1 .. label
      BY DEF Init
<1>6. revoked \in BOOLEAN
      BY Zenon DEF Init
<1> QED BY <1>2, <1>3, <1>4, <1>5, <1>6, Zenon DEF TypeOK

LEMMA GoTypes ==
    ASSUME NEW r \in Request, NEW s \in Stage, step \in [Request -> Stage],
           step' = [step EXCEPT ![r] = s]
    PROVE  step' \in [Request -> Stage]
OBVIOUS

LEMMA EndTypes ==
    ASSUME TypeOK, NEW r \in Request, End(r)
    PROVE  step' \in [Request -> Stage] /\ request' \in [Request -> Job]
BY NoRequestIsJob DEF TypeOK, End, Stage

LEMMA ReceiveTypes ==
    ASSUME TypeOK, NEW r \in Request, NEW op \in Operation, NEW p \in Person,
           NEW x \in Parameters(op), Receive(r, op, p, x)
    PROVE  TypeOK'
<1> DEFINE e == IsActiveStaff(p) /\ Required[op] \in Keys(p)
           f == op = "assign" => IsActiveStaff(x) /\ IsTechnician(x)
<1>1. [op |-> op, by |-> p, to |-> x, entitled |-> e, fit |-> f] \in Job
      BY ParametersArePeople, JobFields
<1>2. request' \in [Request -> Job]
      BY <1>1 DEF Receive, TypeOK
<1>3. step' \in [Request -> Stage]
      BY DEF Receive, TypeOK, Stage
<1> QED BY <1>2, <1>3 DEF Receive, TypeOK, accounts, case

(* One step per action that moves a request; labels change in two of them. *)
LEMMA RequestTypes ==
    ASSUME TypeOK, NEW r \in Request, Step(r) \/ Fail(r)
    PROVE  TypeOK'
<1> USE DEF TypeOK
<1>1. step' \in [Request -> Stage] /\ request' \in [Request -> Job]
  <2> DEFINE Moves == \E s \in Stage : step' = [step EXCEPT ![r] = s] /\ UNCHANGED request
  <2>1. CASE End(r)
        BY <2>1, EndTypes
  <2>2. CASE Moves
        BY <2>2, GoTypes
  <2>3. ASSUME NEW s \in Stage, Go(r, s) PROVE Moves
        BY <2>3 DEF Go
  <2>4. CASE RegenerateQr(r)
    <3>1. "written" \in Stage
          BY DEF Stage
    <3> QED BY <2>2, <2>4, <3>1 DEF RegenerateQr
  <2>5. {"known", "allowed", "assignee", "checked", "written", "answering"} \subseteq Stage
        BY DEF Stage
  <2> HIDE DEF Moves
  <2>6. CASE End(r) \/ Go(r, "known") \/ Go(r, "allowed") \/ Go(r, "assignee")
             \/ Go(r, "checked") \/ Go(r, "written") \/ Go(r, "answering")
        BY <2>1, <2>2, <2>3, <2>5, <2>6
  <2> QED BY <2>4, <2>6 DEF Step, Fail, CheckAccount, CheckPermission, RevokeQr,
             CheckAssignee, CheckAssigneeRole, AssignTechnician, AddNote, Consult, RecordAudit,
             Answer
<1>2. UNCHANGED <<active, roles>>
      BY DEF Step, Fail, CheckAccount, CheckPermission, RegenerateQr, RevokeQr, CheckAssignee,
             CheckAssigneeRole, AssignTechnician, AddNote, Consult, RecordAudit, Answer, accounts
<1>3. label' \in Nat \ {0} /\ revoked' \in BOOLEAN /\ dead' \subseteq 1 .. label'
  <2>1. CASE RegenerateQr(r)
    <3>1. label' = label + 1 /\ dead' = dead \cup {label}
          BY <2>1 DEF RegenerateQr, Bury
    <3>2. revoked' \in BOOLEAN
          BY <2>1, Zenon DEF RegenerateQr
    <3> QED BY <3>1, <3>2
  <2>2. CASE RevokeQr(r)
    <3>1. label \in 1 .. label
          OBVIOUS
    <3> QED BY <2>2, <3>1 DEF RevokeQr, Bury
  <2>3. CASE label' = label /\ revoked' = revoked /\ dead' = dead
        BY <2>3
  <2>4. CASE CheckAccount(r) \/ CheckPermission(r) \/ CheckAssignee(r) \/ CheckAssigneeRole(r)
             \/ Consult(r) \/ RecordAudit(r) \/ Answer(r) \/ Fail(r)
    <3>1. UNCHANGED case /\ UNCHANGED dead
          BY <2>4 DEF CheckAccount, CheckPermission, CheckAssignee, CheckAssigneeRole, Consult,
             RecordAudit, Answer, Fail
    <3> QED BY <2>3, <3>1 DEF case
  <2>5. CASE AssignTechnician(r) \/ AddNote(r)
        BY <2>3, <2>5 DEF AssignTechnician, AddNote
  <2> QED BY <2>1, <2>2, <2>4, <2>5 DEF Step
<1> QED BY <1>1, <1>2, <1>3

(* Every variable the guards and the labels depend on keeps its type. *)
THEOREM TypeInvariant == Spec => []TypeOK
<1>1. TypeOK /\ [Next]_vars => TypeOK'
  <2> SUFFICES ASSUME TypeOK, [Next]_vars PROVE TypeOK'
      OBVIOUS
  <2>1. ASSUME NEW r \in Request, NEW op \in Operation, NEW p \in Person,
               NEW x \in Parameters(op), Receive(r, op, p, x)
        PROVE  TypeOK'
        BY <2>1, ReceiveTypes
  <2>2. ASSUME NEW r \in Request, Step(r) \/ Fail(r) PROVE TypeOK'
        BY <2>2, RequestTypes
  <2>3. CASE GetMine \/ ListClientMessages \/ UNCHANGED vars
    <3>1. UNCHANGED <<accounts, case, serving, dead>>
          BY <2>3 DEF GetMine, ListClientMessages, vars
    <3> QED BY <3>1 DEF TypeOK, accounts, case, serving
  <2>4. CASE AccountChange
    <3>1. active' \in [Person -> BOOLEAN] /\ roles' \in [Person -> SUBSET SeedRole]
          BY <2>4 DEF AccountChange, TypeOK, Person
    <3>2. UNCHANGED <<case, serving, dead>>
          BY <2>4 DEF AccountChange
    <3> QED BY <3>1, <3>2 DEF TypeOK, case, serving
  <2> QED BY <2>1, <2>2, <2>3, <2>4 DEF Next
<1> QED BY <1>1, InitTypeOK, PTL DEF Spec

-----------------------------------------------------------------------------
LEMMA InitPromises == Init => Promises
BY DEF Init, Promises, AccountPromise, AssigneePromise

LEMMA ReceivePromises ==
    ASSUME TypeOK, Promises, NEW r \in Request, NEW op \in Operation, NEW p \in Person,
           NEW x \in Parameters(op), Receive(r, op, p, x)
    PROVE  Promises'
<1> SUFFICES ASSUME NEW s \in Request PROVE AccountPromise(s)' /\ AssigneePromise(s)'
    BY DEF Promises
<1>1. UNCHANGED <<active, roles>>
      BY DEF Receive, accounts
<1>2. CASE s # r
      BY <1>1, <1>2, OthersKeepPromises DEF Receive, TypeOK, Promises
<1>3. CASE s = r
  <2>1. step'[r] = "received" /\ request'[r].op = op /\ request'[r].by = p /\ request'[r].to = x
        BY DEF Receive, TypeOK
  <2>2. /\ request'[r].entitled = (IsActiveStaff(p) /\ Required[op] \in Keys(p))
        /\ request'[r].fit = (op = "assign" => IsActiveStaff(x) /\ IsTechnician(x))
        BY DEF Receive, TypeOK
  <2>3. /\ IsActiveStaff(p)' = IsActiveStaff(p) /\ Keys(p)' = Keys(p)
        /\ IsActiveStaff(x)' = IsActiveStaff(x) /\ IsTechnician(x)' = IsTechnician(x)
        BY <1>1 DEF IsActiveStaff, IsTechnician, Keys
  <2>4. AccountPromise(r)'
        BY <2>1, <2>2, <2>3 DEF AccountPromise
  <2>5. AssigneePromise(r)'
        BY <2>1, <2>2, <2>3 DEF AssigneePromise
  <2> QED BY <1>3, <2>4, <2>5
<1> QED BY <1>2, <1>3

(* Only "assign" passes through the two checks of the assignee. *)
LEMMA RequestPromises ==
    ASSUME TypeOK, Promises, NEW r \in Request, Step(r) \/ Fail(r)
    PROVE  Promises'
<1>1. UNCHANGED <<active, roles>>
      BY DEF Step, Fail, CheckAccount, CheckPermission, RegenerateQr, RevokeQr, CheckAssignee,
             CheckAssigneeRole, AssignTechnician, AddNote, Consult, RecordAudit, Answer, accounts
<1>2. CASE End(r)
      BY <1>1, <1>2, EndKeepsPromises
<1> USE DEF Go, At, Handles, Stage
<1>3. CASE CheckAccount(r)
      BY <1>1, <1>2, <1>3, StepKeepsPromises DEF CheckAccount
<1>4. CASE CheckPermission(r)
      BY <1>1, <1>2, <1>4, StepKeepsPromises DEF CheckPermission
<1>5. CASE RegenerateQr(r)
      BY <1>1, <1>5, StepKeepsPromises DEF RegenerateQr
<1>6. CASE RevokeQr(r)
      BY <1>1, <1>6, StepKeepsPromises DEF RevokeQr
<1>7. CASE CheckAssignee(r)
      BY <1>1, <1>2, <1>7, StepKeepsPromises DEF CheckAssignee
<1>8. CASE CheckAssigneeRole(r)
      BY <1>1, <1>2, <1>8, StepKeepsPromises DEF CheckAssigneeRole
<1>9. CASE AssignTechnician(r)
      BY <1>1, <1>9, StepKeepsPromises DEF AssignTechnician
<1>10. CASE AddNote(r)
      BY <1>1, <1>10, StepKeepsPromises DEF AddNote, Noting
<1>11. CASE RecordAudit(r)
      BY <1>1, <1>11, StepKeepsPromises DEF RecordAudit
<1>12. CASE Consult(r) \/ Answer(r) \/ Fail(r)
      BY <1>2, <1>12 DEF Consult, Answer, Fail
<1> QED BY <1>3, <1>4, <1>5, <1>6, <1>7, <1>8, <1>9, <1>10, <1>11, <1>12 DEF Step

LEMMA PromisesNext == TypeOK /\ Promises /\ [Next]_vars => Promises'
<1> SUFFICES ASSUME TypeOK, Promises, [Next]_vars PROVE Promises'
    OBVIOUS
<1>1. ASSUME NEW r \in Request, NEW op \in Operation, NEW p \in Person,
             NEW x \in Parameters(op), Receive(r, op, p, x)
      PROVE  Promises'
      BY <1>1, ReceivePromises
<1>2. ASSUME NEW r \in Request, Step(r) \/ Fail(r) PROVE Promises'
      BY <1>2, RequestPromises
<1>3. CASE AccountChange
  <2>1. UNCHANGED <<step, request>>
        BY <1>3 DEF AccountChange, serving
  <2> QED BY <1>3, <2>1, AccountsLessen, PromisesSurvive
<1>4. CASE GetMine \/ ListClientMessages \/ UNCHANGED vars
  <2>1. UNCHANGED <<accounts, serving>>
        BY <1>4 DEF GetMine, ListClientMessages, vars
  <2>2. UNCHANGED <<active, roles, step, request>>
        BY <2>1 DEF accounts, serving
  <2> QED BY <2>2, OthersKeepPromises DEF Promises
<1> QED BY <1>1, <1>2, <1>3, <1>4 DEF Next

(* For any staff, roles and number of requests: what is written about a case *)
(* is written for an account that was active and permitted when its request  *)
(* arrived or later, and the technician in charge is fit for it.             *)
THEOREM WritesAreAllowed == Spec => []WritesWereAllowed
<1>1. Promises => WritesWereAllowed
      BY DEF Promises, AccountPromise, AssigneePromise, WritesWereAllowed
<1> QED BY <1>1, InitPromises, PromisesNext, TypeInvariant, PTL DEF Spec

-----------------------------------------------------------------------------
LEMMA DeadLabelsNext == TypeOK /\ DeadLabelsStayDead /\ [Next]_vars => DeadLabelsStayDead'
<1> SUFFICES ASSUME TypeOK, DeadLabelsStayDead, [Next]_vars PROVE DeadLabelsStayDead'
    OBVIOUS
<1> USE DEF DeadLabelsStayDead, Scans
<1>1. ASSUME NEW r \in Request, RegenerateQr(r) PROVE DeadLabelsStayDead'
  <2>1. label' = label + 1 /\ dead' = dead \cup {label}
        BY <1>1 DEF RegenerateQr, Bury
  <2> QED BY <2>1 DEF TypeOK
<1>2. ASSUME NEW r \in Request, RevokeQr(r) PROVE DeadLabelsStayDead'
      BY <1>2 DEF RevokeQr
<1>3. CASE UNCHANGED <<label, revoked, dead>>
      BY <1>3
<1>4. ASSUME NEW r \in Request, Step(r) \/ Fail(r),
             ~RegenerateQr(r), ~RevokeQr(r)
      PROVE  UNCHANGED <<label, revoked, dead>>
  <2>1. CASE CheckAccount(r) \/ CheckPermission(r) \/ CheckAssignee(r) \/ CheckAssigneeRole(r)
             \/ Consult(r) \/ RecordAudit(r) \/ Answer(r) \/ Fail(r)
    <3>1. UNCHANGED case /\ UNCHANGED dead
          BY <2>1 DEF CheckAccount, CheckPermission, CheckAssignee, CheckAssigneeRole, Consult,
             RecordAudit, Answer, Fail
    <3> QED BY <3>1 DEF case
  <2>2. CASE AssignTechnician(r) \/ AddNote(r)
        BY <2>2 DEF AssignTechnician, AddNote
  <2> QED BY <1>4, <2>1, <2>2 DEF Step
<1>5. ASSUME NEW r \in Request, NEW op \in Operation, NEW p \in Person,
             NEW x \in Parameters(op), Receive(r, op, p, x)
      PROVE  UNCHANGED <<label, revoked, dead>>
      BY <1>5 DEF Receive, case
<1>6. CASE GetMine \/ ListClientMessages \/ AccountChange \/ UNCHANGED vars
  <2>1. UNCHANGED case /\ UNCHANGED dead
        BY <1>6 DEF GetMine, ListClientMessages, AccountChange, vars
  <2> QED BY <1>3, <2>1 DEF case
<1> QED BY <1>1, <1>2, <1>3, <1>4, <1>5, <1>6 DEF Next

(* However many regenerations and revocations overlap, a label that has been *)
(* replaced or revoked never scans again.                                    *)
THEOREM DeadLabelsAreDead == Spec => []DeadLabelsStayDead
<1>1. Init => DeadLabelsStayDead
      BY DEF Init, DeadLabelsStayDead
<1> QED BY <1>1, DeadLabelsNext, TypeInvariant, PTL DEF Spec

-----------------------------------------------------------------------------
(* The seed *)

(* A row names rows of all its parents, and they are there. *)
Held(r, e) ==
    /\ r.under = [p \in ParentsOf[e] |-> r.under[p]]
    /\ \A p \in ParentsOf[e] : \E s \in rows[p] : s.id = r.under[p]

RowsHeld == \A e \in Entry : \A r \in rows[e] : Held(r, e)

(* Brands aside, what the running seed has come past, and what a seed that   *)
(* has ended well has left, is there.                                        *)
Planted(e) == e[1] = "brand" \/ rows[e] # {}
PastPlanted == /\ next \in Nat
               /\ \A i \in 1 .. Len(Program) : i < next => Planted(Program[i])
AllPlanted == seeded => \A e \in Entry : Planted(e)

SeedInv ==
    /\ rows = [e \in Entry |-> rows[e]]
    /\ \A d \in deleting : d[1] \in Brand
    /\ RowsHeld
    /\ PastPlanted
    /\ AllPlanted

(* A statement that has found nothing has still nothing to find: only brands *)
(* are changed by others.                                                    *)
StillAbsent == absent => Running /\ Current[1] \in FoundOrCreated /\ Matching = {}
Single == ~resluged => \A e \in Entry : \A r, s \in rows[e] : r = s /\ r.sameSlug

DoublesInv == SeedInv /\ StillAbsent /\ Single

-----------------------------------------------------------------------------
LEMMA BrandsOwned == \A b \in Entry : b[1] = "brand" => ParentsOf[b] = {}
  BY DEF ParentsOf, Owner, Other

LEMMA CurrentListed == Running => Current \in Entry
  BY DEF Running, Current, Entry

(* The rows of a step are held when each is new and held, or stands for one  *)
(* that was, and a row that goes is the parent of none.                      *)
LEMMA HeldStays ==
    ASSUME RowsHeld,
           \A e \in Entry : \A r \in rows'[e] :
              Held(r, e)' \/ \E q \in rows[e] : q.under = r.under,
           \A p \in Entry : \A s \in rows[p] :
              \/ \E t \in rows'[p] : t.id = s.id
              \/ \A e \in Entry : \A q \in rows[e] : p \in ParentsOf[e] => q.under[p] # s.id
    PROVE  RowsHeld'
<1> SUFFICES ASSUME NEW e \in Entry, NEW r \in rows'[e], NEW q \in rows[e], q.under = r.under
             PROVE  Held(r, e)'
    BY DEF RowsHeld
<1>1. Held(q, e)
    BY DEF RowsHeld
<1>2. ASSUME NEW p \in ParentsOf[e] PROVE \E t \in rows'[p] : t.id = r.under[p]
  <2>1. p \in Entry
      BY DEF ParentsOf
  <2>2. PICK s \in rows[p] : s.id = q.under[p]
      BY <1>1 DEF Held
  <2> QED BY <2>1, <2>2
<1> QED BY <1>1, <1>2 DEF Held

(* A statement of the seed that inserts adds one row, below those it names.  *)
LEMMA InsertHeld ==
    ASSUME SeedInv, Running, Insert
    PROVE  /\ rows' = [e \in Entry |-> rows'[e]]
           /\ RowsHeld'
           /\ \A e \in Entry : rows[e] # {} => rows'[e] # {}
           /\ rows'[Current] # {}
<1>1. Current \in Entry /\ rows = [e \in Entry |-> rows[e]] /\ RowsHeld
    BY CurrentListed DEF SeedInv
<1>2. PICK c \in Entry : c = Current
    BY <1>1
<1>3. PICK new : new = NewRow(Current, Given)
    OBVIOUS
<1>4. rows' = [rows EXCEPT ![c] = @ \cup {new}]
    BY <1>2, <1>3 DEF Insert
<1>5. /\ rows' = [e \in Entry |-> rows'[e]]
      /\ \A e \in Entry : rows[e] \subseteq rows'[e] /\ rows'[e] \subseteq rows[e] \cup {new}
      /\ \A e \in Entry : e # c => rows'[e] = rows[e]
      /\ new \in rows'[c]
    BY <1>1, <1>4
<1>6. Held(new, c)'
  <2>1. new.under = Given /\ Given = [p \in ParentsOf[c] |-> Given[p]]
      BY <1>2, <1>3 DEF NewRow, Given
  <2>2. \A p \in ParentsOf[c] : p \in Entry /\ \E s \in rows[p] : s.id = Given[p]
      BY <1>2 DEF Insert, ParentsOf
  <2>3. \A p \in ParentsOf[c] : \E s \in rows'[p] : s.id = new.under[p]
      BY <1>5, <2>1, <2>2
  <2> QED BY <2>1, <2>3 DEF Held
<1>7. RowsHeld'
  <2>1. \A e \in Entry : \A r \in rows'[e] : Held(r, e)' \/ \E q \in rows[e] : q.under = r.under
      BY <1>5, <1>6
  <2>2. \A p \in Entry : \A s \in rows[p] : \E t \in rows'[p] : t.id = s.id
      BY <1>5
  <2> QED BY <1>1, <2>1, <2>2, HeldStays
<1> QED BY <1>2, <1>5, <1>7

(* What the staff does to a brand leaves every row held, and all other tables *)
(* as they are.                                                              *)
LEMMA StaffHeld ==
    ASSUME SeedInv, NEW b \in Brand,
           \/ CreateBrand(b)
           \/ \E r \in rows[b] : UpdateBrand(b, r)
           \/ \E id : DeleteBrand(b, id)
    PROVE  /\ rows' = [e \in Entry |-> rows'[e]]
           /\ RowsHeld'
           /\ \A e \in Entry : e[1] # "brand" => rows'[e] = rows[e]
<1>1. b \in Entry /\ b[1] = "brand" /\ ParentsOf[b] = {}
    BY BrandsOwned DEF Brand
<1>2. rows = [e \in Entry |-> rows[e]] /\ RowsHeld
    BY DEF SeedInv
<1>3. CASE CreateBrand(b)
  <2>1. PICK new : new = NewRow(b, <<>>)
      OBVIOUS
  <2>2. rows' = [rows EXCEPT ![b] = @ \cup {new}]
      BY <1>3, <2>1 DEF CreateBrand
  <2>3. /\ rows' = [e \in Entry |-> rows'[e]]
        /\ \A e \in Entry : rows[e] \subseteq rows'[e] /\ rows'[e] \subseteq rows[e] \cup {new}
        /\ \A e \in Entry : e # b => rows'[e] = rows[e]
      BY <1>1, <1>2, <2>2
  <2>4. new.under = <<>>
      BY <2>1 DEF NewRow
  <2>5. <<>> = [p \in {} |-> <<>>[p]]
      OBVIOUS
  <2>6. Held(new, b)'
      BY <1>1, <2>4, <2>5 DEF Held
  <2>7. \A e \in Entry : \A r \in rows'[e] : Held(r, e)' \/ \E q \in rows[e] : q.under = r.under
      BY <2>3, <2>6
  <2>8. \A p \in Entry : \A s \in rows[p] : \E t \in rows'[p] : t.id = s.id
      BY <2>3
  <2>9. RowsHeld'
      BY <1>2, <2>7, <2>8, HeldStays
  <2> QED BY <1>1, <2>3, <2>9
<1>4. ASSUME NEW r \in rows[b], UpdateBrand(b, r)
      PROVE  rows' = [e \in Entry |-> rows'[e]] /\ RowsHeld' /\ \A e \in Entry : e[1] # "brand" => rows'[e] = rows[e]
  <2>1. PICK new : new = [r EXCEPT !.sameSlug = ~@]
      OBVIOUS
  <2>2. rows' = [rows EXCEPT ![b] = (@ \ {r}) \cup {new}]
      BY <1>4, <2>1 DEF UpdateBrand
  <2>3. /\ rows' = [e \in Entry |-> rows'[e]]
        /\ rows'[b] = (rows[b] \ {r}) \cup {new}
        /\ \A e \in Entry : e # b => rows'[e] = rows[e]
      BY <1>1, <1>2, <2>2
  <2>4. new.id = r.id /\ new.under = r.under
      BY <2>1
  <2>5. \A e \in Entry : \A x \in rows'[e] : \E q \in rows[e] : q.under = x.under
      BY <1>4, <2>3, <2>4
  <2>6. \A p \in Entry : \A s \in rows[p] : \E t \in rows'[p] : t.id = s.id
      BY <2>3, <2>4
  <2>7. RowsHeld'
      BY <1>2, <2>5, <2>6, HeldStays
  <2> QED BY <1>1, <2>3, <2>7
<1>5. ASSUME NEW id, DeleteBrand(b, id)
      PROVE  rows' = [e \in Entry |-> rows'[e]] /\ RowsHeld' /\ \A e \in Entry : e[1] # "brand" => rows'[e] = rows[e]
  <2>1. CASE Families(b, id) = {}
    <3>1. rows' = [rows EXCEPT ![b] = {r \in @ : r.id # id}]
        BY <1>5, <2>1 DEF DeleteBrand
    <3>2. /\ rows' = [e \in Entry |-> rows'[e]]
          /\ rows'[b] = {r \in rows[b] : r.id # id}
          /\ \A e \in Entry : e # b => rows'[e] = rows[e]
        BY <1>1, <1>2, <3>1
    <3>3. \A e \in Entry : \A r \in rows'[e] : \E q \in rows[e] : q.under = r.under
        BY <3>2
    <3>4. \A e \in Entry : \A q \in rows[e] : b \in ParentsOf[e] => q.under[b] # id
        BY <2>1 DEF Families
    <3>5. \A p \in Entry : \A s \in rows[p] :
             \/ \E t \in rows'[p] : t.id = s.id
             \/ \A e \in Entry : \A q \in rows[e] : p \in ParentsOf[e] => q.under[p] # s.id
        BY <3>2, <3>4
    <3>6. RowsHeld'
        BY <1>2, <3>3, <3>5, HeldStays
    <3> QED BY <1>1, <3>2, <3>6
  <2>2. CASE Families(b, id) # {}
    <3>1. rows' = rows
        BY <1>5, <2>2 DEF DeleteBrand
    <3> QED BY <1>2, <3>1 DEF RowsHeld, Held
  <2> QED BY <2>1, <2>2
<1> QED BY <1>3, <1>4, <1>5
-----------------------------------------------------------------------------
LEMMA SeedInvInit == SeedInit => DoublesInv
  BY ProgramAssumption DEF SeedInit, DoublesInv, SeedInv, RowsHeld, PastPlanted, AllPlanted, StillAbsent, Single

(* A statement of the seed comes past its entry once its row is there.       *)
LEMMA ReturnPasses ==
    ASSUME SeedInv, Running, NEW id, Return(id),
           \A e \in Entry : rows[e] # {} => rows'[e] # {},
           rows'[Current] # {}
    PROVE  PastPlanted'
<1>1. next \in 1 .. Len(Program) /\ next' = next + 1 /\ DOMAIN Program = 1 .. Len(Program)
    BY ProgramAssumption DEF Running, Return
<1>2. next \in Nat /\ \A i \in 1 .. Len(Program) : i < next => Planted(Program[i])
    BY DEF SeedInv, PastPlanted
<1>3. ASSUME NEW i \in 1 .. Len(Program), i < next'
      PROVE  Planted(Program[i])'
  <2>1. Program[i] \in Entry
      BY <1>1 DEF Entry
  <2>2. CASE i = next
      BY <2>2 DEF Planted, Current
  <2>3. CASE i # next
    <3>1. i < next
        BY <1>1, <1>2, <1>3, <2>3
    <3> QED BY <1>2, <2>1, <3>1 DEF Planted
  <2> QED BY <2>2, <2>3
<1> QED BY <1>1, <1>2, <1>3 DEF PastPlanted

(* Whatever the step: the rows stay held, and a table of the seed is never   *)
(* emptied.                                                                  *)
LEMMA SeedInvNext == SeedInv /\ [SeedNext]_seedVars => SeedInv'
<1> SUFFICES ASSUME SeedInv, [SeedNext]_seedVars PROVE SeedInv'
    OBVIOUS
<1> USE DEF SeedInv
<1>1. ASSUME UNCHANGED <<rows, deleting>>, PastPlanted', AllPlanted' PROVE SeedInv'
    BY <1>1 DEF RowsHeld, Held
<1>2. ASSUME Running, Insert, UNCHANGED <<seeded, deleting>> PROVE SeedInv'
  <2>1. /\ rows' = [e \in Entry |-> rows'[e]] /\ RowsHeld'
        /\ \A e \in Entry : rows[e] # {} => rows'[e] # {}
        /\ rows'[Current] # {}
      BY <1>2, InsertHeld
  <2>2. PICK id : Return(id)
      BY <1>2 DEF Insert
  <2>3. PastPlanted'
      BY <1>2, <2>1, <2>2, ReturnPasses
  <2>4. AllPlanted'
      BY <1>2, <2>1 DEF AllPlanted, Planted
  <2> QED BY <1>2, <2>1, <2>3, <2>4
<1>3. ASSUME Running, NEW r \in Matching, Return(r.id), UNCHANGED <<rows, seeded, deleting>>
      PROVE  SeedInv'
  <2>1. rows'[Current] # {} /\ \A e \in Entry : rows[e] # {} => rows'[e] # {}
      BY <1>3 DEF Matching
  <2>2. PastPlanted'
      BY <1>3, <2>1, ReturnPasses
  <2>3. AllPlanted'
      BY <1>3 DEF AllPlanted, Planted
  <2> QED BY <1>1, <1>3, <2>2, <2>3
<1>4. ASSUME NEW b \in Brand, UNCHANGED <<next, seeded>>, \A d \in deleting' : d[1] \in Brand,
             \/ CreateBrand(b)
             \/ \E r \in rows[b] : UpdateBrand(b, r)
             \/ \E id : DeleteBrand(b, id)
      PROVE  SeedInv'
  <2>1. /\ rows' = [e \in Entry |-> rows'[e]] /\ RowsHeld'
        /\ \A e \in Entry : e[1] # "brand" => rows'[e] = rows[e]
      BY <1>4, StaffHeld
  <2>2. \A i \in 1 .. Len(Program) : Program[i] \in Entry
      BY ProgramAssumption
  <2>3. PastPlanted' /\ AllPlanted'
      BY <1>4, <2>1, <2>2 DEF PastPlanted, AllPlanted, Planted
  <2> QED BY <1>4, <2>1, <2>3
<1>5. CASE StartSeed
  <2>1. PastPlanted' /\ AllPlanted'
      BY <1>5 DEF StartSeed, PastPlanted, AllPlanted, Planted
  <2> QED BY <1>1, <1>5, <2>1 DEF StartSeed
<1>6. CASE Upsert
  <2>1. CASE \E r \in Matching : Return(r.id) /\ UNCHANGED rows
      BY <1>3, <1>6, <2>1 DEF Upsert
  <2>2. CASE Insert
      BY <1>2, <1>6, <2>2 DEF Upsert
  <2> QED BY <1>6, <2>1, <2>2 DEF Upsert
<1>7. CASE Find
  <2>1. CASE \E r \in Matching : Return(r.id)
      BY <1>3, <1>7, <2>1 DEF Find
  <2>2. CASE UNCHANGED next
    <3>1. PastPlanted' /\ AllPlanted'
        BY <1>7, <2>2 DEF Find, PastPlanted, AllPlanted, Planted
    <3> QED BY <1>1, <1>7, <3>1 DEF Find
  <2> QED BY <1>7, <2>1, <2>2 DEF Find
<1>8. CASE Create
    BY <1>2, <1>8 DEF Create
<1>9. CASE Finish
  <2>1. AllPlanted'
    <3>1. \A i \in 1 .. Len(Program) : i < next
        BY <1>9, ProgramAssumption DEF Finish
    <3>2. ASSUME NEW e \in Entry PROVE Planted(e)
      <4>1. PICK i \in 1 .. Len(Program) : e = Program[i]
          BY ProgramAssumption DEF Entry
      <4> QED BY <3>1, <4>1 DEF PastPlanted
    <3> QED BY <1>9, <3>2 DEF Finish, AllPlanted, Planted
  <2>2. PastPlanted'
      BY <1>9, ProgramAssumption DEF Finish, PastPlanted
  <2> QED BY <1>1, <1>9, <2>1, <2>2 DEF Finish
<1>10. CASE SeedFails
  <2>1. PastPlanted' /\ AllPlanted'
      BY <1>10, ProgramAssumption DEF SeedFails, PastPlanted, AllPlanted, Planted
  <2> QED BY <1>1, <1>10, <2>1 DEF SeedFails
<1>11. ASSUME NEW b \in Brand, CreateBrand(b) PROVE SeedInv'
    BY <1>4, <1>11 DEF CreateBrand
<1>12. ASSUME NEW b \in Brand, NEW r \in rows[b], UpdateBrand(b, r) PROVE SeedInv'
    BY <1>4, <1>12 DEF UpdateBrand
<1>13. ASSUME NEW b \in Brand, NEW r \in rows[b], CountFamilies(b, r) PROVE SeedInv'
  <2>1. PastPlanted' /\ AllPlanted'
      BY <1>13 DEF CountFamilies, PastPlanted, AllPlanted, Planted
  <2>2. \A d \in deleting' : d[1] \in Brand
      BY <1>13 DEF CountFamilies
  <2> QED BY <1>13, <2>1, <2>2 DEF CountFamilies, RowsHeld, Held
<1>14. ASSUME NEW d \in deleting, DeleteBrand(d[1], d[2]) PROVE SeedInv'
  <2>1. d[1] \in Brand /\ \A c \in deleting' : c[1] \in Brand
      BY <1>14 DEF DeleteBrand
  <2> QED BY <1>4, <1>14, <2>1 DEF DeleteBrand
<1>15. CASE UNCHANGED seedVars
  <2>1. PastPlanted' /\ AllPlanted'
      BY <1>15 DEF seedVars, PastPlanted, AllPlanted, Planted
  <2> QED BY <1>1, <1>15, <2>1 DEF seedVars
<1> QED BY <1>5, <1>6, <1>7, <1>8, <1>9, <1>10, <1>11, <1>12, <1>13, <1>14, <1>15 DEF SeedNext
-----------------------------------------------------------------------------
(* While there are no doubles, a statement that finds no row to match finds  *)
(* no row at all: the one row under the only parents there are would match.  *)
LEMMA UnmatchedIsEmpty ==
    ASSUME SeedInv, Single, ~resluged, Running, Matching = {},
           \A p \in ParentsOf[Current] : \E r \in rows[p] : r.id = Given[p]
    PROVE  rows[Current] = {}
<1> SUFFICES ASSUME NEW r \in rows[Current] PROVE FALSE
    OBVIOUS
<1>1. Current \in Entry
    BY CurrentListed
<1>2. r.sameSlug
    BY <1>1 DEF Single
<1>3. Held(r, Current)
    BY <1>1 DEF SeedInv, RowsHeld
<1>4. ASSUME NEW p \in ParentsOf[Current] PROVE r.under[p] = Given[p]
  <2>1. p \in Entry
      BY <1>1 DEF ParentsOf
  <2>2. PICK s \in rows[p] : s.id = r.under[p]
      BY <1>3 DEF Held
  <2>3. PICK q \in rows[p] : q.id = Given[p]
      OBVIOUS
  <2>4. s = q
      BY <2>1 DEF Single
  <2> QED BY <2>2, <2>3, <2>4
<1>5. r.under = Given
  <2>1. r.under = [p \in ParentsOf[Current] |-> r.under[p]] /\ Given = [p \in ParentsOf[Current] |-> Given[p]]
      BY <1>3 DEF Held, Given
  <2> QED BY <1>4, <2>1
<1> QED BY <1>2, <1>5 DEF Matching

(* The upsert and the create of an entry that has a row insert nothing.      *)
LEMMA InsertsFirst ==
    ASSUME DoublesInv, Running, Insert, UNCHANGED resluged,
           Matching = {}
    PROVE  Single'
<1> SUFFICES ASSUME ~resluged, NEW e \in Entry, NEW r \in rows'[e], NEW s \in rows'[e]
             PROVE  r = s /\ r.sameSlug
    BY DEF Single
<1>1. Current \in Entry /\ rows = [x \in Entry |-> rows[x]]
    BY CurrentListed DEF DoublesInv, SeedInv
<1>2. PICK new : new = NewRow(Current, Given)
    OBVIOUS
<1>3. rows' = [rows EXCEPT ![Current] = @ \cup {new}] /\ new.sameSlug
    BY <1>2 DEF Insert, NewRow
<1>4. rows[Current] = {}
    BY UnmatchedIsEmpty DEF DoublesInv, Insert
<1>5. CASE e = Current
    BY <1>1, <1>3, <1>4, <1>5
<1>6. CASE e # Current
    BY <1>1, <1>3, <1>6 DEF DoublesInv, Single
<1> QED BY <1>5, <1>6

LEMMA DoublesInvNext == DoublesInv /\ [SeedNext]_seedVars => DoublesInv'
<1> SUFFICES ASSUME DoublesInv, [SeedNext]_seedVars PROVE StillAbsent' /\ Single'
    BY SeedInvNext DEF DoublesInv
<1>0. SeedInv /\ StillAbsent /\ Single /\ rows = [x \in Entry |-> rows[x]]
    BY DEF DoublesInv, SeedInv
<1>1. ASSUME UNCHANGED <<rows, resluged>> PROVE Single'
    BY <1>0, <1>1 DEF Single
<1>2. CASE StartSeed
    BY <1>0, <1>1, <1>2, ProgramAssumption DEF StartSeed, StillAbsent, Running
<1>3. CASE Upsert
  <2>1. Single'
    <3>1. CASE UNCHANGED rows
        BY <1>1, <1>3, <3>1 DEF Upsert
    <3>2. CASE Matching = {} /\ Insert
        BY <1>3, <3>2, InsertsFirst DEF Upsert
    <3> QED BY <1>3, <3>1, <3>2 DEF Upsert
  <2>2. ~absent'
      BY <1>3 DEF Upsert, Insert, Return
  <2> QED BY <2>1, <2>2 DEF StillAbsent
<1>4. CASE Find
  <2>1. StillAbsent'
    <3>1. CASE absent'
      <4>1. Matching = {} /\ UNCHANGED <<next, ids, rows>> /\ Running /\ Current[1] \in FoundOrCreated
          BY <1>4, <3>1 DEF Find, Return
      <4> QED BY <4>1 DEF StillAbsent, Running, Current, Matching, Given
    <3>2. CASE ~absent'
        BY <3>2 DEF StillAbsent
    <3> QED BY <3>1, <3>2
  <2> QED BY <1>1, <1>4, <2>1 DEF Find
<1>5. CASE Create
  <2>1. Single'
      BY <1>0, <1>5, InsertsFirst DEF Create, StillAbsent
  <2>2. ~absent'
      BY <1>5 DEF Create, Insert, Return
  <2> QED BY <2>1, <2>2 DEF StillAbsent
<1>6. CASE Finish
  <2>1. ~absent'
    <3>1. ~Running
        BY <1>6, ProgramAssumption DEF Finish, Running
    <3> QED BY <1>0, <1>6, <3>1 DEF Finish, StillAbsent
  <2> QED BY <1>1, <1>6, <2>1 DEF Finish, StillAbsent
<1>7. CASE SeedFails
    BY <1>1, <1>7 DEF SeedFails, StillAbsent
<1>8. ASSUME UNCHANGED <<next, ids, absent>>, \A e \in Entry : e[1] # "brand" => rows'[e] = rows[e]
      PROVE  StillAbsent'
  <2> SUFFICES ASSUME absent PROVE Running' /\ Current[1]' \in FoundOrCreated /\ Matching' = {}
      BY <1>8 DEF StillAbsent
  <2>1. Running /\ Current[1] \in FoundOrCreated /\ Matching = {}
      BY <1>0 DEF StillAbsent
  <2>2. Current' = Current /\ Given' = Given /\ Running'
      BY <1>8, <2>1 DEF Current, Given, Running
  <2>3. rows'[Current] = rows[Current]
      BY <1>8, <2>1, CurrentListed DEF FoundOrCreated
  <2> QED BY <2>1, <2>2, <2>3 DEF Matching
<1>9. ASSUME NEW b \in Brand, CreateBrand(b) PROVE StillAbsent' /\ Single'
  <2>1. StillAbsent'
      BY <1>0, <1>8, <1>9, StaffHeld DEF CreateBrand
  <2>2. PICK new : new = NewRow(b, <<>>)
      OBVIOUS
  <2>3. rows' = [rows EXCEPT ![b] = @ \cup {new}] /\ new.sameSlug /\ UNCHANGED resluged
      BY <1>9, <2>2 DEF CreateBrand, NewRow
  <2>4. ~resluged => rows[b] = {}
      BY <1>0, <1>9 DEF CreateBrand, SlugTaken, Single, Brand
  <2>5. Single'
      BY <1>0, <2>3, <2>4 DEF Single
  <2> QED BY <2>1, <2>5
<1>10. ASSUME NEW b \in Brand, NEW r \in rows[b], UpdateBrand(b, r) PROVE StillAbsent' /\ Single'
  <2>1. StillAbsent'
      BY <1>0, <1>8, <1>10, StaffHeld DEF UpdateBrand
  <2> QED BY <1>10, <2>1 DEF UpdateBrand, Single
<1>11. ASSUME NEW b \in Brand, NEW r \in rows[b], CountFamilies(b, r) PROVE StillAbsent' /\ Single'
    BY <1>1, <1>8, <1>11 DEF CountFamilies
<1>12. ASSUME NEW d \in deleting, DeleteBrand(d[1], d[2]) PROVE StillAbsent' /\ Single'
  <2>1. d[1] \in Brand
      BY <1>0 DEF SeedInv
  <2>2. StillAbsent'
      BY <1>0, <1>8, <1>12, <2>1, StaffHeld DEF DeleteBrand
  <2>3. \A e \in Entry : rows'[e] \subseteq rows[e]
      BY <1>0, <1>12, <2>1 DEF DeleteBrand, Brand
  <2>4. Single'
      BY <1>0, <1>12, <2>3 DEF DeleteBrand, Single
  <2> QED BY <2>2, <2>4
<1>13. CASE UNCHANGED seedVars
    BY <1>1, <1>8, <1>13 DEF seedVars
<1> QED BY <1>2, <1>3, <1>4, <1>5, <1>6, <1>7, <1>9, <1>10, <1>11, <1>12, <1>13 DEF SeedNext

LEMMA SeedSound == SeedSpec => []DoublesInv
  BY SeedInvInit, DoublesInvNext, PTL DEF SeedSpec

(* However often the seed is run and fails, and whatever the staff does to   *)
(* the brands but give them another slug, an entry has one row at most       *)
(* (header of prisma/seed/catalog-demo.ts).                                  *)
THEOREM SeedDoublesNothing == SeedSpec => []NoDoubles
<1>1. DoublesInv => NoDoubles
  <2> SUFFICES ASSUME DoublesInv, ~resluged, NEW e \in Entry PROVE Cardinality(rows[e]) <= 1
      BY DEF NoDoubles
  <2>1. CASE rows[e] = {}
      BY <2>1, FS_EmptySet
  <2>2. ASSUME NEW r \in rows[e] PROVE Cardinality(rows[e]) <= 1
    <3>1. rows[e] = {r}
        BY <2>2 DEF DoublesInv, Single
    <3>2. Cardinality({r}) = 1
        BY FS_Singleton
    <3> QED BY <3>1, <3>2
  <2> QED BY <2>1, <2>2
<1> QED BY <1>1, SeedSound, PTL

(* Once a run has ended well every entry has a row under rows of its parents *)
(* and nothing the staff may do takes it away again.                         *)
THEOREM SeedStaysWhole == SeedSpec => []DoneIsWhole
<1>1. DoublesInv => DoneIsWhole
  <2> SUFFICES ASSUME SeedInv, seeded, NEW e \in Entry
               PROVE  \E r \in rows[e] : \A p \in ParentsOf[e] : \E s \in rows[p] : s.id = r.under[p]
      BY DEF DoublesInv, DoneIsWhole
  <2>1. rows[e] # {}
    <3>1. CASE e[1] # "brand"
        BY <3>1 DEF SeedInv, AllPlanted, Planted
    <3>2. CASE e[1] = "brand"
      <4>1. PICK f \in Entry : e \in ParentsOf[f]
          BY <3>2, ProgramAssumption
      <4>2. f[1] # "brand"
          BY <4>1, BrandsOwned
      <4>3. PICK r \in rows[f] : Held(r, f)
          BY <4>2 DEF SeedInv, AllPlanted, Planted, RowsHeld
      <4> QED BY <4>1, <4>3 DEF Held
    <3> QED BY <3>1, <3>2
  <2>2. PICK r \in rows[e] : Held(r, e)
      BY <2>1 DEF SeedInv, RowsHeld
  <2> QED BY <2>2 DEF Held
<1> QED BY <1>1, SeedSound, PTL
-----------------------------------------------------------------------------
(* The statuses a device comes to without quality tests by the whole matrix. *)
Unready ==
    {"ORDER_CREATED", "AWAITING_SHIPMENT", "CANCELLED", "RECEIVED", "CLIENT_UNREACHABLE",
     "DIAGNOSING", "UNREPAIRABLE", "AWAITING_CLIENT_VALIDATION", "QUOTE_REFUSED",
     "IN_REPAIR", "AWAITING_PART", "QUALITY_CHECK", "WARRANTY_RETURN"}

LEMMA UnreadyClosed ==
    ASSUME NEW t \in SeedTransition, t[1] \in Unready, t[1] # "QUALITY_CHECK"
    PROVE  t[2] \in Unready
<1>1. CASE t \in ProtectedTransition
    BY <1>1 DEF ProtectedTransition, Unready
<1>2. CASE t \in OtherTransition
    BY <1>2 DEF OtherTransition, Unready
<1> QED BY <1>1, <1>2 DEF SeedTransition

LEMMA FourFinite == \A a, b, c, d : IsFiniteSet({a, b, c, d})
<1> SUFFICES ASSUME NEW a, NEW b, NEW c, NEW d PROVE IsFiniteSet({a, b, c, d})
    OBVIOUS
<1>1. IsFiniteSet({a}) /\ IsFiniteSet({b}) /\ IsFiniteSet({c}) /\ IsFiniteSet({d})
    BY FS_Singleton
<1>2. IsFiniteSet({a} \cup {b}) /\ IsFiniteSet({c} \cup {d})
    BY <1>1, FS_Union
<1>3. IsFiniteSet(({a} \cup {b}) \cup ({c} \cup {d}))
    BY <1>2, FS_Union
<1>4. ({a} \cup {b}) \cup ({c} \cup {d}) = {a, b, c, d}
    OBVIOUS
<1> QED BY <1>3, <1>4

LEMMA StatusesCounted == Cardinality(SeedStatus) \in Nat
<1> DEFINE A == {"ORDER_CREATED", "AWAITING_SHIPMENT", "RECEIVED", "DIAGNOSING"}
           B == {"AWAITING_CLIENT_VALIDATION", "AWAITING_PART", "IN_REPAIR", "QUALITY_CHECK"}
           C == {"REPAIR_DONE", "PREPARING_RETURN", "SHIPPED", "DELIVERED"}
           D == {"CLIENT_UNREACHABLE", "WARRANTY_RETURN", "WARRANTY_RETURN", "WARRANTY_RETURN"}
<1>1. IsFiniteSet(SeedTerminal)
    BY FourFinite DEF SeedTerminal
<1>2. IsFiniteSet(A) /\ IsFiniteSet(B) /\ IsFiniteSet(C) /\ IsFiniteSet(D)
    BY FourFinite
<1>3. SeedStatus = SeedTerminal \cup ((A \cup B) \cup (C \cup D))
    BY DEF SeedStatus
<1> HIDE DEF A, B, C, D
<1>4. IsFiniteSet(A \cup B) /\ IsFiniteSet(C \cup D)
    BY <1>2, FS_Union
<1>5. IsFiniteSet((A \cup B) \cup (C \cup D))
    BY <1>4, FS_Union
<1>6. IsFiniteSet(SeedTerminal \cup ((A \cup B) \cup (C \cup D)))
    BY <1>1, <1>5, FS_Union
<1> QED BY <1>3, <1>6, FS_CardinalityType

(* What is so for 0 and for a successor is so up to any n: the least number  *)
(* that it is not so for would be a successor.                               *)
LEMMA UpTo ==
    ASSUME NEW n \in Nat, NEW S \in SUBSET (0 .. n), 0 \in S,
           \A i \in 0 .. n : i > 0 /\ i - 1 \in S => i \in S
    PROVE  S = 0 .. n
<1> DEFINE R == {ss \in Nat \X Nat : ss[1] < ss[2]}
           T == (0 .. n) \ S
<1> SUFFICES ASSUME T # {} PROVE FALSE
    OBVIOUS
<1>1. IsWellFoundedOn(R, Nat)
    BY NatLessThanWellFounded DEF OpToRel
<1>2. T \subseteq Nat
    OBVIOUS
<1>3. PICK m \in T : \A k \in T : ~(<<k, m>> \in R)
  <2> HIDE DEF R, T
  <2> QED BY <1>1, <1>2, WFMin
<1>4. m \in Nat /\ m > 0 /\ m - 1 \in 0 .. n /\ <<m - 1, m>> \in R
    OBVIOUS
<1>5. m - 1 \in S
    BY <1>3, <1>4
<1> QED BY <1>4, <1>5

(* The results of the first n rounds of a computation.                       *)
Rounds(f, n, S, first, round) ==
    f \in [0 .. n -> S] /\ f[0] = first /\ \A i \in 1 .. n : f[i] = round[f[i - 1]]

LEMMA RoundsExist ==
    ASSUME NEW n \in Nat, NEW S, NEW first \in S, NEW round \in [S -> S]
    PROVE  \E f : Rounds(f, n, S, first, round)
<1> DEFINE D == {m \in 0 .. n : \E f : Rounds(f, m, S, first, round)}
<1>1. 0 \in D
  <2>1. PICK f : f = [i \in 0 .. 0 |-> first]
      OBVIOUS
  <2>2. f \in [0 .. 0 -> S] /\ f[0] = first /\ 0 \in 0 .. n
      BY <2>1
  <2>3. \A i \in 1 .. 0 : FALSE
      OBVIOUS
  <2> QED BY <2>2, <2>3 DEF Rounds
<1>2. ASSUME NEW m \in 0 .. n, m > 0, m - 1 \in D PROVE m \in D
  <2>1. PICK g \in [0 .. m - 1 -> S] : g[0] = first /\ \A i \in 1 .. m - 1 : g[i] = round[g[i - 1]]
      BY <1>2 DEF Rounds
  <2>2. PICK f : f = [i \in 0 .. m |-> IF i = m THEN round[g[m - 1]] ELSE g[i]]
      OBVIOUS
  <2>3. f \in [0 .. m -> S]
      BY <1>2, <2>1, <2>2
  <2>4. f[0] = first
      BY <1>2, <2>1, <2>2
  <2>5. ASSUME NEW i \in 1 .. m PROVE f[i] = round[f[i - 1]]
    <3>1. f[i - 1] = g[i - 1]
        BY <1>2, <2>2
    <3>2. CASE i = m
        BY <1>2, <2>2, <3>1, <3>2
    <3>3. CASE i # m
      <4>1. i \in 1 .. m - 1 /\ f[i] = g[i]
          BY <1>2, <2>2, <3>3
      <4> QED BY <2>1, <3>1, <4>1
    <3> QED BY <3>2, <3>3
  <2> QED BY <2>3, <2>4, <2>5 DEF Rounds
<1>3. D = 0 .. n
  <2> HIDE DEF D
  <2>1. D \in SUBSET (0 .. n)
      BY DEF D
  <2> QED BY <1>1, <1>2, <2>1, UpTo
<1>4. n \in D
    BY <1>3
<1> QED BY <1>4

(* With the matrix as far as it is seeded, however many changes of status    *)
(* are made, a device is shipped only after the quality tests, and after a   *)
(* warranty return after new ones (prisma/seed/repair-statuses.ts).          *)
THEOREM TestsComeFirst == SeedSpec => []TestedBeforeReturn
<1> DEFINE N == Cardinality(SeedStatus)
           first == {"ORDER_CREATED", "WARRANTY_RETURN"}
           Past(T) == LET before == T \ {"QUALITY_CHECK"}
                      IN  before \cup {t[2] : t \in {u \in Matrix : u[1] \in before}}
           round == [T \in SUBSET Unready |-> Past(T)]
<1>1. TestedBeforeReturn
  <2>1. N \in Nat
      BY StatusesCounted
  <2>2. first \in SUBSET Unready
      BY DEF Unready
  <2>3. round \in [SUBSET Unready -> SUBSET Unready]
    <3> SUFFICES ASSUME NEW T \in SUBSET Unready PROVE Past(T) \in SUBSET Unready
        OBVIOUS
    <3>1. \A t \in Matrix : t[1] \in T \ {"QUALITY_CHECK"} => t[2] \in Unready
        BY UnreadyClosed DEF Matrix
    <3> QED BY <3>1
  <2>4. PICK f \in [0 .. N -> SUBSET Unready] :
            f[0] = first /\ \A i \in 1 .. N : f[i] = round[f[i - 1]]
    <3> HIDE DEF N, first, round
    <3>1. \E g : Rounds(g, N, SUBSET Unready, first, round)
        BY <2>1, <2>2, <2>3, RoundsExist
    <3> QED BY <3>1 DEF Rounds
  <2>5. f = [n \in 0 .. N |-> IF n = 0 THEN first ELSE Past(f[n - 1])]
    <3>1. \A i \in 1 .. N : f[i] = Past(f[i - 1])
      <4> HIDE DEF N, first, Past
      <4>1. \A i \in 1 .. N : i - 1 \in 0 .. N
          BY <2>1
      <4> QED BY <2>4, <4>1
    <3> HIDE DEF N, first, Past
    <3>2. \A i \in 0 .. N : f[i] = IF i = 0 THEN first ELSE Past(f[i - 1])
        BY <2>1, <2>4, <3>1
    <3> QED BY <2>4, <3>2
  <2>6. Untested = [n \in 0 .. N |-> IF n = 0 THEN first ELSE Past(Untested[n - 1])]
      BY <2>5 DEF Untested
  <2>7. \A i \in 0 .. N : i > 0 => i - 1 \in 0 .. N
      BY <2>1
  <2> DEFINE S == {i \in 0 .. N : Untested[i] \subseteq Unready}
  <2>8. 0 \in S
    <3> HIDE DEF N, Past
    <3> QED BY <2>1, <2>2, <2>6
  <2>9. ASSUME NEW i \in 0 .. N, i > 0, i - 1 \in S PROVE i \in S
    <3>1. Untested[i - 1] \in SUBSET Unready
        BY <2>9
    <3>2. Past(Untested[i - 1]) \in SUBSET Unready
      <4> HIDE DEF N, S, first
      <4>1. PICK T \in SUBSET Unready : T = Untested[i - 1]
          BY <3>1
      <4>2. \A t \in Matrix : t[1] \in T \ {"QUALITY_CHECK"} => t[2] \in Unready
          BY UnreadyClosed DEF Matrix
      <4>3. Past(T) \in SUBSET Unready
          BY <4>2
      <4> HIDE DEF Past
      <4> QED BY <4>1, <4>3
    <3>3. Untested[i] = Past(Untested[i - 1])
      <4> HIDE DEF N, Past, first, S
      <4>1. Untested[i] = IF i = 0 THEN first ELSE Past(Untested[i - 1])
          BY <2>6
      <4> QED BY <2>9, <4>1
    <3> HIDE DEF Past
    <3> QED BY <3>2, <3>3
  <2>10. S = 0 .. N
    <3> HIDE DEF N
    <3>1. S \in SUBSET (0 .. N)
        OBVIOUS
    <3> HIDE DEF S
    <3> QED BY <2>1, <2>8, <2>9, <3>1, UpTo
  <2>11. Untested[N] \subseteq Unready
    <3>1. N \in 0 .. N
        BY <2>1
    <3> HIDE DEF N
    <3> QED BY <2>10, <3>1
  <2> QED BY <2>11 DEF TestedBeforeReturn, Unready
<1> QED BY <1>1, PTL
=============================================================================
