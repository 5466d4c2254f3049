----------------------------- MODULE RepairDesk -----------------------------
(***************************************************************************)
(* What the workshop does with a repair case besides changing its status:  *)
(* labels with a QR code, the technician in charge, notes and messages; and *)
(* the guards in front of it: modules/repairs and modules/authorization.   *)
(*                                                                         *)
(* A request carries an access token, valid for a quarter of an hour       *)
(* whatever becomes of the account.  The guard reads the account, then its *)
(* permissions; the handler writes, then records an audit entry, then      *)
(* answers.  Nothing holds these steps together.                           *)
(***************************************************************************)
EXTENDS Naturals, FiniteSets, RolePermissionSeed

CONSTANTS
    Staff,       \* accounts of accountType STAFF
    Client,      \* the client whose case it is
    Appointment, \* roles a member of the staff may have been given
    Request,     \* server-side executions of requests on the case
    Nobody,      \* no technician, no parameter
    MaxLabels,   \* bound: labels generated for the case
    MaxChanges   \* bound: changes made to accounts

ASSUME AppointmentAssumption == \A roles \in Appointment : roles \subseteq SeedRole
ASSUME DeskAssumption ==
    /\ Client \notin Staff /\ Nobody \notin Staff \cup {Client}
    /\ MaxLabels \in Nat /\ MaxChanges \in Nat

Person == Staff \cup {Client}

(* The permission each route requires. *)
Required ==
    [regenerate |-> "repair.assign", revoke |-> "repair.assign", assign |-> "repair.assign",
     internalNote |-> "repair.write_internal_notes", clientMessage |-> "order.update",
     read |-> "order.read", scan |-> "order.read"]

Operation == DOMAIN Required
Noting == {"internalNote", "clientMessage"}

VARIABLES
    active,      \* active[p]: users.is_active
    roles,       \* roles[p]: rows of user_roles
    signedIn,    \* accounts whose access token has not expired
    label,       \* qr_token_hash of the case
    revoked,     \* qr_token_revoked_at is set
    technician,  \* assigned_technician_id
    notes,       \* rows of repair_notes, as far as they differ
    audit,       \* audit entries: what was done and by whom
    step,        \* step[r]: what request r has come to
    request,     \* request[r]: its operation, account and technician, or NoRequest
    token,       \* token[r]: the label it has generated, 0 for none
    printed,     \* labels whose token was answered
    dead,        \* history: labels that have been replaced or revoked
    shown,       \* history: notes the client has been sent
    changes      \* changes made to accounts

accounts == <<active, roles, signedIn, changes>>
case == <<label, revoked, technician, notes>>
serving == <<step, request, token>>
vars == <<accounts, case, audit, serving, printed, dead, shown>>

NoRequest == [op |-> "read", by |-> Client, to |-> Nobody, entitled |-> FALSE, fit |-> FALSE]

(* getPermissionKeysForUser *)
Keys(p) == UNION {RolePermissions[role] : role \in roles[p]}

IsActiveStaff(p) == p \in Staff /\ active[p]

IsTechnician(p) == Keys(p) \cap Diagnosing # {}

(* The label printed when the order was created is number 1. *)
Init ==
    /\ active = [p \in Person |-> TRUE]
    /\ roles \in {given \in [Person -> Appointment \cup {{}}] : given[Client] = {}}
    /\ signedIn = Person
    /\ label = 1
    /\ revoked = FALSE
    /\ technician = Nobody
    /\ notes = {}
    /\ audit = {}
    /\ step = [r \in Request |-> "idle"]
    /\ request = [r \in Request |-> NoRequest]
    /\ token = [r \in Request |-> 0]
    /\ printed = {1}
    /\ dead = {}
    /\ shown = {}
    /\ changes = 0

-----------------------------------------------------------------------------
(* The guards *)

At(r, s) == step[r] = s

Go(r, s) == step' = [step EXCEPT ![r] = s] /\ UNCHANGED <<request, token>>

End(r) ==
    /\ step' = [step EXCEPT ![r] = "idle"]
    /\ request' = [request EXCEPT ![r] = NoRequest]
    /\ token' = [token EXCEPT ![r] = 0]

Parameters(op) == IF op = "assign" THEN Person ELSE {Nobody}

(* JwtAuthGuard.  "entitled" and "fit" are history: whether the account, and  *)
(* the technician to be assigned, are at this moment what the guards ask for. *)
Receive(r, op, p, x) ==
    /\ At(r, "idle")
    /\ p \in signedIn
    /\ step' = [step EXCEPT ![r] = "received"]
    /\ request' = [request EXCEPT ![r] =
           [op |-> op, by |-> p, to |-> x,
            entitled |-> IsActiveStaff(p) /\ Required[op] \in Keys(p),
            fit |-> op = "assign" => IsActiveStaff(x) /\ IsTechnician(x)]]
    /\ UNCHANGED <<accounts, case, audit, token, printed, dead, shown>>

(* Mutant: the claims of the access token are trusted. *)
CheckClaims(r) ==
    /\ At(r, "received")
    /\ IF request[r].by \in Staff THEN Go(r, "known") ELSE End(r)
    /\ UNCHANGED <<accounts, case, audit, printed, dead, shown>>

(* PermissionGuard: the account as it is now. *)
CheckAccount(r) ==
    /\ At(r, "received")
    /\ IF IsActiveStaff(request[r].by) THEN Go(r, "known") ELSE End(r)
    /\ UNCHANGED <<accounts, case, audit, printed, dead, shown>>

(* PermissionGuard: its permissions as they are now. *)
CheckPermission(r) ==
    /\ At(r, "known")
    /\ IF Required[request[r].op] \in Keys(request[r].by) THEN Go(r, "allowed") ELSE End(r)
    /\ UNCHANGED <<accounts, case, audit, printed, dead, shown>>

-----------------------------------------------------------------------------
(* The handlers *)

Handles(r, op) == At(r, "allowed") /\ request[r].op = op

(* The label stops to be one that scans. *)
Bury == dead' = dead \cup {label}

(* Mutant: a label that was revoked is given back instead of replaced. *)
RestoreQr(r) ==
    /\ Handles(r, "regenerate")
    /\ Cardinality(dead \cup {label}) < MaxLabels
    /\ label' = IF revoked THEN label ELSE label + 1
    /\ revoked' = FALSE
    /\ dead' = IF revoked THEN dead ELSE dead \cup {label}
    /\ step' = [step EXCEPT ![r] = "written"]
    /\ token' = [token EXCEPT ![r] = label']
    /\ UNCHANGED <<request, accounts, technician, notes, audit, printed, shown>>

(* regenerateQrToken: one UPDATE sets the new hash and lifts a revocation. *)
RegenerateQr(r) ==
    /\ Handles(r, "regenerate")
    /\ label < MaxLabels
    /\ label' = label + 1
    /\ revoked' = FALSE
    /\ Bury
    /\ step' = [step EXCEPT ![r] = "written"]
    /\ token' = [token EXCEPT ![r] = label']
    /\ UNCHANGED <<request, accounts, technician, notes, audit, printed, shown>>

(* revokeQrToken *)
RevokeQr(r) ==
    /\ Handles(r, "revoke")
    /\ revoked' = TRUE
    /\ Bury
    /\ Go(r, "written")
    /\ UNCHANGED <<accounts, label, technician, notes, audit, printed, shown>>

(* assignTechnician: getStaffProfileForAssignment *)
CheckAssignee(r) ==
    /\ Handles(r, "assign")
    /\ IF IsActiveStaff(request[r].to) THEN Go(r, "assignee") ELSE End(r)
    /\ UNCHANGED <<accounts, case, audit, printed, dead, shown>>

(* assignTechnician: hasAnyPermission *)
CheckAssigneeRole(r) ==
    /\ At(r, "assignee")
    /\ IF IsTechnician(request[r].to) THEN Go(r, "checked") ELSE End(r)
    /\ UNCHANGED <<accounts, case, audit, printed, dead, shown>>

AssignTechnician(r) ==
    /\ At(r, "checked")
    /\ technician' = request[r].to
    /\ Go(r, "written")
    /\ UNCHANGED <<accounts, label, revoked, notes, audit, printed, dead, shown>>

(* addInternalNote, addClientMessage: no audit entry. *)
AddNote(r) ==
    /\ At(r, "allowed")
    /\ request[r].op \in Noting
    /\ notes' = notes \cup
           {[by |-> request[r].by,
             visibility |-> IF request[r].op = "internalNote" THEN "INTERNAL" ELSE "CLIENT"]}
    /\ Go(r, "answering")
    /\ UNCHANGED <<accounts, label, revoked, technician, audit, printed, dead, shown>>

(* getForStaff, getByQrToken *)
Consult(r) ==
    /\ At(r, "allowed")
    /\ request[r].op \in {"read", "scan"}
    /\ End(r)
    /\ UNCHANGED <<accounts, case, audit, printed, dead, shown>>

RecordAudit(r) ==
    /\ At(r, "written")
    /\ audit' = audit \cup {<<request[r].op, request[r].by>>}
    /\ Go(r, "answering")
    /\ UNCHANGED <<accounts, case, printed, dead, shown>>

(* The token of a new label exists in this answer only. *)
Answer(r) ==
    /\ At(r, "answering")
    /\ printed' = IF request[r].op = "regenerate" THEN printed \cup {token[r]} ELSE printed
    /\ End(r)
    /\ UNCHANGED <<accounts, case, audit, dead, shown>>

(* A call fails or the process dies: what was written stays. *)
Fail(r) ==
    /\ ~At(r, "idle")
    /\ End(r)
    /\ UNCHANGED <<accounts, case, audit, printed, dead, shown>>

-----------------------------------------------------------------------------
(* The client *)

(* GET client/repair-cases/:id: findById includes the notes. *)
GetMine ==
    /\ Client \in signedIn
    /\ shown' = shown \cup notes
    /\ UNCHANGED <<accounts, case, audit, serving, printed, dead>>

(* GET client/repair-cases/:id/messages *)
ListClientMessages ==
    /\ Client \in signedIn
    /\ shown' = shown \cup {n \in notes : n.visibility = "CLIENT"}
    /\ UNCHANGED <<accounts, case, audit, serving, printed, dead>>

(* Outside: accounts are deactivated and lose their roles, by no code of the *)
(* repository; access tokens expire.                                         *)
AccountChange ==
    /\ changes < MaxChanges
    /\ changes' = changes + 1
    /\ \E p \in Staff :
          \/ active[p] /\ active' = [active EXCEPT ![p] = FALSE] /\ UNCHANGED <<roles, signedIn>>
          \/ roles[p] # {} /\ roles' = [roles EXCEPT ![p] = {}] /\ UNCHANGED <<active, signedIn>>
          \/ p \in signedIn /\ signedIn' = signedIn \ {p} /\ UNCHANGED <<active, roles>>
    /\ UNCHANGED <<case, audit, serving, printed, dead, shown>>

-----------------------------------------------------------------------------
Step(r) ==
    \/ CheckAccount(r) \/ CheckPermission(r)
    \/ RegenerateQr(r) \/ RevokeQr(r)
    \/ CheckAssignee(r) \/ CheckAssigneeRole(r) \/ AssignTechnician(r)
    \/ AddNote(r) \/ Consult(r)
    \/ RecordAudit(r) \/ Answer(r)

Next ==
    \/ \E r \in Request :
          \/ \E op \in Operation, p \in Person : \E x \in Parameters(op) : Receive(r, op, p, x)
          \/ Step(r)
          \/ Fail(r)
    \/ GetMine
    \/ ListClientMessages
    \/ AccountChange

Spec == Init /\ [][Next]_vars

-----------------------------------------------------------------------------
(* Properties *)

(* Whatever is written about the case, the account it is written by was      *)
(* active, of the staff and permitted when or after the request arrived, the *)
(* access token notwithstanding, and so was the technician put in charge     *)
(* (permission.guard.ts, ADR-022).                                           *)
WritesWereAllowed ==
    \A r \in Request :
        step[r] \in {"written", "answering"} => request[r].entitled /\ request[r].fit

Scans(l) == l = label /\ ~revoked

(* A label that was replaced or revoked never scans again, whatever          *)
(* regenerations and revocations overlap (ADR-009).                          *)
DeadLabelsStayDead == \A l \in dead : ~Scans(l)

(* INTERNAL notes are never seen by the client (prisma/schema.prisma).       *)
ClientSeesOwnNotes == \A n \in shown : n.visibility = "CLIENT"
=============================================================================
