----------------------------- MODULE RepairCase -----------------------------
(***************************************************************************)
(* Repair cases and their changes of status by the workshop's staff:       *)
(* apps/api/src/modules/repairs.                                           *)
(*                                                                         *)
(* changeStatus reads the case on one connection, checks the transition    *)
(* against what it read, then opens a transaction whose UPDATE is guarded  *)
(* by the lock version it read; history and outbox rows are written in the *)
(* same transaction, the audit entry after it and on its own.  A row a     *)
(* transaction has updated is locked until it ends: a second UPDATE waits, *)
(* then compares its lock version with the row as committed.               *)
(***************************************************************************)
EXTENDS Naturals, Sequences, FiniteSets

CONSTANTS
    Case,         \* repair cases
    StatusKey,    \* keys of repair_status_definitions
    Transition,   \* pairs <<from, to>> of repair_status_transitions
    FirstStatus,  \* REPAIR_STATUS_KEYS.ORDER_CREATED
    NoStatus,     \* what a case leaves when it is created
    Request,      \* server-side executions of PATCH /staff/repair-cases/:id/status
    Free,         \* no transaction holds the row
    MaxChanges    \* bound: requests served in a behaviour

ASSUME MatrixAssumption ==
    /\ Transition \subseteq StatusKey \X StatusKey
    /\ FirstStatus \in StatusKey
    /\ NoStatus \notin StatusKey
ASSUME RequestAssumption == Case # {} /\ Free \notin Request /\ MaxChanges \in Nat

VARIABLES
    status,    \* status[c]: repair_cases.status_key
    version,   \* version[c]: repair_cases.lock_version
    history,   \* history[c]: rows of repair_status_history, as committed
    events,    \* events[c]: outbox rows about c (RepairCaseCreated, then
               \* RepairStatusChanged with from and to), as committed
    audit,     \* audit[c]: repair_case.status_changed entries of the audit log
    rowLock,   \* rowLock[c]: the request whose transaction has updated row c
    pc,        \* pc[r]: the next call of request r
    req,       \* req[r]: the request's parameters and what it has read
    clock,     \* time, as far as it orders begins of transactions
    served,    \* requests started so far
    unlogged   \* history: unlogged[c], committed changes whose audit entry is lost

rows == <<status, version, history, events>>
vars == <<status, version, history, events, audit, rowLock, pc, req, clock, served, unlogged>>

PC == {"idle", "checked", "begun", "locked", "committed"}

Exists(c) == history[c] # <<>>

Creation == <<NoStatus, FirstStatus>>

NoRequest == [case |-> CHOOSE c \in Case : TRUE, to |-> FirstStatus, from |-> FirstStatus,
              version |-> 0, begun |-> 0]

Init ==
    /\ status = [c \in Case |-> FirstStatus]
    /\ version = [c \in Case |-> 0]
    /\ history = [c \in Case |-> <<>>]
    /\ events = [c \in Case |-> <<>>]
    /\ audit = [c \in Case |-> <<>>]
    /\ rowLock = [c \in Case |-> Free]
    /\ pc = [r \in Request |-> "idle"]
    /\ req = [r \in Request |-> NoRequest]
    /\ clock = 0
    /\ served = 0
    /\ unlogged = [c \in Case |-> 0]

-----------------------------------------------------------------------------
(* createCasesForOrderInTransaction, as the commit of the order shows it. *)
CreateCase(c) ==
    /\ ~Exists(c)
    /\ status' = [status EXCEPT ![c] = FirstStatus]
    /\ version' = [version EXCEPT ![c] = 0]
    /\ history' = [history EXCEPT ![c] = <<[status |-> FirstStatus, at |-> clock]>>]
    /\ events' = [events EXCEPT ![c] = <<Creation>>]
    /\ clock' = clock + 1
    /\ UNCHANGED <<audit, rowLock, pc, req, served, unlogged>>

(* findById, findStatus and isTransitionAllowed: the case is read once, the *)
(* matrix does not change.  A request for an absent case, an unknown status *)
(* or a transition not in the matrix ends here and changes nothing.         *)
ReadAndCheck(r, c, to) ==
    /\ pc[r] = "idle"
    /\ served < MaxChanges
    /\ Exists(c)
    /\ <<status[c], to>> \in Transition
    /\ req' = [req EXCEPT ![r] =
                  [case |-> c, to |-> to, from |-> status[c], version |-> version[c], begun |-> 0]]
    /\ pc' = [pc EXCEPT ![r] = "checked"]
    /\ served' = served + 1
    /\ UNCHANGED <<rows, audit, rowLock, clock, unlogged>>

(* The transaction begins: changed_at will not be earlier. *)
Begin(r) ==
    /\ pc[r] = "checked"
    /\ req' = [req EXCEPT ![r].begun = clock]
    /\ clock' = clock + 1
    /\ pc' = [pc EXCEPT ![r] = "begun"]
    /\ UNCHANGED <<rows, audit, rowLock, served, unlogged>>

(* Mutant: WHERE id = ... *)
AnyVersionMatches(r) == version[req[r].case] = version[req[r].case]

(* WHERE id = ... AND lock_version = expectedLockVersion *)
VersionMatches(r) == version[req[r].case] = req[r].version

(* Mutant: the version is compared before the row's lock is obtained, as a  *)
(* SELECT followed by an UPDATE by id would.                                *)
UpdateStatusUnlocked(r) ==
    /\ pc[r] = "begun"
    /\ VersionMatches(r)
    /\ rowLock' = [rowLock EXCEPT ![req[r].case] = r]
    /\ pc' = [pc EXCEPT ![r] = "locked"]
    /\ UNCHANGED <<rows, audit, req, clock, served, unlogged>>

(* The UPDATE, once no other transaction holds the row. *)
UpdateStatus(r) ==
    /\ pc[r] = "begun"
    /\ rowLock[req[r].case] = Free
    /\ VersionMatches(r)
    /\ rowLock' = [rowLock EXCEPT ![req[r].case] = r]
    /\ pc' = [pc EXCEPT ![r] = "locked"]
    /\ UNCHANGED <<rows, audit, req, clock, served, unlogged>>

(* result.count === 0: OptimisticLockDomainError, the transaction rolls back. *)
OptimisticLockError(r) ==
    /\ pc[r] = "begun"
    /\ rowLock[req[r].case] = Free
    /\ ~VersionMatches(r)
    /\ pc' = [pc EXCEPT ![r] = "idle"]
    /\ UNCHANGED <<rows, audit, rowLock, req, clock, served, unlogged>>

(* Mutant: the UPDATE does not increment lock_version. *)
CommitSameVersion(r) ==
    LET c == req[r].case
    IN  /\ pc[r] = "locked"
        /\ status' = [status EXCEPT ![c] = req[r].to]
        /\ \E at \in req[r].begun .. clock :
              history' = [history EXCEPT ![c] = Append(@, [status |-> req[r].to, at |-> at])]
        /\ events' = [events EXCEPT ![c] = Append(@, <<req[r].from, req[r].to>>)]
        /\ rowLock' = [rowLock EXCEPT ![c] = Free]
        /\ pc' = [pc EXCEPT ![r] = "committed"]
        /\ UNCHANGED <<version, audit, req, clock, served, unlogged>>

(* Mutant: the request returns without its audit entry. *)
CommitWithoutAudit(r) ==
    LET c == req[r].case
    IN  /\ pc[r] = "locked"
        /\ status' = [status EXCEPT ![c] = req[r].to]
        /\ version' = [version EXCEPT ![c] = @ + 1]
        /\ history' = [history EXCEPT ![c] =
                          Append(@, [status |-> req[r].to, at |-> req[r].begun])]
        /\ events' = [events EXCEPT ![c] = Append(@, <<req[r].from, req[r].to>>)]
        /\ rowLock' = [rowLock EXCEPT ![c] = Free]
        /\ pc' = [pc EXCEPT ![r] = "idle"]
        /\ UNCHANGED <<audit, req, clock, served, unlogged>>

(* History and outbox rows are inserted and the transaction commits: the    *)
(* four writes become visible together.  changed_at is a now() taken        *)
(* between the begin of the transaction and the insert.                     *)
Commit(r) ==
    LET c == req[r].case
    IN  /\ pc[r] = "locked"
        /\ status' = [status EXCEPT ![c] = req[r].to]
        /\ version' = [version EXCEPT ![c] = @ + 1]
        /\ \E at \in req[r].begun .. clock :
              history' = [history EXCEPT ![c] = Append(@, [status |-> req[r].to, at |-> at])]
        /\ events' = [events EXCEPT ![c] = Append(@, <<req[r].from, req[r].to>>)]
        /\ rowLock' = [rowLock EXCEPT ![c] = Free]
        /\ pc' = [pc EXCEPT ![r] = "committed"]
        /\ UNCHANGED <<audit, req, clock, served, unlogged>>

(* Mutant: the failed transaction is left open on its connection. *)
RollbackKeepingRow(r) ==
    /\ pc[r] \in {"checked", "begun", "locked"}
    /\ pc' = [pc EXCEPT ![r] = "idle"]
    /\ UNCHANGED <<rows, audit, rowLock, req, clock, served, unlogged>>

(* An insert or the commit fails, or the API process dies meanwhile. *)
Rollback(r) ==
    /\ pc[r] \in {"checked", "begun", "locked"}
    /\ rowLock' = [c \in Case |-> IF rowLock[c] = r THEN Free ELSE rowLock[c]]
    /\ pc' = [pc EXCEPT ![r] = "idle"]
    /\ UNCHANGED <<rows, audit, req, clock, served, unlogged>>

RecordAudit(r) ==
    /\ pc[r] = "committed"
    /\ audit' = [audit EXCEPT ![req[r].case] = Append(@, <<req[r].from, req[r].to>>)]
    /\ pc' = [pc EXCEPT ![r] = "idle"]
    /\ UNCHANGED <<rows, rowLock, req, clock, served, unlogged>>

(* The audit insert fails, or the process dies before it: the change stays, *)
(* although in the first case the caller is told of an error.               *)
AuditLost(r) ==
    /\ pc[r] = "committed"
    /\ unlogged' = [unlogged EXCEPT ![req[r].case] = @ + 1]
    /\ pc' = [pc EXCEPT ![r] = "idle"]
    /\ UNCHANGED <<rows, audit, rowLock, req, clock, served>>

-----------------------------------------------------------------------------
(* The calls request r still has to make, if none of them fails. *)
Advance(r) ==
    \/ Begin(r)
    \/ UpdateStatus(r)
    \/ OptimisticLockError(r)
    \/ Commit(r)
    \/ RecordAudit(r)

Next ==
    \/ \E c \in Case : CreateCase(c)
    \/ \E r \in Request :
          \/ \E c \in Case, to \in StatusKey : ReadAndCheck(r, c, to)
          \/ Advance(r)
          \/ Rollback(r)
          \/ AuditLost(r)

Spec == Init /\ [][Next]_vars

(* PostgreSQL serves a waiting UPDATE once the row is free, and the API      *)
(* process goes on with a request it has begun.                              *)
FairSpec == Spec /\ \A r \in Request : WF_vars(Advance(r))

-----------------------------------------------------------------------------
(* Properties *)

HistoryRow == [status : StatusKey, at : Nat]
ReadRequest == [case : Case, to : StatusKey, from : StatusKey, version : Nat, begun : Nat]

TypeOK ==
    /\ status \in [Case -> StatusKey]
    /\ version \in [Case -> Nat]
    /\ history \in [Case -> Seq(HistoryRow)]
    /\ events \in [Case -> Seq(Transition \cup {Creation})]
    /\ audit \in [Case -> Seq(Transition)]
    /\ rowLock \in [Case -> Request \cup {Free}]
    /\ pc \in [Request -> PC]
    /\ req \in [Request -> ReadRequest]
    /\ clock \in Nat
    /\ served \in Nat
    /\ unlogged \in [Case -> Nat]

(* The move that put row i in history h. *)
MoveTo(h, i) == <<h[i - 1].status, h[i].status>>

(* Whatever requests overlap, the history of a case is a walk in the matrix  *)
(* that starts at ORDER_CREATED and ends at the case's status, with as many  *)
(* moves as the lock version counts: no update is lost, none is recorded     *)
(* that did not happen (ADR-021).                                            *)
HistoryIsWalk ==
    \A c \in Case : Exists(c) =>
        /\ history[c][1].status = FirstStatus
        /\ history[c][Len(history[c])].status = status[c]
        /\ Len(history[c]) = version[c] + 1
        /\ \A i \in 2 .. Len(history[c]) : MoveTo(history[c], i) \in Transition

(* The outbox announces the creation and exactly the moves of the history,   *)
(* in their order: the fromStatusKey an event carries, read before the       *)
(* transaction, is the status the case really left.                          *)
EventsAreMoves ==
    \A c \in Case : Exists(c) =>
        /\ Len(events[c]) = Len(history[c])
        /\ events[c][1] = Creation
        /\ \A i \in 2 .. Len(history[c]) : events[c][i] = MoveTo(history[c], i)

(* findById lists the history by changed_at.  Whether that is the time the   *)
(* transaction began or the time of the insert, it is the order the changes  *)
(* took effect in, because a transaction begins only after the version it    *)
(* will match was read.                                                      *)
HistoryInTimeOrder ==
    \A c \in Case : \A i, j \in 1 .. Len(history[c]) :
        i < j => history[c][i].at <= history[c][j].at

(* Every committed change has its audit entry, is about to get it, or lost   *)
(* it to a failure after the commit: the compromise of ADR-021 and no more.  *)
AuditAccounted ==
    \A c \in Case : Exists(c) =>
        Len(events[c]) = 1 + Len(audit[c]) + unlogged[c]
                         + Cardinality({r \in Request : pc[r] = "committed" /\ req[r].case = c})

(* A request that was accepted for execution ends: waiting for a row is not  *)
(* waiting for each other.                                                   *)
RequestsEnd == \A r \in Request : pc[r] = "checked" ~> pc[r] = "idle"

(* Repair cases implement the workshop's view of them. *)
Workflow == INSTANCE StatusWorkflow WITH
    path <- [c \in Case |-> [i \in 1 .. Len(history[c]) |-> history[c][i].status]],
    announced <- events

ImplementsWorkflow == Workflow!Spec
=============================================================================
