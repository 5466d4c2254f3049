-------------------------- MODULE RepairCaseProofs --------------------------
(***************************************************************************)
(* Theorems about RepairCase for any cases, matrix and number of requests.  *)
(*                                                                         *)
(* The optimistic lock is the whole argument: what a request read is still  *)
(* true as long as the lock version it read is the row's (ReadStillTrue),   *)
(* and a request that holds the row's lock has compared the version         *)
(* (HolderMatches), so the Commit it makes extends the walk by a move that  *)
(* was checked against the status the walk ends at.                         *)
(***************************************************************************)
EXTENDS RepairCase, FiniteSetTheorems, TLAPS

(* Requests that have read their case and not ended. *)
Reading(r) == pc[r] \in {"checked", "begun", "locked"}
InTransaction(r) == pc[r] \in {"begun", "locked"}

ReadStillTrue ==
    \A r \in Request : Reading(r) =>
        /\ Exists(req[r].case)
        /\ req[r].version <= version[req[r].case]
        /\ VersionMatches(r) => req[r].from = status[req[r].case]
        /\ <<req[r].from, req[r].to>> \in Transition

BegunAfterHistory ==
    \A r \in Request : InTransaction(r) =>
        /\ req[r].begun <= clock
        /\ VersionMatches(r) =>
              \A i \in 1 .. Len(history[req[r].case]) : history[req[r].case][i].at <= req[r].begun

HolderMatches ==
    \A r \in Request : pc[r] = "locked" => rowLock[req[r].case] = r /\ VersionMatches(r)

HeldByLocked ==
    \A c \in Case : rowLock[c] # Free => pc[rowLock[c]] = "locked" /\ req[rowLock[c]].case = c

PastTimes == \A c \in Case : \A i \in 1 .. Len(history[c]) : history[c][i].at <= clock

Requests == ReadStillTrue /\ BegunAfterHistory /\ HolderMatches /\ HeldByLocked
Records == HistoryIsWalk /\ EventsAreMoves /\ HistoryInTimeOrder /\ PastTimes

IInv == TypeOK /\ Requests /\ Records

-----------------------------------------------------------------------------
(* Type correctness: every state of every behaviour has the declared types;  *)
(* in particular every event announces an allowed transition                 *)
(* (repair-case.service.ts, changeStatus).  It needs part of ReadStillTrue.  *)
Checked == \A r \in Request : Reading(r) \/ pc[r] = "committed" => <<req[r].from, req[r].to>> \in Transition

LEMMA TypeInit == Init => TypeOK /\ Checked
  <1> SUFFICES ASSUME Init PROVE TypeOK /\ Checked
      OBVIOUS
  <1>1. NoRequest \in ReadRequest
      BY RequestAssumption, MatrixAssumption DEF NoRequest, ReadRequest
  <1>2. TypeOK
      BY <1>1, MatrixAssumption, RequestAssumption DEF Init, TypeOK, PC
  <1>3. Checked
      BY DEF Init, Checked, Reading
  <1> QED BY <1>2, <1>3

LEMMA TypeNext == TypeOK /\ Checked /\ [Next]_vars => TypeOK' /\ Checked'
  <1> SUFFICES ASSUME TypeOK, Checked, [Next]_vars PROVE TypeOK' /\ Checked'
      OBVIOUS
  <1> USE DEF TypeOK, PC
  <1>1. ASSUME NEW c \in Case, CreateCase(c) PROVE TypeOK' /\ Checked'
      <2>1. [status |-> FirstStatus, at |-> clock] \in HistoryRow
          BY MatrixAssumption DEF HistoryRow
      <2>2. <<[status |-> FirstStatus, at |-> clock]>> \in Seq(HistoryRow)
          BY <2>1
      <2>3. <<Creation>> \in Seq(Transition \cup {Creation})
          OBVIOUS
      <2>4. history' \in [Case -> Seq(HistoryRow)] /\ events' \in [Case -> Seq(Transition \cup {Creation})]
          BY <1>1, <2>2, <2>3 DEF CreateCase
      <2>5. status' \in [Case -> StatusKey] /\ version' \in [Case -> Nat] /\ clock' \in Nat
          BY <1>1, MatrixAssumption DEF CreateCase
      <2>6. TypeOK'
          BY <1>1, <2>4, <2>5 DEF CreateCase
      <2>7. Checked'
          BY <1>1 DEF CreateCase, Checked, Reading
      <2> QED BY <2>6, <2>7
  <1>2. ASSUME NEW r \in Request, NEW c \in Case, NEW to \in StatusKey, ReadAndCheck(r, c, to)
        PROVE  TypeOK' /\ Checked'
      <2>1. [case |-> c, to |-> to, from |-> status[c], version |-> version[c], begun |-> 0]
               \in ReadRequest
          BY DEF ReadRequest
      <2>2. req' \in [Request -> ReadRequest]
          BY <1>2, <2>1 DEF ReadAndCheck
      <2>3. pc' \in [Request -> PC] /\ served' \in Nat
          BY <1>2 DEF ReadAndCheck
      <2>4. TypeOK'
          BY <1>2, <2>2, <2>3 DEF ReadAndCheck, rows
      <2>5. Checked'
          BY <1>2 DEF ReadAndCheck, Checked, Reading
      <2> QED BY <2>4, <2>5
  <1>3. ASSUME NEW r \in Request, Begin(r) PROVE TypeOK' /\ Checked'
      <2>1. req' \in [Request -> ReadRequest]
          BY <1>3 DEF Begin, ReadRequest
      <2>2. pc' \in [Request -> PC] /\ clock' \in Nat
          BY <1>3 DEF Begin
      <2>3. TypeOK'
          BY <1>3, <2>1, <2>2 DEF Begin, rows
      <2>4. Checked'
          BY <1>3 DEF Begin, Checked, Reading, ReadRequest
      <2> QED BY <2>3, <2>4
  <1>4. ASSUME NEW r \in Request, UpdateStatus(r) PROVE TypeOK' /\ Checked'
      BY <1>4 DEF UpdateStatus, rows, Checked, Reading
  <1>5. ASSUME NEW r \in Request, OptimisticLockError(r) PROVE TypeOK' /\ Checked'
      BY <1>5 DEF OptimisticLockError, rows, Checked, Reading
  <1>6. ASSUME NEW r \in Request, Commit(r) PROVE TypeOK' /\ Checked'
      <2> DEFINE c == req[r].case
      <2>1. PICK at \in req[r].begun .. clock :
                history' = [history EXCEPT ![c] = Append(@, [status |-> req[r].to, at |-> at])]
          BY <1>6 DEF Commit
      <2>2. /\ c \in Case
            /\ [status |-> req[r].to, at |-> at] \in HistoryRow
          BY <2>1 DEF ReadRequest, HistoryRow
      <2>3. <<req[r].from, req[r].to>> \in Transition
          BY <1>6 DEF Commit, Checked, Reading
      <2> HIDE DEF c
      <2>4. Append(history[c], [status |-> req[r].to, at |-> at]) \in Seq(HistoryRow)
          BY <2>2
      <2>5. history' \in [Case -> Seq(HistoryRow)]
          BY <2>1, <2>4
      <2>6. events' \in [Case -> Seq(Transition \cup {Creation})]
        <3>1. Append(events[c], <<req[r].from, req[r].to>>) \in Seq(Transition \cup {Creation})
            BY <2>2, <2>3
        <3>2. events' = [events EXCEPT ![c] = Append(@, <<req[r].from, req[r].to>>)]
            BY <1>6 DEF Commit, c
        <3> QED BY <3>1, <3>2
      <2>7. status' \in [Case -> StatusKey] /\ version' \in [Case -> Nat]
          BY <1>6, <2>2 DEF Commit, c, ReadRequest
      <2>8. rowLock' \in [Case -> Request \cup {Free}] /\ pc' \in [Request -> PC]
          BY <1>6 DEF Commit
      <2>9. TypeOK'
          BY <1>6, <2>5, <2>6, <2>7, <2>8 DEF Commit
      <2>10. Checked'
          BY <1>6 DEF Commit, Checked, Reading
      <2> QED BY <2>9, <2>10
  <1>7. ASSUME NEW r \in Request, Rollback(r) PROVE TypeOK' /\ Checked'
      BY <1>7 DEF Rollback, rows, Checked, Reading
  <1>8. ASSUME NEW r \in Request, RecordAudit(r) PROVE TypeOK' /\ Checked'
      <2>1. <<req[r].from, req[r].to>> \in Transition
          BY <1>8 DEF RecordAudit, Checked, Reading
      <2>2. audit' \in [Case -> Seq(Transition)]
          BY <1>8, <2>1 DEF RecordAudit, ReadRequest
      <2>3. TypeOK'
          BY <1>8, <2>2 DEF RecordAudit, rows
      <2>4. Checked'
          BY <1>8 DEF RecordAudit, Checked, Reading
      <2> QED BY <2>3, <2>4
  <1>9. ASSUME NEW r \in Request, AuditLost(r) PROVE TypeOK' /\ Checked'
      <2>1. unlogged' \in [Case -> Nat]
          BY <1>9 DEF AuditLost, ReadRequest
      <2>2. TypeOK'
          BY <1>9, <2>1 DEF AuditLost, rows
      <2>3. Checked'
          BY <1>9 DEF AuditLost, Checked, Reading
      <2> QED BY <2>2, <2>3
  <1>10. CASE UNCHANGED vars
      BY <1>10 DEF vars, Checked, Reading
  <1> QED BY <1>1, <1>2, <1>3, <1>4, <1>5, <1>6, <1>7, <1>8, <1>9, <1>10 DEF Next, Advance

THEOREM TypeCorrect == Spec => []TypeOK
  <1>1. Spec => [](TypeOK /\ Checked)
      BY TypeInit, TypeNext, PTL DEF Spec
  <1> QED BY <1>1, PTL

-----------------------------------------------------------------------------
(* What TypeOK says of a request and of a row of a history. *)
LEMMA RequestTyped ==
    ASSUME TypeOK, NEW r \in Request
    PROVE  /\ req[r].case \in Case /\ req[r].to \in StatusKey
           /\ req[r].version \in Nat /\ req[r].begun \in Nat
           /\ version[req[r].case] \in Nat /\ pc[r] \in PC
      BY DEF TypeOK, ReadRequest

LEMMA RowTyped ==
    ASSUME TypeOK, NEW c \in Case, NEW i \in 1 .. Len(history[c])
    PROVE  history[c][i].at \in Nat
  <1>1. history[c] \in Seq(HistoryRow)
      BY DEF TypeOK
  <1>2. history[c][i] \in HistoryRow
      BY <1>1
  <1> QED BY <1>2 DEF HistoryRow

(* A step of a request that holds no row, and takes none, keeps the holders. *)
LEMMA HoldersKept ==
    ASSUME TypeOK, HeldByLocked, UNCHANGED rowLock, NEW r \in Request, pc[r] # "locked",
           \A q \in Request : q # r => req'[q] = req[q] /\ pc'[q] = pc[q]
    PROVE  HeldByLocked'
  <1> SUFFICES ASSUME NEW c \in Case, rowLock[c] # Free
               PROVE  pc'[rowLock[c]] = "locked" /\ req'[rowLock[c]].case = c
      BY DEF HeldByLocked
  <1>1. pc[rowLock[c]] = "locked" /\ req[rowLock[c]].case = c
      BY DEF HeldByLocked
  <1>2. rowLock[c] \in Request /\ rowLock[c] # r
      BY <1>1 DEF TypeOK
  <1> QED BY <1>1, <1>2

(* Steps that write no row leave the records as they are. *)
LEMMA RecordsKept ==
    ASSUME TypeOK, TypeOK', Records, UNCHANGED rows, clock' >= clock
    PROVE  Records'
  <1>1. HistoryIsWalk'
      BY DEF Records, rows, HistoryIsWalk, Exists, MoveTo
  <1>2. EventsAreMoves'
      BY DEF Records, rows, EventsAreMoves, Exists, MoveTo
  <1>3. HistoryInTimeOrder'
      BY DEF Records, rows, HistoryInTimeOrder
  <1>4. PastTimes'
      <2> SUFFICES ASSUME NEW c \in Case, NEW i \in 1 .. Len(history[c])
                   PROVE  history[c][i].at <= clock'
          BY DEF rows, PastTimes
      <2>1. history[c][i].at \in Nat /\ history[c][i].at <= clock
          BY RowTyped DEF Records, PastTimes
      <2> QED BY <2>1 DEF TypeOK
  <1> QED BY <1>1, <1>2, <1>3, <1>4 DEF Records

(* A new case concerns no request: those that read a case read another.     *)
LEMMA CreateKeeps ==
    ASSUME TypeOK, TypeOK', Requests, Records, NEW c \in Case, CreateCase(c)
    PROVE  Requests' /\ Records'
  <1>0. /\ ~Exists(c) /\ UNCHANGED <<rowLock, pc, req>> /\ clock' = clock + 1
        /\ history' = [history EXCEPT ![c] = <<[status |-> FirstStatus, at |-> clock]>>]
        /\ status' = [status EXCEPT ![c] = FirstStatus]
        /\ version' = [version EXCEPT ![c] = 0]
        /\ events' = [events EXCEPT ![c] = <<Creation>>]
      BY DEF CreateCase
  <1>1. ASSUME NEW d \in Case, d # c
        PROVE  /\ history'[d] = history[d] /\ status'[d] = status[d]
               /\ version'[d] = version[d] /\ events'[d] = events[d]
      BY <1>0, <1>1 DEF TypeOK
  <1>2. /\ history'[c] = <<[status |-> FirstStatus, at |-> clock]>>
        /\ status'[c] = FirstStatus /\ version'[c] = 0 /\ events'[c] = <<Creation>>
      BY <1>0 DEF TypeOK
  <1>3. \A r \in Request : Reading(r) => req[r].case \in Case /\ req[r].case # c
      BY <1>0, RequestTyped DEF Requests, ReadStillTrue
  <1>4. ReadStillTrue'
      BY <1>0, <1>1, <1>3 DEF Requests, ReadStillTrue, Reading, Exists, VersionMatches
  <1>5. BegunAfterHistory'
      <2>1. \A r \in Request : InTransaction(r) => req[r].begun <= clock'
        <3> SUFFICES ASSUME NEW r \in Request, InTransaction(r) PROVE req[r].begun <= clock + 1
            BY <1>0
        <3>1. req[r].begun <= clock /\ req[r].begun \in Nat /\ clock \in Nat
            BY RequestTyped DEF Requests, BegunAfterHistory, TypeOK
        <3> QED BY <3>1
      <2> QED BY <1>0, <1>1, <1>3, <2>1
              DEF Requests, BegunAfterHistory, InTransaction, Reading, VersionMatches
  <1>6. HolderMatches' /\ HeldByLocked'
      BY <1>0, <1>1, <1>3 DEF Requests, HolderMatches, HeldByLocked, Reading, VersionMatches
  <1>7. HistoryIsWalk' /\ EventsAreMoves' /\ HistoryInTimeOrder'
      <2>1. /\ Len(history'[c]) = 1 /\ history'[c][1].status = FirstStatus
            /\ Len(events'[c]) = 1 /\ events'[c][1] = Creation
          BY <1>2
      <2>2. HistoryIsWalk'
        <3> SUFFICES ASSUME NEW d \in Case, history'[d] # <<>>
                     PROVE  /\ history'[d][1].status = FirstStatus
                            /\ history'[d][Len(history'[d])].status = status'[d]
                            /\ Len(history'[d]) = version'[d] + 1
                            /\ \A i \in 2 .. Len(history'[d]) : MoveTo(history'[d], i) \in Transition
            BY DEF HistoryIsWalk, Exists, MoveTo
        <3>1. CASE d = c
            BY <1>2, <2>1, <3>1
        <3>2. CASE d # c
            BY <1>1, <3>2 DEF Records, HistoryIsWalk, Exists
        <3> QED BY <3>1, <3>2
      <2>3. EventsAreMoves'
        <3> SUFFICES ASSUME NEW d \in Case, history'[d] # <<>>
                     PROVE  /\ Len(events'[d]) = Len(history'[d]) /\ events'[d][1] = Creation
                            /\ \A i \in 2 .. Len(history'[d]) : events'[d][i] = MoveTo(history'[d], i)
            BY DEF EventsAreMoves, Exists, MoveTo
        <3>1. CASE d = c
            BY <2>1, <3>1
        <3>2. CASE d # c
            BY <1>1, <3>2 DEF Records, EventsAreMoves, Exists
        <3> QED BY <3>1, <3>2
      <2>4. HistoryInTimeOrder'
          BY <1>1, <2>1 DEF Records, HistoryInTimeOrder
      <2> QED BY <2>2, <2>3, <2>4
  <1>8. PastTimes'
      <2> SUFFICES ASSUME NEW d \in Case, NEW i \in 1 .. Len(history'[d])
                   PROVE  history'[d][i].at <= clock'
          BY DEF PastTimes
      <2>1. CASE d = c
          BY <1>0, <1>2, <2>1 DEF TypeOK
      <2>2. CASE d # c
        <3>1. i \in 1 .. Len(history[d])
            BY <1>1, <2>2
        <3>2. history[d][i].at \in Nat /\ history[d][i].at <= clock
            BY <3>1, RowTyped DEF Records, PastTimes
        <3>3. history'[d][i].at = history[d][i].at /\ clock' = clock + 1 /\ clock \in Nat
            BY <1>0, <1>1, <2>2 DEF TypeOK
        <3> QED BY <3>2, <3>3
      <2> QED BY <2>1, <2>2
  <1> QED BY <1>4, <1>5, <1>6, <1>7, <1>8 DEF Requests, Records

(* What a request reads is true when it reads it. *)
LEMMA ReadKeeps ==
    ASSUME TypeOK, TypeOK', Requests, Records,
           NEW r \in Request, NEW c \in Case, NEW to \in StatusKey, ReadAndCheck(r, c, to)
    PROVE  Requests' /\ Records'
  <1>0. /\ pc[r] = "idle" /\ Exists(c) /\ <<status[c], to>> \in Transition
        /\ UNCHANGED <<status, version, history, events, rowLock, clock>>
        /\ req'[r] = [case |-> c, to |-> to, from |-> status[c], version |-> version[c], begun |-> 0]
        /\ pc'[r] = "checked"
        /\ \A q \in Request : q # r => req'[q] = req[q] /\ pc'[q] = pc[q]
      BY DEF ReadAndCheck, TypeOK, rows
  <1>1. ReadStillTrue'
      <2> SUFFICES ASSUME NEW q \in Request, Reading(q)'
                   PROVE  /\ Exists(req'[q].case)
                          /\ req'[q].version <= version[req'[q].case]
                          /\ VersionMatches(q)' => req'[q].from = status[req'[q].case]
                          /\ <<req'[q].from, req'[q].to>> \in Transition
          BY <1>0 DEF ReadStillTrue, Exists
      <2>1. CASE q = r
        <3>1. /\ req'[q].case = c /\ req'[q].to = to /\ req'[q].from = status[c]
              /\ req'[q].version = version[c] /\ version[c] \in Nat
            BY <1>0, <2>1 DEF TypeOK
        <3> QED BY <1>0, <3>1
      <2>2. CASE q # r
          BY <1>0, <2>2 DEF Requests, ReadStillTrue, Reading, VersionMatches
      <2> QED BY <2>1, <2>2
  <1>2. BegunAfterHistory'
      BY <1>0 DEF Requests, BegunAfterHistory, InTransaction, VersionMatches
  <1>3. HolderMatches'
      BY <1>0 DEF Requests, HolderMatches, VersionMatches
  <1>4. HeldByLocked'
      BY <1>0, HoldersKept DEF Requests
  <1>5. Records'
      <2>1. clock' >= clock /\ UNCHANGED rows
          BY <1>0 DEF TypeOK, rows
      <2> QED BY <2>1, RecordsKept
  <1> QED BY <1>1, <1>2, <1>3, <1>4, <1>5 DEF Requests

(* The time a transaction begins is after every change it can match. *)
LEMMA BeginKeeps ==
    ASSUME TypeOK, TypeOK', Requests, Records, NEW r \in Request, Begin(r)
    PROVE  Requests' /\ Records'
  <1>0. /\ pc[r] = "checked" /\ clock' = clock + 1
        /\ UNCHANGED <<status, version, history, events, rowLock>>
        /\ req'[r].case = req[r].case /\ req'[r].to = req[r].to /\ req'[r].from = req[r].from
        /\ req'[r].version = req[r].version /\ req'[r].begun = clock
        /\ pc'[r] = "begun"
        /\ \A q \in Request : q # r => req'[q] = req[q] /\ pc'[q] = pc[q]
      BY DEF Begin, TypeOK, rows, ReadRequest
  <1>1. ReadStillTrue'
      BY <1>0 DEF Requests, ReadStillTrue, Reading, VersionMatches, Exists
  <1>2. BegunAfterHistory'
      <2> SUFFICES ASSUME NEW q \in Request, InTransaction(q)'
                   PROVE  /\ req'[q].begun <= clock'
                          /\ VersionMatches(q)' =>
                                \A i \in 1 .. Len(history[req'[q].case]) :
                                    history[req'[q].case][i].at <= req'[q].begun
          BY <1>0 DEF BegunAfterHistory
      <2>1. CASE q = r
          BY <1>0, <2>1 DEF TypeOK, ReadRequest, Records, PastTimes
      <2>2. CASE q # r
        <3>1. InTransaction(q) /\ req[q].begun <= clock
            BY <1>0, <2>2 DEF InTransaction, Requests, BegunAfterHistory
        <3>2. req'[q].begun <= clock'
          <4>1. req[q].begun \in Nat /\ clock \in Nat
              BY RequestTyped DEF TypeOK
          <4> QED BY <1>0, <2>2, <3>1, <4>1
        <3> QED BY <1>0, <2>2, <3>1, <3>2 DEF Requests, BegunAfterHistory, VersionMatches
      <2> QED BY <2>1, <2>2
  <1>3. HolderMatches'
      BY <1>0 DEF Requests, HolderMatches, VersionMatches
  <1>4. HeldByLocked'
      BY <1>0, HoldersKept DEF Requests
  <1>5. Records'
      <2>1. clock' >= clock /\ UNCHANGED rows
          BY <1>0 DEF TypeOK, rows
      <2> QED BY <2>1, RecordsKept
  <1> QED BY <1>1, <1>2, <1>3, <1>4, <1>5 DEF Requests

(* The UPDATE takes a free row whose version is the one read. *)
LEMMA UpdateKeeps ==
    ASSUME TypeOK, TypeOK', Requests, Records, NEW r \in Request, UpdateStatus(r)
    PROVE  Requests' /\ Records'
  <1>0. /\ pc[r] = "begun" /\ rowLock[req[r].case] = Free /\ VersionMatches(r)
        /\ UNCHANGED <<status, version, history, events, req, clock>>
        /\ rowLock'[req[r].case] = r /\ pc'[r] = "locked"
        /\ \A q \in Request : q # r => pc'[q] = pc[q]
        /\ \A c \in Case : c # req[r].case => rowLock'[c] = rowLock[c]
        /\ req[r].case \in Case
      BY DEF UpdateStatus, TypeOK, rows, ReadRequest
  <1>1. ReadStillTrue' /\ BegunAfterHistory'
      BY <1>0 DEF Requests, ReadStillTrue, BegunAfterHistory, Reading, InTransaction, VersionMatches, Exists
  <1>2. HolderMatches'
      <2> SUFFICES ASSUME NEW q \in Request, pc'[q] = "locked"
                   PROVE  rowLock'[req[q].case] = q /\ VersionMatches(q)
          BY <1>0 DEF HolderMatches, VersionMatches
      <2>1. CASE q # r
        <3>1. rowLock[req[q].case] = q /\ VersionMatches(q) /\ req[q].case \in Case
            BY <1>0, <2>1 DEF Requests, HolderMatches, TypeOK, ReadRequest
        <3> QED BY <1>0, <3>1, RequestAssumption
      <2> QED BY <1>0, <2>1
  <1>3. HeldByLocked'
      <2> SUFFICES ASSUME NEW c \in Case, rowLock'[c] # Free
                   PROVE  pc'[rowLock'[c]] = "locked" /\ req[rowLock'[c]].case = c
          BY <1>0 DEF HeldByLocked
      <2>1. CASE c = req[r].case
          BY <1>0, <2>1
      <2>2. CASE c # req[r].case
        <3>1. rowLock'[c] = rowLock[c] /\ rowLock[c] \in Request
            BY <1>0, <2>2 DEF TypeOK
        <3>2. pc[rowLock[c]] = "locked" /\ req[rowLock[c]].case = c
            BY <3>1, <2>2 DEF Requests, HeldByLocked
        <3> QED BY <1>0, <3>1, <3>2
      <2> QED BY <2>1, <2>2
  <1>4. Records'
      <2>1. clock' >= clock /\ UNCHANGED rows
          BY <1>0 DEF TypeOK, rows
      <2> QED BY <2>1, RecordsKept
  <1> QED BY <1>1, <1>2, <1>3, <1>4 DEF Requests

(* A request that ends, whether it commits or not, releases its own row only. *)
LEMMA RollbackKeeps ==
    ASSUME TypeOK, TypeOK', Requests, Records, NEW r \in Request, Rollback(r)
    PROVE  Requests' /\ Records'
  <1>0. /\ UNCHANGED <<status, version, history, events, req, clock>>
        /\ pc'[r] = "idle"
        /\ \A q \in Request : q # r => pc'[q] = pc[q]
        /\ \A c \in Case : rowLock'[c] = IF rowLock[c] = r THEN Free ELSE rowLock[c]
      BY DEF Rollback, TypeOK, rows
  <1>1. ReadStillTrue' /\ BegunAfterHistory'
      BY <1>0 DEF Requests, ReadStillTrue, BegunAfterHistory, Reading, InTransaction, VersionMatches, Exists
  <1>2. HolderMatches'
      BY <1>0 DEF Requests, HolderMatches, VersionMatches, TypeOK, ReadRequest
  <1>3. HeldByLocked'
      <2> SUFFICES ASSUME NEW c \in Case, rowLock'[c] # Free
                   PROVE  pc'[rowLock'[c]] = "locked" /\ req[rowLock'[c]].case = c
          BY <1>0 DEF HeldByLocked
      <2>1. rowLock'[c] = rowLock[c] /\ rowLock[c] # r /\ rowLock[c] \in Request
          BY <1>0 DEF TypeOK
      <2>2. pc[rowLock[c]] = "locked" /\ req[rowLock[c]].case = c
          BY <2>1 DEF Requests, HeldByLocked
      <2> QED BY <1>0, <2>1, <2>2
  <1>4. Records'
      <2>1. clock' >= clock /\ UNCHANGED rows
          BY <1>0 DEF TypeOK, rows
      <2> QED BY <2>1, RecordsKept
  <1> QED BY <1>1, <1>2, <1>3, <1>4 DEF Requests

(* Ends of requests that hold no row. *)
LEMMA EndKeeps ==
    ASSUME TypeOK, TypeOK', Requests, Records, NEW r \in Request,
           OptimisticLockError(r) \/ RecordAudit(r) \/ AuditLost(r)
    PROVE  Requests' /\ Records'
  <1>0. /\ UNCHANGED <<status, version, history, events, rowLock, req, clock>>
        /\ pc[r] # "locked" /\ pc'[r] = "idle"
        /\ \A q \in Request : q # r => pc'[q] = pc[q]
      BY DEF OptimisticLockError, RecordAudit, AuditLost, TypeOK, rows
  <1>1. ReadStillTrue' /\ BegunAfterHistory'
      BY <1>0 DEF Requests, ReadStillTrue, BegunAfterHistory, Reading, InTransaction, VersionMatches, Exists
  <1>2. HolderMatches'
      BY <1>0 DEF Requests, HolderMatches, VersionMatches
  <1>3. HeldByLocked'
      BY <1>0, HoldersKept DEF Requests
  <1>4. Records'
      <2>1. clock' >= clock /\ UNCHANGED rows
          BY <1>0 DEF TypeOK, rows
      <2> QED BY <2>1, RecordsKept
  <1> QED BY <1>1, <1>2, <1>3, <1>4 DEF Requests

(* What Commit(r) does to the rows of its case c and to the others. *)
Committed(r, c) ==
    /\ c \in Case /\ Exists(c) /\ rowLock[c] = r /\ pc[r] = "locked"
    /\ req[r].version = version[c] /\ req[r].from = status[c]
    /\ <<status[c], req[r].to>> \in Transition
    /\ status'[c] = req[r].to /\ version'[c] = version[c] + 1
    /\ events'[c] = Append(events[c], <<status[c], req[r].to>>)
    /\ rowLock'[c] = Free /\ pc'[r] = "committed" /\ req' = req /\ clock' = clock
    /\ \E at \in req[r].begun .. clock :
          history'[c] = Append(history[c], [status |-> req[r].to, at |-> at])
    /\ \A d \in Case : d # c =>
          /\ status'[d] = status[d] /\ version'[d] = version[d]
          /\ history'[d] = history[d] /\ events'[d] = events[d]
          /\ rowLock'[d] = rowLock[d]
    /\ \A q \in Request : q # r => pc'[q] = pc[q]

LEMMA CommitEffect ==
    ASSUME TypeOK, Requests, Records, NEW r \in Request, Commit(r)
    PROVE  Committed(r, req[r].case)
  <1> DEFINE c == req[r].case
  <1>1. c \in Case /\ pc[r] = "locked"
      BY RequestTyped DEF Commit
  <1>2. rowLock[c] = r /\ req[r].version = version[c]
      BY <1>1 DEF Requests, HolderMatches, VersionMatches
  <1>3. Exists(c) /\ req[r].from = status[c] /\ <<status[c], req[r].to>> \in Transition
      BY <1>1, <1>2 DEF Requests, ReadStillTrue, Reading, VersionMatches
  <1>4. /\ status'[c] = req[r].to /\ version'[c] = version[c] + 1
        /\ events'[c] = Append(events[c], <<status[c], req[r].to>>)
        /\ rowLock'[c] = Free /\ pc'[r] = "committed" /\ req' = req /\ clock' = clock
      BY <1>1, <1>3 DEF Commit, TypeOK
  <1>5. \E at \in req[r].begun .. clock :
            history'[c] = Append(history[c], [status |-> req[r].to, at |-> at])
    <2>1. PICK at \in req[r].begun .. clock :
              history' = [history EXCEPT ![c] = Append(@, [status |-> req[r].to, at |-> at])]
        BY DEF Commit
    <2> QED BY <1>1, <2>1 DEF TypeOK
  <1>6. \A d \in Case : d # c =>
            /\ status'[d] = status[d] /\ version'[d] = version[d]
            /\ history'[d] = history[d] /\ events'[d] = events[d]
            /\ rowLock'[d] = rowLock[d]
      BY DEF Commit, TypeOK
  <1>7. \A q \in Request : q # r => pc'[q] = pc[q]
      BY DEF Commit, TypeOK
  <1> QED BY <1>1, <1>2, <1>3, <1>4, <1>5, <1>6, <1>7 DEF Committed

(* A row appended to a history adds one move, from the last status.          *)
Grown(h, x, g) ==
    /\ Len(h) \in Nat /\ Len(h) >= 1 /\ Len(g) = Len(h) + 1
    /\ g[Len(g)] = x /\ g[1] = h[1]
    /\ \A i \in 1 .. Len(g) : i = Len(g) \/ (i \in 1 .. Len(h) /\ g[i] = h[i])
    /\ \A i \in 2 .. Len(g) :
          \/ i = Len(g) /\ MoveTo(g, i) = <<h[Len(h)].status, x.status>>
          \/ i \in 2 .. Len(h) /\ i # Len(g) /\ MoveTo(g, i) = MoveTo(h, i)

LEMMA OneMoveMore ==
    ASSUME NEW h \in Seq(HistoryRow), h # <<>>, NEW x \in HistoryRow
    PROVE  Grown(h, x, Append(h, x))
  <1> DEFINE g == Append(h, x)
  <1>1. Len(h) \in Nat /\ Len(h) >= 1
      OBVIOUS
  <1>2. Len(g) = Len(h) + 1 /\ g[Len(g)] = x /\ \A i \in 1 .. Len(h) : g[i] = h[i]
      OBVIOUS
  <1> HIDE DEF g
  <1>3. \A i \in 1 .. Len(g) : i = Len(g) \/ (i \in 1 .. Len(h) /\ g[i] = h[i])
      BY <1>1, <1>2
  <1>4. ASSUME NEW i \in 2 .. Len(g)
        PROVE  \/ i = Len(g) /\ MoveTo(g, i) = <<h[Len(h)].status, x.status>>
               \/ i \in 2 .. Len(h) /\ i # Len(g) /\ MoveTo(g, i) = MoveTo(h, i)
    <2>1. i - 1 \in 1 .. Len(h) /\ g[i - 1] = h[i - 1]
        BY <1>1, <1>2
    <2>2. CASE i = Len(g)
        BY <1>1, <1>2, <2>1, <2>2 DEF MoveTo
    <2>3. CASE i # Len(g)
      <3>1. i \in 2 .. Len(h) /\ g[i] = h[i]
          BY <1>1, <1>2, <2>3
      <3> QED BY <2>1, <2>3, <3>1 DEF MoveTo
    <2> QED BY <2>2, <2>3
  <1>5. g[1] = h[1]
      BY <1>1, <1>2
  <1> QED BY <1>1, <1>2, <1>3, <1>4, <1>5 DEF Grown, g

(* A commit extends the walk by a checked move, announces it, and its time   *)
(* is not before the times recorded.                                         *)
LEMMA CommitKeepsRecords ==
    ASSUME TypeOK, Requests, Records, NEW r \in Request, Commit(r)
    PROVE  Records'
  <1> DEFINE c == req[r].case
             h == history[c]
             g == history'[c]
             move == <<status[c], req[r].to>>
  <1>0. /\ c \in Case /\ Exists(c) /\ pc[r] = "locked" /\ req[r].version = version[c]
        /\ move \in Transition
        /\ status'[c] = req[r].to /\ version'[c] = version[c] + 1 /\ clock' = clock
        /\ events'[c] = Append(events[c], move)
        /\ \E at \in req[r].begun .. clock : g = Append(h, [status |-> req[r].to, at |-> at])
        /\ \A d \in Case : d # c =>
              /\ status'[d] = status[d] /\ version'[d] = version[d]
              /\ history'[d] = history[d] /\ events'[d] = events[d]
      BY CommitEffect DEF Committed
  <1>1. PICK at \in req[r].begun .. clock : g = Append(h, [status |-> req[r].to, at |-> at])
      BY <1>0
  <1> DEFINE x == [status |-> req[r].to, at |-> at]
  <1>2. /\ h \in Seq(HistoryRow) /\ h # <<>> /\ version[c] \in Nat /\ clock \in Nat
        /\ events[c] \in Seq(Transition \cup {Creation})
      BY <1>0 DEF Exists, TypeOK
  <1>3. /\ at \in Nat /\ at <= clock /\ req[r].begun \in Nat /\ req[r].begun <= at
        /\ x \in HistoryRow /\ x.at = at /\ x.status = req[r].to
      BY <1>2, RequestTyped DEF HistoryRow
  <1>4. Grown(h, x, g)
      BY <1>1, <1>2, <1>3, OneMoveMore
  <1>5. /\ h[1].status = FirstStatus /\ h[Len(h)].status = status[c] /\ Len(h) = version[c] + 1
        /\ \A i \in 2 .. Len(h) : MoveTo(h, i) \in Transition
      BY <1>0 DEF Records, HistoryIsWalk
  <1>6. /\ Len(events[c]) = Len(h) /\ events[c][1] = Creation
        /\ \A i \in 2 .. Len(h) : events[c][i] = MoveTo(h, i)
      BY <1>0 DEF Records, EventsAreMoves
  <1>7. \A i, j \in 1 .. Len(h) : i < j => h[i].at <= h[j].at
      BY <1>0 DEF Records, HistoryInTimeOrder
  <1>8. \A i \in 1 .. Len(h) : h[i].at \in Nat /\ h[i].at <= at /\ h[i].at <= clock
    <2> TAKE i \in 1 .. Len(h)
    <2>1. h[i].at \in Nat
        BY <1>0, RowTyped
    <2>2. h[i].at <= req[r].begun
        BY <1>0 DEF Requests, BegunAfterHistory, InTransaction, VersionMatches
    <2>3. h[i].at <= clock
        BY <1>0 DEF Records, PastTimes
    <2> QED BY <1>3, <2>1, <2>2, <2>3
  <1> HIDE DEF h, g, c, x, move
  <1> USE DEF Grown
  <1>9. /\ g[1].status = FirstStatus /\ g[Len(g)].status = status'[c]
        /\ Len(g) = version'[c] + 1
        /\ \A i \in 2 .. Len(g) : MoveTo(g, i) \in Transition
    <2>1. <<h[Len(h)].status, x.status>> \in Transition
        BY <1>0, <1>3, <1>5 DEF move
    <2> QED BY <1>0, <1>2, <1>3, <1>4, <1>5, <2>1
  <1>10. /\ Len(events'[c]) = Len(g) /\ events'[c][1] = Creation
         /\ \A i \in 2 .. Len(g) : events'[c][i] = MoveTo(g, i)
    <2>1. /\ Len(events'[c]) = Len(h) + 1 /\ events'[c][Len(h) + 1] = move
          /\ \A i \in 1 .. Len(h) : events'[c][i] = events[c][i]
        BY <1>0, <1>2, <1>4, <1>6
    <2>2. move = <<h[Len(h)].status, x.status>>
        BY <1>3, <1>5 DEF move
    <2>3. ASSUME NEW i \in 2 .. Len(g) PROVE events'[c][i] = MoveTo(g, i)
      <3>1. CASE i = Len(g)
          BY <1>4, <2>1, <2>2, <3>1
      <3>2. CASE i # Len(g)
        <4>1. i \in 2 .. Len(h) /\ MoveTo(g, i) = MoveTo(h, i)
            BY <1>4, <3>2
        <4>2. i \in 1 .. Len(h)
            BY <1>4, <4>1
        <4> QED BY <1>6, <2>1, <4>1, <4>2
      <3> QED BY <3>1, <3>2
    <2>4. events'[c][1] = Creation
        BY <1>4, <1>6, <2>1
    <2> QED BY <1>4, <2>1, <2>3, <2>4
  <1>11. /\ \A i, j \in 1 .. Len(g) : i < j => g[i].at <= g[j].at
         /\ \A i \in 1 .. Len(g) : g[i].at <= clock
    <2>1. ASSUME NEW i \in 1 .. Len(g), NEW j \in 1 .. Len(g), i < j PROVE g[i].at <= g[j].at
      <3>1. i \in 1 .. Len(h) /\ g[i] = h[i]
          BY <1>4, <2>1
      <3>2. CASE j = Len(g)
          BY <1>3, <1>4, <1>8, <3>1, <3>2
      <3>3. CASE j # Len(g)
        <4>1. j \in 1 .. Len(h) /\ g[j] = h[j]
            BY <1>4, <3>3
        <4> QED BY <1>7, <2>1, <3>1, <4>1
      <3> QED BY <3>2, <3>3
    <2>2. \A i \in 1 .. Len(g) : g[i].at <= clock
        BY <1>3, <1>4, <1>8
    <2> QED BY <2>1, <2>2
  <1> HIDE DEF Grown
  <1>12. HistoryIsWalk'
    <2> SUFFICES ASSUME NEW d \in Case, history'[d] # <<>>
                 PROVE  /\ history'[d][1].status = FirstStatus
                        /\ history'[d][Len(history'[d])].status = status'[d]
                        /\ Len(history'[d]) = version'[d] + 1
                        /\ \A i \in 2 .. Len(history'[d]) : MoveTo(history'[d], i) \in Transition
        BY DEF HistoryIsWalk, Exists, MoveTo
    <2>1. CASE d = c
        BY <1>9, <2>1 DEF g
    <2>2. CASE d # c
        BY <1>0, <2>2 DEF Records, HistoryIsWalk, Exists
    <2> QED BY <2>1, <2>2
  <1>13. EventsAreMoves'
    <2> SUFFICES ASSUME NEW d \in Case, history'[d] # <<>>
                 PROVE  /\ Len(events'[d]) = Len(history'[d])
                        /\ events'[d][1] = Creation
                        /\ \A i \in 2 .. Len(history'[d]) : events'[d][i] = MoveTo(history'[d], i)
        BY DEF EventsAreMoves, Exists, MoveTo
    <2>1. CASE d = c
        BY <1>10, <2>1 DEF g
    <2>2. CASE d # c
        BY <1>0, <2>2 DEF Records, EventsAreMoves, Exists
    <2> QED BY <2>1, <2>2
  <1>14. HistoryInTimeOrder' /\ PastTimes'
    <2> SUFFICES ASSUME NEW d \in Case
                 PROVE  /\ \A i, j \in 1 .. Len(history'[d]) :
                               i < j => history'[d][i].at <= history'[d][j].at
                        /\ \A i \in 1 .. Len(history'[d]) : history'[d][i].at <= clock'
        BY DEF HistoryInTimeOrder, PastTimes
    <2>1. CASE d = c
        BY <1>0, <1>11, <2>1 DEF g
    <2>2. CASE d # c
        BY <1>0, <2>2 DEF Records, HistoryInTimeOrder, PastTimes
    <2> QED BY <2>1, <2>2
  <1> QED BY <1>12, <1>13, <1>14 DEF Records

(* Requests that read the version the commit replaces match it no more.      *)
LEMMA CommitKeepsRequests ==
    ASSUME TypeOK, Requests, Records, NEW r \in Request, Commit(r)
    PROVE  Requests'
  <1> DEFINE c == req[r].case
  <1>0. /\ c \in Case /\ Exists(c) /\ rowLock[c] = r /\ pc[r] = "locked"
        /\ version'[c] = version[c] + 1
        /\ rowLock'[c] = Free /\ pc'[r] = "committed" /\ req' = req /\ clock' = clock
        /\ \E at \in req[r].begun .. clock :
              history'[c] = Append(history[c], [status |-> req[r].to, at |-> at])
        /\ \A d \in Case : d # c =>
              /\ status'[d] = status[d] /\ version'[d] = version[d]
              /\ history'[d] = history[d] /\ rowLock'[d] = rowLock[d]
        /\ \A q \in Request : q # r => pc'[q] = pc[q]
    <2>1. Committed(r, c)
        BY CommitEffect
    <2> HIDE DEF c
    <2> QED BY <2>1 DEF Committed
  <1>1. history'[c] # <<>>
    <2>1. PICK at \in req[r].begun .. clock :
              history'[c] = Append(history[c], [status |-> req[r].to, at |-> at])
        BY <1>0
    <2>2. history[c] \in Seq(HistoryRow)
        BY <1>0 DEF TypeOK
    <2>3. Len(history'[c]) = Len(history[c]) + 1 /\ Len(history[c]) \in Nat
        BY <2>1, <2>2
    <2> QED BY <2>3
  <1>2. ASSUME NEW q \in Request, Reading(q)'
        PROVE  /\ q # r /\ Reading(q) /\ req[q].case \in Case
               /\ req[q].case = c => ~(version'[c] = req[q].version) /\ req[q].version <= version'[c]
               /\ pc[q] = pc'[q]
    <2>1. q # r /\ Reading(q) /\ pc[q] = pc'[q]
        BY <1>0, <1>2 DEF Reading
    <2>2. /\ req[q].case \in Case /\ req[q].version \in Nat /\ version[req[q].case] \in Nat
          /\ req[q].version <= version[req[q].case]
        BY <2>1, RequestTyped DEF Requests, ReadStillTrue
    <2> QED BY <1>0, <2>1, <2>2
  <1>3. ReadStillTrue'
    <2> SUFFICES ASSUME NEW q \in Request, Reading(q)'
                 PROVE  /\ history'[req[q].case] # <<>>
                        /\ req[q].version <= version'[req[q].case]
                        /\ version'[req[q].case] = req[q].version => req[q].from = status'[req[q].case]
                        /\ <<req[q].from, req[q].to>> \in Transition
        BY <1>0 DEF ReadStillTrue, Exists, VersionMatches
    <2>1. /\ Exists(req[q].case) /\ req[q].version <= version[req[q].case]
          /\ VersionMatches(q) => req[q].from = status[req[q].case]
          /\ <<req[q].from, req[q].to>> \in Transition
        BY <1>2 DEF Requests, ReadStillTrue
    <2>2. CASE req[q].case = c
        BY <1>1, <1>2, <2>1, <2>2
    <2>3. CASE req[q].case # c
        BY <1>0, <1>2, <2>1, <2>3 DEF Exists, VersionMatches
    <2> QED BY <2>2, <2>3
  <1>4. BegunAfterHistory'
    <2> SUFFICES ASSUME NEW q \in Request, InTransaction(q)'
                 PROVE  /\ req[q].begun <= clock
                        /\ version'[req[q].case] = req[q].version =>
                              \A i \in 1 .. Len(history'[req[q].case]) :
                                  history'[req[q].case][i].at <= req[q].begun
        BY <1>0 DEF BegunAfterHistory, VersionMatches
    <2>1. Reading(q)' /\ (pc[q] = pc'[q] => InTransaction(q))
        BY DEF InTransaction, Reading
    <2>2. /\ req[q].begun <= clock
          /\ VersionMatches(q) => \A i \in 1 .. Len(history[req[q].case]) :
                                      history[req[q].case][i].at <= req[q].begun
        BY <1>2, <2>1 DEF Requests, BegunAfterHistory
    <2>3. CASE req[q].case = c
        BY <1>2, <2>1, <2>2, <2>3
    <2>4. CASE req[q].case # c
        BY <1>0, <1>2, <2>1, <2>2, <2>4 DEF VersionMatches
    <2> QED BY <2>3, <2>4
  <1>5. HolderMatches'
    <2> SUFFICES ASSUME NEW q \in Request, pc'[q] = "locked"
                 PROVE  rowLock'[req[q].case] = q /\ version'[req[q].case] = req[q].version
        BY <1>0 DEF HolderMatches, VersionMatches
    <2>1. q # r /\ pc[q] = "locked" /\ req[q].case \in Case
        BY <1>0, RequestTyped
    <2>2. rowLock[req[q].case] = q /\ version[req[q].case] = req[q].version
        BY <2>1 DEF Requests, HolderMatches, VersionMatches
    <2> QED BY <1>0, <2>1, <2>2
  <1>6. HeldByLocked'
    <2> SUFFICES ASSUME NEW d \in Case, rowLock'[d] # Free
                 PROVE  pc'[rowLock'[d]] = "locked" /\ req[rowLock'[d]].case = d
        BY <1>0 DEF HeldByLocked
    <2>1. d # c /\ rowLock'[d] = rowLock[d] /\ rowLock[d] \in Request
        BY <1>0 DEF TypeOK
    <2>2. pc[rowLock[d]] = "locked" /\ req[rowLock[d]].case = d
        BY <2>1 DEF Requests, HeldByLocked
    <2> QED BY <1>0, <2>1, <2>2
  <1> QED BY <1>3, <1>4, <1>5, <1>6 DEF Requests

-----------------------------------------------------------------------------
LEMMA InitInvariant == Init => Requests /\ Records
  <1> SUFFICES ASSUME Init PROVE Requests /\ Records
      OBVIOUS
  <1>1. /\ \A r \in Request : pc[r] = "idle"
        /\ \A c \in Case : rowLock[c] = Free /\ history[c] = <<>>
      BY DEF Init
  <1>2. Requests
      BY <1>1 DEF Requests, ReadStillTrue, BegunAfterHistory, HolderMatches, HeldByLocked,
                  Reading, InTransaction
  <1>3. Records
      BY <1>1 DEF Records, HistoryIsWalk, EventsAreMoves, HistoryInTimeOrder, PastTimes, Exists
  <1> QED BY <1>2, <1>3

LEMMA NextInvariant == TypeOK /\ TypeOK' /\ Requests /\ Records /\ [Next]_vars => Requests' /\ Records'
  <1> SUFFICES ASSUME TypeOK, TypeOK', Requests, Records, [Next]_vars PROVE Requests' /\ Records'
      OBVIOUS
  <1>1. ASSUME NEW c \in Case, CreateCase(c) PROVE Requests' /\ Records'
      BY <1>1, CreateKeeps
  <1>2. ASSUME NEW r \in Request, NEW c \in Case, NEW to \in StatusKey, ReadAndCheck(r, c, to)
        PROVE  Requests' /\ Records'
      BY <1>2, ReadKeeps
  <1>3. ASSUME NEW r \in Request, Begin(r) PROVE Requests' /\ Records'
      BY <1>3, BeginKeeps
  <1>4. ASSUME NEW r \in Request, UpdateStatus(r) PROVE Requests' /\ Records'
      BY <1>4, UpdateKeeps
  <1>5. ASSUME NEW r \in Request, Commit(r) PROVE Requests' /\ Records'
      BY <1>5, CommitKeepsRequests, CommitKeepsRecords
  <1>6. ASSUME NEW r \in Request, Rollback(r) PROVE Requests' /\ Records'
      BY <1>6, RollbackKeeps
  <1>7. ASSUME NEW r \in Request, OptimisticLockError(r) \/ RecordAudit(r) \/ AuditLost(r)
        PROVE  Requests' /\ Records'
      BY <1>7, EndKeeps
  <1>8. CASE UNCHANGED vars
    <2>1. UNCHANGED rows /\ clock' >= clock
        BY <1>8 DEF vars, rows, TypeOK
    <2>2. Records'
        BY <2>1, RecordsKept
    <2>3. UNCHANGED <<status, version, history, rowLock, pc, req, clock>>
        BY <1>8 DEF vars
    <2>4. Requests'
        BY <2>3 DEF Requests, ReadStillTrue, BegunAfterHistory, HolderMatches, HeldByLocked,
                    Reading, InTransaction, VersionMatches, Exists
    <2> QED BY <2>2, <2>4
  <1> QED BY <1>1, <1>2, <1>3, <1>4, <1>5, <1>6, <1>7, <1>8 DEF Next, Advance

(* The inductive invariant holds of every behaviour. *)
THEOREM Invariance == Spec => []IInv
  <1>1. Init => Requests /\ Records
      BY InitInvariant
  <1>2. TypeOK /\ TypeOK' /\ Requests /\ Records /\ [Next]_vars => Requests' /\ Records'
      BY NextInvariant
  <1>3. Spec => [](TypeOK /\ Requests /\ Records)
      BY <1>1, <1>2, TypeCorrect, PTL DEF Spec
  <1> QED BY <1>3, PTL DEF IInv

(* Any number of overlapping changes of status leave a history that is a     *)
(* walk in the matrix and ends at the case's status: no lost update          *)
(* (repair-case.service.ts, changeStatus).                                   *)
THEOREM NoLostUpdate == Spec => []HistoryIsWalk
  <1>1. IInv => HistoryIsWalk
      BY DEF IInv, Records
  <1> QED BY <1>1, Invariance, PTL

(* What the outbox announces of a case is its history: the event of a change *)
(* is committed with it, and its fromStatusKey is the status left.           *)
THEOREM Announced == Spec => []EventsAreMoves
  <1>1. IInv => EventsAreMoves
      BY DEF IInv, Records
  <1> QED BY <1>1, Invariance, PTL

(* changed_at orders the history as the changes took effect. *)
THEOREM TimeOrder == Spec => []HistoryInTimeOrder
  <1>1. IInv => HistoryInTimeOrder
      BY DEF IInv, Records
  <1> QED BY <1>1, Invariance, PTL

-----------------------------------------------------------------------------
(* The audit log, which is written after the commit and may be lost.         *)
InFlight(c) == {r \in Request : pc[r] = "committed" /\ req[r].case = c}
Opened(c) == IF Exists(c) THEN 1 ELSE 0

AuditInv ==
    \A c \in Case :
        /\ IsFiniteSet(InFlight(c))
        /\ ~Exists(c) => events[c] = <<>>
        /\ Len(events[c]) = Opened(c) + Len(audit[c]) + unlogged[c] + Cardinality(InFlight(c))

(* The lengths and counts that AuditInv adds up are natural numbers. *)
LEMMA CountsTyped ==
    ASSUME TypeOK, AuditInv, NEW c \in Case
    PROVE  /\ Len(events[c]) \in Nat /\ Len(audit[c]) \in Nat /\ unlogged[c] \in Nat
           /\ Opened(c) \in Nat /\ Cardinality(InFlight(c)) \in Nat
  <1>1. Len(events[c]) \in Nat /\ Len(audit[c]) \in Nat /\ unlogged[c] \in Nat
    <2>1. events[c] \in Seq(Transition \cup {Creation}) /\ audit[c] \in Seq(Transition)
        BY DEF TypeOK
    <2> QED BY <2>1 DEF TypeOK
  <1>2. Cardinality(InFlight(c)) \in Nat
      BY FS_CardinalityType DEF AuditInv
  <1> QED BY <1>1, <1>2 DEF Opened

(* A step that neither commits nor ends a request after its commit changes   *)
(* nothing AuditInv speaks of.                                               *)
LEMMA AuditKept ==
    ASSUME AuditInv, UNCHANGED <<history, events, audit, unlogged>>,
           \A r \in Request : /\ pc'[r] = "committed" <=> pc[r] = "committed"
                              /\ pc[r] = "committed" => req'[r] = req[r]
    PROVE  AuditInv'
  <1> SUFFICES ASSUME NEW c \in Case
               PROVE  /\ IsFiniteSet(InFlight(c)')
                      /\ ~Exists(c)' => events'[c] = <<>>
                      /\ Len(events'[c]) = Opened(c)' + Len(audit'[c]) + unlogged'[c]
                                           + Cardinality(InFlight(c)')
      BY DEF AuditInv
  <1>1. InFlight(c)' = InFlight(c)
      BY DEF InFlight
  <1>2. (Exists(c)' <=> Exists(c)) /\ Opened(c)' = Opened(c)
      BY DEF Exists, Opened
  <1> QED BY <1>1, <1>2 DEF AuditInv

(* Commit adds an event and a request that owes its audit entry.             *)
LEMMA AuditOfCommit ==
    ASSUME TypeOK, TypeOK', Requests, Records, AuditInv, NEW r \in Request, Commit(r)
    PROVE  AuditInv'
  <1>1. PICK c \in Case : c = req[r].case
      BY RequestTyped
  <1>2. Committed(r, c) /\ UNCHANGED <<audit, unlogged>>
      BY <1>1, CommitEffect DEF Commit
  <1>3. history'[c] # <<>>
    <2>1. PICK at \in req[r].begun .. clock :
              history'[c] = Append(history[c], [status |-> req[r].to, at |-> at])
        BY <1>2 DEF Committed
    <2>2. history[c] \in Seq(HistoryRow)
        BY DEF TypeOK
    <2>3. Len(history'[c]) = Len(history[c]) + 1 /\ Len(history[c]) \in Nat
        BY <2>1, <2>2
    <2> QED BY <2>3
  <1>4. Len(events'[c]) = Len(events[c]) + 1
    <2>1. events[c] \in Seq(Transition \cup {Creation})
        BY DEF TypeOK
    <2> QED BY <1>2, <2>1 DEF Committed
  <1>5. \A d \in Case : InFlight(d)' = IF d = c THEN InFlight(d) \cup {r} ELSE InFlight(d)
      BY <1>1, <1>2 DEF Committed, InFlight
  <1>6. r \notin InFlight(c)
      BY <1>2 DEF Committed, InFlight
  <1> SUFFICES ASSUME NEW d \in Case
               PROVE  /\ IsFiniteSet(InFlight(d)')
                      /\ ~Exists(d)' => events'[d] = <<>>
                      /\ Len(events'[d]) = Opened(d)' + Len(audit'[d]) + unlogged'[d]
                                           + Cardinality(InFlight(d)')
      BY DEF AuditInv
  <1>7. CASE d = c
    <2>1. IsFiniteSet(InFlight(c)') /\ Cardinality(InFlight(c)') = Cardinality(InFlight(c)) + 1
        BY <1>5, <1>6, FS_AddElement DEF AuditInv
    <2>2. Exists(c)' /\ Opened(c)' = 1 /\ Opened(c) = 1
        BY <1>2, <1>3 DEF Exists, Opened, Committed
    <2>3. audit'[c] = audit[c] /\ unlogged'[c] = unlogged[c]
        BY <1>2
    <2>4. Len(events[c]) = Opened(c) + Len(audit[c]) + unlogged[c] + Cardinality(InFlight(c))
        BY DEF AuditInv
    <2>5. /\ Len(audit[c]) \in Nat /\ unlogged[c] \in Nat /\ Cardinality(InFlight(c)) \in Nat
        BY CountsTyped
    <2>6. Len(events'[c]) = Opened(c)' + Len(audit'[c]) + unlogged'[c] + Cardinality(InFlight(c)')
      <3>1. PICK e0, e1, o, a, u, n :
                /\ e0 = Len(events[c]) /\ e1 = Len(events'[c]) /\ o = Opened(c)
                /\ a = Len(audit[c]) /\ u = unlogged[c] /\ n = Cardinality(InFlight(c))
          OBVIOUS
      <3>2. e1 = e0 + 1 /\ e0 = o + a + u + n
          BY <1>4, <2>4, <3>1
      <3>3. o \in Nat /\ a \in Nat /\ u \in Nat /\ n \in Nat
          BY <2>2, <2>5, <3>1
      <3>4. e1 = o + a + u + (n + 1)
          BY <3>2, <3>3
      <3>5. Opened(c)' = o /\ Len(audit'[c]) = a /\ unlogged'[c] = u
          BY <2>2, <2>3, <3>1
      <3>6. Cardinality(InFlight(c)') = n + 1
          BY <2>1, <3>1
      <3> QED BY <3>1, <3>4, <3>5, <3>6
    <2> QED BY <1>7, <2>1, <2>2, <2>6
  <1>8. CASE d # c
    <2>1. InFlight(d)' = InFlight(d) /\ history'[d] = history[d] /\ events'[d] = events[d]
        BY <1>2, <1>5, <1>8 DEF Committed
    <2>2. (Exists(d)' <=> Exists(d)) /\ Opened(d)' = Opened(d)
        BY <2>1 DEF Exists, Opened
    <2> QED BY <1>2, <2>1, <2>2 DEF AuditInv
  <1> QED BY <1>7, <1>8

(* The audit entry is written, or lost and counted.                          *)
LEMMA AuditOfEnd ==
    ASSUME TypeOK, TypeOK', AuditInv, NEW r \in Request, RecordAudit(r) \/ AuditLost(r)
    PROVE  AuditInv'
  <1>1. PICK c \in Case : c = req[r].case
      BY RequestTyped
  <1>2. /\ pc[r] = "committed" /\ pc'[r] = "idle" /\ UNCHANGED <<history, events, req>>
        /\ \A q \in Request : q # r => pc'[q] = pc[q]
      BY DEF RecordAudit, AuditLost, rows, TypeOK
  <1>3. Len(audit'[c]) + unlogged'[c] = Len(audit[c]) + unlogged[c] + 1
    <2>1. audit[c] \in Seq(Transition) /\ Len(audit[c]) \in Nat /\ unlogged[c] \in Nat
        BY DEF TypeOK
    <2>2. CASE RecordAudit(r)
      <3>1. audit'[c] = Append(audit[c], <<req[r].from, req[r].to>>) /\ unlogged' = unlogged
          BY <1>1, <2>2 DEF RecordAudit, TypeOK
      <3>2. Len(audit'[c]) = Len(audit[c]) + 1
          BY <2>1, <3>1
      <3>3. unlogged'[c] = unlogged[c]
          BY <3>1
      <3>4. Len(audit[c]) \in Nat /\ unlogged[c] \in Nat
          BY <2>1
      <3> QED BY <3>2, <3>3, <3>4
    <2>3. CASE AuditLost(r)
      <3>1. audit' = audit /\ unlogged'[c] = unlogged[c] + 1
          BY <1>1, <2>3 DEF AuditLost, TypeOK
      <3> QED BY <2>1, <3>1
    <2> QED BY <2>2, <2>3
  <1>4. \A d \in Case : d # c => audit'[d] = audit[d] /\ unlogged'[d] = unlogged[d]
      BY <1>1 DEF RecordAudit, AuditLost, TypeOK
  <1>5. \A d \in Case : InFlight(d)' = IF d = c THEN InFlight(d) \ {r} ELSE InFlight(d)
      BY <1>1, <1>2 DEF InFlight
  <1>6. r \in InFlight(c)
      BY <1>1, <1>2 DEF InFlight
  <1> SUFFICES ASSUME NEW d \in Case
               PROVE  /\ IsFiniteSet(InFlight(d)')
                      /\ ~Exists(d)' => events'[d] = <<>>
                      /\ Len(events'[d]) = Opened(d)' + Len(audit'[d]) + unlogged'[d]
                                           + Cardinality(InFlight(d)')
      BY DEF AuditInv
  <1>7. events'[d] = events[d] /\ (Exists(d)' <=> Exists(d)) /\ Opened(d)' = Opened(d)
      BY <1>2 DEF Exists, Opened
  <1>8. CASE d = c
    <2>1. IsFiniteSet(InFlight(c)') /\ Cardinality(InFlight(c)') = Cardinality(InFlight(c)) - 1
        BY <1>5, <1>6, FS_RemoveElement DEF AuditInv
    <2>2. Len(events[c]) = Opened(c) + Len(audit[c]) + unlogged[c] + Cardinality(InFlight(c))
        BY DEF AuditInv
    <2>3. Len(audit'[c]) \in Nat /\ unlogged'[c] \in Nat
      <3>1. audit'[c] \in Seq(Transition)
          BY DEF TypeOK
      <3> QED BY <3>1 DEF TypeOK
    <2>4. Len(events'[c]) = Opened(c)' + Len(audit'[c]) + unlogged'[c] + Cardinality(InFlight(c)')
      <3>1. /\ Len(audit[c]) \in Nat /\ unlogged[c] \in Nat
            /\ Opened(c) \in Nat /\ Cardinality(InFlight(c)) \in Nat
          BY CountsTyped
      <3>2. events'[c] = events[c] /\ Opened(c)' = Opened(c)
          BY <1>7, <1>8
      <3>3. PICK n1 : n1 = Cardinality(InFlight(c)')
          OBVIOUS
      <3>4. PICK o1 : o1 = Opened(c)'
          OBVIOUS
      <3>5. n1 = Cardinality(InFlight(c)) - 1 /\ o1 = Opened(c)
          BY <2>1, <3>2, <3>3, <3>4
      <3>6. Len(events'[c]) = o1 + Len(audit'[c]) + unlogged'[c] + n1
        <4>1. Len(events'[c]) = Len(events[c])
            BY <3>2
        <4>2. PICK o, a, u, n : /\ o = Opened(c) /\ o \in Nat /\ a = Len(audit[c]) /\ a \in Nat
                                /\ u = unlogged[c] /\ u \in Nat
                                /\ n = Cardinality(InFlight(c)) /\ n \in Nat
            BY <3>1
        <4>3. PICK a1, u1 : a1 = Len(audit'[c]) /\ a1 \in Nat /\ u1 = unlogged'[c] /\ u1 \in Nat
            BY <2>3
        <4>4. /\ n1 = n - 1 /\ o1 = o /\ a1 + u1 = a + u + 1
              /\ Len(events[c]) = o + a + u + n
            BY <1>3, <2>2, <3>5, <4>2, <4>3
        <4>5. o \in Nat /\ a \in Nat /\ u \in Nat /\ n \in Nat /\ a1 \in Nat /\ u1 \in Nat
            BY <4>2, <4>3
        <4>6. o + a + u + n = o1 + a1 + u1 + n1
            BY <4>4, <4>5
        <4> QED BY <4>1, <4>3, <4>4, <4>6
      <3> QED BY <3>3, <3>4, <3>6
    <2>5. ~Exists(c)' => events'[c] = <<>>
        BY <1>7, <1>8 DEF AuditInv
    <2> QED BY <1>8, <2>1, <2>4, <2>5
  <1>9. CASE d # c
      BY <1>4, <1>5, <1>7, <1>9 DEF AuditInv
  <1> QED BY <1>8, <1>9

(* A new case has its creation announced, and no change of status.           *)
LEMMA AuditOfCreation ==
    ASSUME TypeOK, AuditInv, NEW c \in Case, CreateCase(c)
    PROVE  AuditInv'
  <1>1. /\ ~Exists(c) /\ UNCHANGED <<audit, unlogged, pc, req>>
        /\ history'[c] = <<[status |-> FirstStatus, at |-> clock]>> /\ events'[c] = <<Creation>>
        /\ \A d \in Case : d # c => history'[d] = history[d] /\ events'[d] = events[d]
      BY DEF CreateCase, TypeOK
  <1>2. \A d \in Case : InFlight(d)' = InFlight(d)
      BY <1>1 DEF InFlight
  <1> SUFFICES ASSUME NEW d \in Case
               PROVE  /\ IsFiniteSet(InFlight(d)')
                      /\ ~Exists(d)' => events'[d] = <<>>
                      /\ Len(events'[d]) = Opened(d)' + Len(audit'[d]) + unlogged'[d]
                                           + Cardinality(InFlight(d)')
      BY DEF AuditInv
  <1>3. CASE d = c
    <2>1. Exists(c)' /\ Opened(c)' = 1 /\ Opened(c) = 0
        BY <1>1 DEF Exists, Opened
    <2>2. Len(events'[c]) = 1 /\ Len(events[c]) = 0
      <3>1. events[c] = <<>>
          BY <1>1 DEF AuditInv
      <3> QED BY <1>1, <3>1
    <2>3. Len(events[c]) = Opened(c) + Len(audit[c]) + unlogged[c] + Cardinality(InFlight(c))
        BY DEF AuditInv
    <2>4. Len(events'[c]) = Opened(c)' + Len(audit'[c]) + unlogged'[c] + Cardinality(InFlight(c)')
        BY <1>1, <1>2, <2>1, <2>2, <2>3, CountsTyped
    <2> QED BY <1>2, <1>3, <2>1, <2>4 DEF AuditInv
  <1>4. CASE d # c
    <2>1. (Exists(d)' <=> Exists(d)) /\ Opened(d)' = Opened(d)
        BY <1>1, <1>4 DEF Exists, Opened
    <2> QED BY <1>1, <1>2, <1>4, <2>1 DEF AuditInv
  <1> QED BY <1>3, <1>4

(* Every committed change of status has its audit entry, is about to get it  *)
(* or lost it to a failure after the commit (ADR-021), however many requests *)
(* overlap.                                                                  *)
THEOREM EveryChangeAudited == Spec => []AuditAccounted
  <1>1. Init => AuditInv
    <2> SUFFICES ASSUME Init, NEW c \in Case
                 PROVE  /\ IsFiniteSet(InFlight(c))
                        /\ ~Exists(c) => events[c] = <<>>
                        /\ Len(events[c]) = Opened(c) + Len(audit[c]) + unlogged[c]
                                            + Cardinality(InFlight(c))
        BY DEF AuditInv
    <2>1. InFlight(c) = {}
        BY DEF Init, InFlight
    <2>2. events[c] = <<>> /\ audit[c] = <<>> /\ unlogged[c] = 0 /\ Opened(c) = 0
        BY DEF Init, Exists, Opened
    <2> QED BY <2>1, <2>2, FS_EmptySet
  <1>2. IInv /\ IInv' /\ AuditInv /\ [Next]_vars => AuditInv'
    <2> SUFFICES ASSUME IInv, IInv', AuditInv, [Next]_vars PROVE AuditInv'
        OBVIOUS
    <2>0. TypeOK /\ TypeOK' /\ Requests /\ Records
        BY DEF IInv
    <2>1. ASSUME NEW c \in Case, CreateCase(c) PROVE AuditInv'
        BY <2>0, <2>1, AuditOfCreation
    <2>2. ASSUME NEW r \in Request, Commit(r) PROVE AuditInv'
        BY <2>0, <2>2, AuditOfCommit
    <2>3. ASSUME NEW r \in Request, RecordAudit(r) \/ AuditLost(r) PROVE AuditInv'
        BY <2>0, <2>3, AuditOfEnd
    <2>4. ASSUME NEW r \in Request, NEW c \in Case, NEW to \in StatusKey, ReadAndCheck(r, c, to)
          PROVE  AuditInv'
        BY <2>0, <2>4, AuditKept DEF ReadAndCheck, rows, TypeOK
    <2>5. ASSUME NEW r \in Request, Begin(r) \/ UpdateStatus(r) \/ OptimisticLockError(r) \/ Rollback(r)
          PROVE  AuditInv'
      <3>1. /\ UNCHANGED <<history, events, audit, unlogged>>
            /\ pc[r] # "committed" /\ pc'[r] # "committed"
            /\ \A q \in Request : q # r => pc'[q] = pc[q] /\ req'[q] = req[q]
          BY <2>0, <2>5 DEF Begin, UpdateStatus, OptimisticLockError, Rollback, rows, TypeOK
      <3> QED BY <3>1, AuditKept
    <2>6. CASE UNCHANGED vars
        BY <2>6, AuditKept DEF vars
    <2> QED BY <2>1, <2>2, <2>3, <2>4, <2>5, <2>6 DEF Next, Advance
  <1>3. AuditInv => AuditAccounted
    <2> SUFFICES ASSUME AuditInv, NEW c \in Case, Exists(c)
                 PROVE  Len(events[c]) = 1 + Len(audit[c]) + unlogged[c] + Cardinality(InFlight(c))
        BY DEF AuditAccounted, InFlight
    <2> QED BY DEF AuditInv, Opened
  <1> QED BY <1>1, <1>2, <1>3, Invariance, PTL DEF Spec

-----------------------------------------------------------------------------
(* Refinement: the path of a case is the sequence of statuses in its history. *)
StatusesOf(h) == [i \in 1 .. Len(h) |-> h[i].status]
Path == [c \in Case |-> StatusesOf(history[c])]

LEMMA StatusesGrow ==
    ASSUME NEW h \in Seq(HistoryRow), NEW x \in HistoryRow
    PROVE  StatusesOf(Append(h, x)) = Append(StatusesOf(h), x.status)
  <1> DEFINE g == Append(h, x)
  <1>1. /\ Len(h) \in Nat /\ Len(g) = Len(h) + 1 /\ g[Len(h) + 1] = x
        /\ \A i \in 1 .. Len(h) : g[i] = h[i]
      OBVIOUS
  <1>2. StatusesOf(h) \in Seq(StatusKey) /\ Len(StatusesOf(h)) = Len(h)
    <2>1. \A i \in 1 .. Len(h) : h[i].status \in StatusKey
      <3> TAKE i \in 1 .. Len(h)
      <3>1. h[i] \in HistoryRow
          OBVIOUS
      <3> QED BY <3>1 DEF HistoryRow
    <2> QED BY <1>1, <2>1 DEF StatusesOf
  <1>3. x.status \in StatusKey
      BY DEF HistoryRow
  <1>4. Append(StatusesOf(h), x.status) =
           [i \in 1 .. Len(h) + 1 |-> IF i = Len(h) + 1 THEN x.status ELSE StatusesOf(h)[i]]
      BY <1>1, <1>2, <1>3
  <1>5. StatusesOf(g) = [i \in 1 .. Len(h) + 1 |-> g[i].status]
      BY <1>1 DEF StatusesOf
  <1>6. \A i \in 1 .. Len(h) + 1 :
            g[i].status = IF i = Len(h) + 1 THEN x.status ELSE StatusesOf(h)[i]
    <2> HIDE DEF g
    <2> TAKE i \in 1 .. Len(h) + 1
    <2>1. CASE i = Len(h) + 1
        BY <1>1, <2>1
    <2>2. CASE i # Len(h) + 1
      <3>1. i \in 1 .. Len(h)
          BY <1>1, <2>2
      <3> QED BY <1>1, <2>2, <3>1 DEF StatusesOf
    <2> QED BY <2>1, <2>2
  <1> HIDE DEF g
  <1>7. StatusesOf(g) = Append(StatusesOf(h), x.status)
      BY <1>4, <1>5, <1>6
  <1> QED BY <1>7 DEF g

LEMMA RefinesInit == Init => Path = [c \in Case |-> <<>>] /\ events = [c \in Case |-> <<>>]
  <1>1. StatusesOf(<<>>) = <<>>
      BY DEF StatusesOf
  <1> QED BY <1>1 DEF Init, Path

(* Only CreateCase and Commit are seen: as Open and Move. *)
LEMMA RefinesCreate ==
    ASSUME TypeOK, NEW c \in Case, CreateCase(c)
    PROVE  /\ Path[c] = <<>> /\ Path' = [Path EXCEPT ![c] = <<FirstStatus>>]
           /\ events' = [events EXCEPT ![c] = <<<<NoStatus, FirstStatus>>>>]
  <1>1. /\ history[c] = <<>>
        /\ history' = [history EXCEPT ![c] = <<[status |-> FirstStatus, at |-> clock]>>]
        /\ events' = [events EXCEPT ![c] = <<<<NoStatus, FirstStatus>>>>]
      BY DEF CreateCase, Exists, Creation
  <1>2. StatusesOf(<<>>) = <<>>
      BY DEF StatusesOf
  <1>3. StatusesOf(<<[status |-> FirstStatus, at |-> clock]>>) = <<FirstStatus>>
      BY DEF StatusesOf
  <1>4. \A d \in Case : StatusesOf(history'[d]) = IF d = c THEN <<FirstStatus>> ELSE StatusesOf(history[d])
      BY <1>1, <1>3 DEF TypeOK
  <1>5. Path' = [d \in Case |-> StatusesOf(history'[d])]
      BY DEF Path
  <1> QED BY <1>1, <1>2, <1>4, <1>5 DEF Path

LEMMA RefinesCommit ==
    ASSUME TypeOK, Requests, Records, NEW r \in Request, Commit(r)
    PROVE  \E c \in Case, to \in StatusKey :
              LET from == Path[c][Len(Path[c])]
              IN  /\ Path[c] # <<>> /\ <<from, to>> \in Transition
                  /\ Path' = [Path EXCEPT ![c] = Append(@, to)]
                  /\ events' = [events EXCEPT ![c] = Append(@, <<from, to>>)]
  <1> DEFINE c == req[r].case
             h == history[c]
             to == req[r].to
  <1>1. Committed(r, c)
      BY CommitEffect
  <1> HIDE DEF c
  <1>2. PICK at \in req[r].begun .. clock : history'[c] = Append(h, [status |-> to, at |-> at])
      BY <1>1 DEF Committed
  <1>3. c \in Case /\ to \in StatusKey /\ at \in Nat /\ h \in Seq(HistoryRow) /\ h # <<>>
    <2>1. to \in StatusKey /\ at \in Nat
      <3>1. req[r].to \in StatusKey /\ req[r].begun \in Nat
          BY RequestTyped
      <3> QED BY <3>1 DEF TypeOK
    <2> QED BY <1>1, <2>1 DEF Committed, TypeOK, Exists
  <1>4. [status |-> to, at |-> at] \in HistoryRow
      BY <1>3 DEF HistoryRow
  <1>5. StatusesOf(history'[c]) = Append(StatusesOf(h), to)
    <2> HIDE DEF h, to
    <2>1. StatusesOf(Append(h, [status |-> to, at |-> at])) = Append(StatusesOf(h), [status |-> to, at |-> at].status)
        BY <1>3, <1>4, StatusesGrow
    <2> QED BY <1>2, <2>1
  <1>6. Path[c] = StatusesOf(h)
      BY <1>3 DEF Path
  <1>7. Len(Path[c]) = Len(h) /\ Path[c] # <<>> /\ Path[c][Len(Path[c])] = status[c]
    <2>1. Len(h) \in Nat /\ Len(h) >= 1
        BY <1>3
    <2>2. h[Len(h)].status = status[c]
        BY <1>1 DEF Committed, Records, HistoryIsWalk
    <2>3. Len(StatusesOf(h)) = Len(h) /\ StatusesOf(h)[Len(h)] = h[Len(h)].status
        BY <2>1 DEF StatusesOf
    <2> HIDE DEF h
    <2>4. StatusesOf(h) # <<>>
        BY <2>1, <2>3
    <2> QED BY <1>6, <2>2, <2>3, <2>4
  <1>8. \A d \in Case : d # c => StatusesOf(history'[d]) = StatusesOf(history[d])
      BY <1>1 DEF Committed
  <1>9. Path' = [Path EXCEPT ![c] = Append(@, to)]
    <2>1. Path' = [d \in Case |-> StatusesOf(history'[d])]
        BY DEF Path
    <2> QED BY <1>3, <1>5, <1>8, <2>1 DEF Path
  <1>10. events' = [events EXCEPT ![c] = Append(@, <<status[c], to>>)]
    <2>1. events' = [events EXCEPT ![c] = Append(@, <<req[r].from, to>>)]
        BY DEF Commit, c
    <2> QED BY <1>1, <2>1 DEF Committed
  <1>11. <<status[c], to>> \in Transition
      BY <1>1 DEF Committed
  <1> QED BY <1>3, <1>7, <1>9, <1>10, <1>11

(* Repair cases implement the workshop's view of them (StatusWorkflow):      *)
(* whatever the interleaving, a committed change is one allowed, announced   *)
(* move.                                                                     *)
THEOREM Refinement == Spec => ImplementsWorkflow
  <1>1. Init => Workflow!Init
      BY RefinesInit DEF Workflow!Init, Path, StatusesOf
  <1>2. TypeOK /\ Requests /\ Records /\ [Next]_vars => [Workflow!Next]_(Workflow!vars)
    <2> SUFFICES ASSUME TypeOK, Requests, Records, [Next]_vars
                 PROVE  Workflow!Next \/ UNCHANGED Workflow!vars
        OBVIOUS
    <2>1. ASSUME NEW c \in Case, CreateCase(c) PROVE Workflow!Next
        BY <2>1, RefinesCreate DEF Workflow!Next, Workflow!Open, Path, StatusesOf
    <2>2. ASSUME NEW r \in Request, Commit(r) PROVE Workflow!Next
        BY <2>2, RefinesCommit DEF Workflow!Next, Workflow!Move, Path, StatusesOf
    <2>3. ASSUME UNCHANGED <<history, events>> PROVE UNCHANGED Workflow!vars
        BY <2>3 DEF Workflow!vars
    <2>4. ASSUME NEW r \in Request, NEW c \in Case, NEW to \in StatusKey, ReadAndCheck(r, c, to)
          PROVE  UNCHANGED <<history, events>>
        BY <2>4 DEF ReadAndCheck, rows
    <2>5. ASSUME NEW r \in Request, Begin(r) \/ UpdateStatus(r) \/ OptimisticLockError(r) \/ RecordAudit(r)
                                    \/ Rollback(r) \/ AuditLost(r)
          PROVE  UNCHANGED <<history, events>>
        BY <2>5 DEF Begin, UpdateStatus, OptimisticLockError, RecordAudit, Rollback, AuditLost, rows
    <2>6. CASE UNCHANGED vars
        BY <2>3, <2>6 DEF vars
    <2> QED BY <2>1, <2>2, <2>3, <2>4, <2>5, <2>6 DEF Next, Advance
  <1>3. Spec => [](TypeOK /\ Requests /\ Records)
    <2>1. IInv => TypeOK /\ Requests /\ Records
        BY DEF IInv
    <2> QED BY <2>1, Invariance, PTL
  <1> QED BY <1>1, <1>2, <1>3, PTL DEF Spec, ImplementsWorkflow, Workflow!Spec

=============================================================================
