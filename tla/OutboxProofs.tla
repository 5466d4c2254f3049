---------------------------- MODULE OutboxProofs ----------------------------
(***************************************************************************)
(* Proofs about Outbox, for any set of events, of processes, and any       *)
(* bounds.  The inductive invariant is Inv: its parts say who holds a row, *)
(* what a worker's copy of a row still tells about it, and what a worker   *)
(* has done when it is about to mark a row.                                *)
(***************************************************************************)
EXTENDS Outbox, TLAPS, WellFoundedInduction

(* locked_by is set on PROCESSING rows, and on no other. *)
LockedIffProcessing ==
    \A e \in Event : lockedBy[e] # NoWorker <=> status[e] = "PROCESSING"

(* A process has rows in hand exactly while it claims or handles them. *)
HandFull ==
    \A w \in Worker : batch[w] # {} <=> pc[w] \in Handling \cup {"commit"}

(* Rows under a FOR UPDATE lock stay PENDING, and have one lock each. *)
SelectedPending ==
    /\ \A w \in Worker : pc[w] = "commit" => \A e \in batch[w] : status[e] = "PENDING"
    /\ \A v, w \in Worker : pc[v] = "commit" /\ pc[w] = "commit" =>
          \A e \in Event : e \in batch[v] /\ e \in batch[w] => v = w

(* Unless a lock has expired, a worker holds, fresh, every row in its hand:  *)
(* all but one whose PROCESSED update was applied and reported as failed.    *)
HolderHandles ==
    lapses = 0 => \A w \in Worker : pc[w] \in Handling => \A e \in batch[w] :
        \/ status[e] = "PROCESSING" /\ lockedBy[e] = w /\ e \notin stale
        \/ status[e] = "PROCESSED" /\ e = Current(w) /\ pc[w] = "fail"

LockInv ==
    /\ LockedIffProcessing
    /\ HandFull
    /\ SelectedPending
    /\ HolderHandles
    /\ ExclusiveHandling

(* A row's copy is one attempt behind the row while its lock is held. *)
SeenIsOneBehind ==
    \A w \in Worker : \A e \in batch[w] :
        /\ pc[w] = "commit" => attempts[e] = seen[w][e]
        /\ pc[w] \in Handling /\ lockedBy[e] = w => attempts[e] = seen[w][e] + 1

(* Only the release of a stale lock makes an exhausted event PENDING. *)
WaitingHasAttemptsLeft ==
    \A e \in Event :
        status[e] \in {"absent", "PENDING"} => attempts[e] <= MaxAttempts + released[e]

AttemptsInv ==
    /\ SeenIsOneBehind
    /\ WaitingHasAttemptsLeft
    /\ AttemptsBounded
    /\ NoEarlyDeadLetter

(* What the handler has done at each of its steps. *)
HandlerProgress ==
    \A w \in Worker :
        /\ pc[w] \in {"send", "record"} => Current(w) \in EmailEvent
        /\ pc[w] = "record" => sent[Current(w)] > 0
        /\ pc[w] = "mark" =>
              /\ sent[Current(w)] > 0
              /\ Current(w) \in EmailEvent => audit[Current(w)] > 0

RecordedWasSent == \A e \in EmailEvent : audit[e] > 0 => sent[e] > 0

HandlingInv ==
    /\ HandlerProgress
    /\ RecordedWasSent
    /\ ProcessedWasHandled

(* What a process has in hand has been appended. *)
HandKnown == \A w \in Worker : \A e \in batch[w] : status[e] # "absent"

Inv == TypeOK /\ LockInv /\ AttemptsInv /\ HandlingInv /\ HandKnown
-----------------------------------------------------------------------------
(* Type correctness *)

(* A process with rows in hand has a current one, the earliest of them.      *)
LEMMA CurrentInBatch ==
    ASSUME TypeOK, NEW w \in Worker, batch[w] # {}
    PROVE  Current(w) \in batch[w]
<1> DEFINE R == {ss \in Nat \X Nat : ss[1] < ss[2]}
<1>1. IsWellFoundedOn(R, Nat)
  BY NatLessThanWellFounded DEF OpToRel
<1>2. batch[w] \subseteq Nat
  BY EventAssumption DEF TypeOK
<1>3. PICK e \in batch[w] : \A f \in batch[w] : ~(<<f, e>> \in R)
  <2> HIDE DEF R
  <2> QED BY <1>1, <1>2, WFMin
<1>4. ASSUME NEW f \in batch[w] PROVE e <= f
  <2>1. e \in Nat /\ f \in Nat
    BY <1>2
  <2>2. ~(f < e)
    BY <1>3, <2>1
  <2> QED BY <2>1, <2>2
<1> QED
  BY <1>4 DEF Current

(* A counter of events that is incremented still counts events.              *)
LEMMA CounterType ==
    ASSUME NEW f \in [Event -> Nat], NEW e
    PROVE  [f EXCEPT ![e] = @ + 1] \in [Event -> Nat]
<1>1. CASE e \in Event
  BY <1>1
<1>2. CASE e \notin Event
  BY <1>2
<1> QED BY <1>1, <1>2

(* Every step keeps the types of the columns and of the processes' locals.   *)
LEMMA TypeStep ==
    ASSUME TypeOK, [Next]_vars
    PROVE  TypeOK'
<1> USE WorkerAssumption, ParameterAssumption DEF TypeOK, Status, PC, rows
<1>1. ASSUME NEW e \in Event, Append(e) PROVE TypeOK'
  BY <1>1 DEF Append
<1>2. ASSUME NEW e \in Event, BackoffElapses(e) PROVE TypeOK'
  BY <1>2 DEF BackoffElapses
<1>3. ASSUME NEW w \in Worker, AbandonedLockExpires(w) PROVE TypeOK'
  BY <1>3 DEF AbandonedLockExpires, Abandoned, LockedBy
<1>4. ASSUME NEW w \in Worker, BatchLockExpires(w) PROVE TypeOK'
  BY <1>4 DEF BatchLockExpires, LockedBy
<1>5. ASSUME NEW w \in Worker, Start(w) PROVE TypeOK'
  BY <1>5 DEF Start
<1>6. ASSUME NEW w \in Worker, ReleaseStaleLocks(w) PROVE TypeOK'
  BY <1>6 DEF ReleaseStaleLocks
<1>7. ASSUME NEW w \in Worker, SelectForUpdate(w) PROVE TypeOK'
  <2>1. FirstDue \subseteq Event
    BY DEF FirstDue, Claimable
  <2>2. QED BY <1>7, <2>1 DEF SelectForUpdate
<1>8. ASSUME NEW w \in Worker, CommitClaim(w) PROVE TypeOK'
  BY <1>8 DEF CommitClaim
<1>9. ASSUME NEW w \in Worker, CheckAlreadyProcessed(w) PROVE TypeOK'
  BY <1>9 DEF CheckAlreadyProcessed
<1>10. ASSUME NEW w \in Worker, SendEmail(w) PROVE TypeOK'
  BY <1>10, CounterType DEF SendEmail
<1>11. ASSUME NEW w \in Worker, SendFails(w) PROVE TypeOK'
  BY <1>11 DEF SendFails
<1>12. ASSUME NEW w \in Worker, RecordProcessed(w) PROVE TypeOK'
  BY <1>12, CounterType DEF RecordProcessed
<1>13. ASSUME NEW w \in Worker, HandleOther(w) PROVE TypeOK'
  BY <1>13, CounterType DEF HandleOther
<1>14. ASSUME NEW w \in Worker, MarkProcessed(w) PROVE TypeOK'
  BY <1>14 DEF MarkProcessed, UpdateProcessed, Unlock, NextRow
<1>15. ASSUME NEW w \in Worker, DeadLetter(w) PROVE TypeOK'
  BY <1>15 DEF DeadLetter, Unlock, NextRow
<1>16. ASSUME NEW w \in Worker, RetryLater(w) PROVE TypeOK'
  BY <1>16 DEF RetryLater, Unlock, NextRow
<1>17. ASSUME NEW w \in Worker, Exit(w) PROVE TypeOK'
  BY <1>17 DEF Exit
<1>18. ASSUME NEW w \in Worker, IterationFails(w) PROVE TypeOK'
  BY <1>18 DEF IterationFails, Fault
<1>19. ASSUME NEW w \in Worker, HandlerCallFails(w) PROVE TypeOK'
  BY <1>19 DEF HandlerCallFails, Fault
<1>20. ASSUME NEW w \in Worker, MarkFails(w) PROVE TypeOK'
  BY <1>20 DEF MarkFails, Fault, UpdateProcessed, Unlock
<1>21. ASSUME NEW w \in Worker, CatchFails(w) PROVE TypeOK'
  BY <1>21 DEF CatchFails, Fault
<1>22. ASSUME NEW w \in Worker, Crash(w) PROVE TypeOK'
  BY <1>22 DEF Crash
<1>23. ASSUME NEW w \in Worker, Shutdown(w) PROVE TypeOK'
  BY <1>23 DEF Shutdown
<1>24. CASE UNCHANGED vars
  BY <1>24 DEF vars
<1> QED
  BY <1>1, <1>2, <1>3, <1>4, <1>5, <1>6, <1>7, <1>8, <1>9, <1>10, <1>11, <1>12, <1>13,
     <1>14, <1>15, <1>16, <1>17, <1>18, <1>19, <1>20, <1>21, <1>22, <1>23, <1>24
     DEF Next, Step, Disturbance

(* The columns of the rows and the locals of the workers keep their types.   *)
THEOREM TypeCorrect == Spec => []TypeOK
<1>1. Init => TypeOK
  BY WorkerAssumption DEF Init, TypeOK, Status, PC
<1>2. TypeOK /\ [Next]_vars => TypeOK'
  BY TypeStep
<1>3. QED BY <1>1, <1>2, PTL DEF Spec

(* Leaving a row, written by its holder or not, keeps the locks in order.    *)
LEMMA RowDoneKeepsLocks ==
    ASSUME TypeOK, TypeOK', LockInv, NEW w \in Worker, NEW new,
           pc[w] \in {"mark", "fail"}, new # "PROCESSING", NextRow(w), lapses' = lapses,
           \/ UNCHANGED <<status, lockedBy, stale>>
           \/ lockedBy[Current(w)] = w /\ Unlock(Current(w), new)
    PROVE  LockInv'
<1> DEFINE c == Current(w)
<1>1. c \in batch[w] /\ c \in Event
  BY CurrentInBatch DEF LockInv, HandFull, Handling, TypeOK
<1>2. /\ \A v \in Worker : v # w => pc'[v] = pc[v] /\ batch'[v] = batch[v]
      /\ batch'[w] = batch[w] \ {c}
      /\ pc'[w] = IF batch[w] = {c} THEN "idle" ELSE "row"
  BY DEF NextRow, TypeOK
<1>3. \A e \in Event :
          \/ /\ status'[e] = status[e]
             /\ lockedBy'[e] = lockedBy[e]
             /\ e \in stale' <=> e \in stale
          \/ /\ e = c
             /\ lockedBy[e] = w
             /\ status'[e] = new
             /\ lockedBy'[e] = NoWorker
  BY DEF Unlock, TypeOK
<1> HIDE DEF c
<1>4. LockedIffProcessing'
  BY <1>3, WorkerAssumption DEF LockInv, LockedIffProcessing
<1>5. HandFull'
  <2>1. batch'[w] # {} <=> pc'[w] \in Handling \cup {"commit"}
    BY <1>1, <1>2 DEF Handling
  <2> QED BY <1>2, <2>1 DEF LockInv, HandFull
<1>6. SelectedPending'
  <2>1. \A e \in Event : lockedBy[e] = w => status[e] = "PROCESSING"
    BY WorkerAssumption DEF LockInv, LockedIffProcessing
  <2>2. \A v \in Worker : pc'[v] = "commit" => v # w
    BY <1>2
  <2>3. ASSUME NEW v \in Worker, pc'[v] = "commit", NEW e \in batch'[v] PROVE status'[e] = "PENDING"
    <3>1. e \in Event /\ status[e] = "PENDING"
      BY <1>2, <2>2, <2>3 DEF LockInv, SelectedPending, TypeOK
    <3> QED BY <1>3, <2>1, <3>1
  <2> QED BY <1>2, <2>2, <2>3 DEF LockInv, SelectedPending
<1>7. HolderHandles'
  <2>1. SUFFICES ASSUME lapses = 0, NEW v \in Worker, pc'[v] \in Handling, NEW e \in batch'[v]
                 PROVE  \/ status'[e] = "PROCESSING" /\ lockedBy'[e] = v /\ e \notin stale'
                        \/ status'[e] = "PROCESSED" /\ e = Current(v)' /\ pc'[v] = "fail"
    BY DEF HolderHandles
  <2>2. /\ e \in Event
        /\ e \in batch[v]
        /\ pc[v] \in Handling
    BY <1>2, <2>1 DEF TypeOK, Handling
  <2>3. e # c
    BY <1>1, <1>2, <2>1, <2>2 DEF LockInv, ExclusiveHandling
  <2>4. \/ status[e] = "PROCESSING" /\ lockedBy[e] = v /\ e \notin stale
        \/ status[e] = "PROCESSED" /\ e = Current(v) /\ pc[v] = "fail"
    BY <2>1, <2>2 DEF LockInv, HolderHandles
  <2>5. v # w => Current(v)' = Current(v)
    BY <1>2 DEF Current
  <2>6. /\ status'[e] = status[e]
        /\ lockedBy'[e] = lockedBy[e]
        /\ e \in stale' <=> e \in stale
    BY <1>3, <2>2, <2>3
  <2>7. CASE v = w
    BY <2>3, <2>4, <2>6, <2>7 DEF c
  <2>8. CASE v # w
    BY <1>2, <2>4, <2>5, <2>6, <2>8
  <2> QED BY <2>7, <2>8
<1>8. ExclusiveHandling'
  BY <1>2 DEF LockInv, ExclusiveHandling
<1> QED BY <1>4, <1>5, <1>6, <1>7, <1>8 DEF LockInv

(* Every step keeps the locks in order.                                      *)
LEMMA LockStep ==
    ASSUME TypeOK, TypeOK', LockInv, [Next]_vars
    PROVE  LockInv'
<1> USE WorkerAssumption DEF LockInv, LockedIffProcessing, HandFull, SelectedPending,
        HolderHandles, ExclusiveHandling, Handling, rows
<1>a. \A w \in Worker : batch[w] # {} => Current(w) \in batch[w]
  BY CurrentInBatch
<1>b. \A w \in Worker : batch'[w] = batch[w] => Current(w)' = Current(w)
  BY DEF Current
<1> USE DEF TypeOK
<1>1. ASSUME NEW e \in Event, Append(e) PROVE LockInv'
  BY <1>1, <1>a, <1>b DEF Append
<1>2. ASSUME NEW e \in Event, BackoffElapses(e) PROVE LockInv'
  BY <1>2, <1>a, <1>b DEF BackoffElapses
<1>3. ASSUME NEW w \in Worker, AbandonedLockExpires(w) PROVE LockInv'
  BY <1>3, <1>a, <1>b DEF AbandonedLockExpires, Abandoned, LockedBy
<1>4. ASSUME NEW w \in Worker, BatchLockExpires(w) PROVE LockInv'
  BY <1>4, <1>a, <1>b DEF BatchLockExpires, LockedBy
<1>5. ASSUME NEW w \in Worker, Start(w) PROVE LockInv'
  BY <1>5, <1>a, <1>b DEF Start
<1>6. ASSUME NEW w \in Worker, ReleaseStaleLocks(w) PROVE LockInv'
  BY <1>6, <1>a, <1>b DEF ReleaseStaleLocks
<1>7. ASSUME NEW w \in Worker, SelectForUpdate(w) PROVE LockInv'
  <2> HIDE DEF TypeOK, LockInv, LockedIffProcessing, HandFull, SelectedPending,
          HolderHandles, ExclusiveHandling
  <2>1. \A e \in FirstDue :
            /\ e \in Event
            /\ status[e] = "PENDING"
            /\ \A v \in Worker : pc[v] = "commit" => e \notin batch[v]
    BY DEF FirstDue, Claimable, RowLocked, TypeOK
  <2>2. /\ \A v \in Worker : v # w => pc'[v] = pc[v] /\ batch'[v] = batch[v]
        /\ batch'[w] = FirstDue
        /\ pc'[w] = IF FirstDue = {} THEN "idle" ELSE "commit"
        /\ UNCHANGED <<status, lockedBy, stale, lapses>>
    BY <1>7 DEF SelectForUpdate, TypeOK
  <2>3. LockedIffProcessing'
    BY <2>2 DEF LockInv, LockedIffProcessing
  <2>4. HandFull'
    BY <2>2 DEF LockInv, HandFull
  <2>5. SelectedPending'
    BY <2>1, <2>2 DEF LockInv, SelectedPending
  <2>6. HolderHandles'
    BY <2>2, <1>b DEF LockInv, HolderHandles
  <2>7. \A v \in Worker, e \in FirstDue : v # w /\ lapses = 0 => e \notin batch[v]
    BY <2>1 DEF LockInv, HandFull, HolderHandles
  <2>8. ExclusiveHandling'
    BY <2>2, <2>7 DEF LockInv, ExclusiveHandling
  <2> QED BY <2>3, <2>4, <2>5, <2>6, <2>8 DEF LockInv
<1>8. ASSUME NEW w \in Worker, CommitClaim(w) PROVE LockInv'
  BY <1>8, <1>a, <1>b DEF CommitClaim
<1>9. ASSUME NEW w \in Worker, CheckAlreadyProcessed(w) PROVE LockInv'
  BY <1>9, <1>a, <1>b DEF CheckAlreadyProcessed
<1>10. ASSUME NEW w \in Worker, SendEmail(w) PROVE LockInv'
  BY <1>10, <1>a, <1>b DEF SendEmail
<1>11. ASSUME NEW w \in Worker, SendFails(w) PROVE LockInv'
  BY <1>11, <1>a, <1>b DEF SendFails
<1>12. ASSUME NEW w \in Worker, RecordProcessed(w) PROVE LockInv'
  BY <1>12, <1>a, <1>b DEF RecordProcessed
<1>13. ASSUME NEW w \in Worker, HandleOther(w) PROVE LockInv'
  BY <1>13, <1>a, <1>b DEF HandleOther
<1>14. ASSUME NEW w \in Worker, MarkProcessed(w) PROVE LockInv'
  <2> HIDE DEF TypeOK, LockInv, LockedIffProcessing, HandFull, SelectedPending,
          HolderHandles, ExclusiveHandling
  <2>1. /\ pc[w] = "mark"
        /\ NextRow(w)
        /\ lapses' = lapses
        /\ \/ UNCHANGED <<status, lockedBy, stale>>
           \/ lockedBy[Current(w)] = w /\ Unlock(Current(w), "PROCESSED")
    BY <1>14 DEF MarkProcessed, UpdateProcessed, MarkMatches
  <2> QED BY <2>1, RowDoneKeepsLocks
<1>15. ASSUME NEW w \in Worker, DeadLetter(w) PROVE LockInv'
  <2> HIDE DEF TypeOK, LockInv, LockedIffProcessing, HandFull, SelectedPending,
          HolderHandles, ExclusiveHandling
  <2>1. /\ pc[w] = "fail"
        /\ NextRow(w)
        /\ lapses' = lapses
        /\ \/ UNCHANGED <<status, lockedBy, stale>>
           \/ lockedBy[Current(w)] = w /\ Unlock(Current(w), "FAILED")
    BY <1>15 DEF DeadLetter, CatchMatches
  <2> QED BY <2>1, RowDoneKeepsLocks
<1>16. ASSUME NEW w \in Worker, RetryLater(w) PROVE LockInv'
  <2> HIDE DEF TypeOK, LockInv, LockedIffProcessing, HandFull, SelectedPending,
          HolderHandles, ExclusiveHandling
  <2>1. /\ pc[w] = "fail"
        /\ NextRow(w)
        /\ lapses' = lapses
        /\ \/ UNCHANGED <<status, lockedBy, stale>>
           \/ lockedBy[Current(w)] = w /\ Unlock(Current(w), "PENDING")
    BY <1>16 DEF RetryLater, CatchMatches
  <2> QED BY <2>1, RowDoneKeepsLocks
<1>17. ASSUME NEW w \in Worker, Exit(w) PROVE LockInv'
  BY <1>17, <1>a, <1>b DEF Exit
<1>18. ASSUME NEW w \in Worker, IterationFails(w) PROVE LockInv'
  BY <1>18, <1>a, <1>b DEF IterationFails, Fault
<1>19. ASSUME NEW w \in Worker, HandlerCallFails(w) PROVE LockInv'
  BY <1>19, <1>a, <1>b DEF HandlerCallFails, Fault
<1>20. ASSUME NEW w \in Worker, MarkFails(w) PROVE LockInv'
  BY <1>20, <1>a, <1>b DEF MarkFails, Fault, UpdateProcessed, MarkMatches, Unlock
<1>21. ASSUME NEW w \in Worker, CatchFails(w) PROVE LockInv'
  BY <1>21, <1>a, <1>b DEF CatchFails, Fault
<1>22. ASSUME NEW w \in Worker, Crash(w) PROVE LockInv'
  BY <1>22, <1>a, <1>b DEF Crash
<1>23. ASSUME NEW w \in Worker, Shutdown(w) PROVE LockInv'
  BY <1>23, <1>a, <1>b DEF Shutdown
<1>24. CASE UNCHANGED vars
  BY <1>24, <1>b DEF vars
<1> QED
  BY <1>1, <1>2, <1>3, <1>4, <1>5, <1>6, <1>7, <1>8, <1>9, <1>10, <1>11, <1>12, <1>13,
     <1>14, <1>15, <1>16, <1>17, <1>18, <1>19, <1>20, <1>21, <1>22, <1>23, <1>24
     DEF Next, Step, Disturbance

(* Every step keeps the count of attempts in order.                          *)
LEMMA AttemptsStep ==
    ASSUME TypeOK, TypeOK', LockInv, AttemptsInv, [Next]_vars
    PROVE  AttemptsInv'
<1> USE WorkerAssumption, ParameterAssumption DEF AttemptsInv, SeenIsOneBehind,
        WaitingHasAttemptsLeft, AttemptsBounded, NoEarlyDeadLetter, Handling, rows
<1>a. /\ LockedIffProcessing
      /\ SelectedPending
      /\ \A w \in Worker : batch[w] # {} <=> pc[w] \in Handling \cup {"commit"}
      /\ \A w \in Worker : batch[w] # {} => Current(w) \in batch[w]
  BY CurrentInBatch DEF LockInv, HandFull
<1> USE DEF TypeOK, LockedIffProcessing, SelectedPending
<1>1. ASSUME NEW e \in Event, Append(e) PROVE AttemptsInv'
  BY <1>1, <1>a DEF Append
<1>2. ASSUME NEW e \in Event, BackoffElapses(e) PROVE AttemptsInv'
  BY <1>2, <1>a DEF BackoffElapses
<1>3. ASSUME NEW w \in Worker, AbandonedLockExpires(w) PROVE AttemptsInv'
  BY <1>3, <1>a DEF AbandonedLockExpires, Abandoned, LockedBy
<1>4. ASSUME NEW w \in Worker, BatchLockExpires(w) PROVE AttemptsInv'
  BY <1>4, <1>a DEF BatchLockExpires, LockedBy
<1>5. ASSUME NEW w \in Worker, Start(w) PROVE AttemptsInv'
  BY <1>5, <1>a DEF Start
<1>6. ASSUME NEW w \in Worker, ReleaseStaleLocks(w) PROVE AttemptsInv'
  BY <1>6, <1>a DEF ReleaseStaleLocks
<1>7. ASSUME NEW w \in Worker, SelectForUpdate(w) PROVE AttemptsInv'
  BY <1>7, <1>a DEF SelectForUpdate, FirstDue, Claimable, RowLocked
<1>8. ASSUME NEW w \in Worker, CommitClaim(w) PROVE AttemptsInv'
  BY <1>8, <1>a DEF CommitClaim
<1>9. ASSUME NEW w \in Worker, CheckAlreadyProcessed(w) PROVE AttemptsInv'
  BY <1>9, <1>a DEF CheckAlreadyProcessed
<1>10. ASSUME NEW w \in Worker, SendEmail(w) PROVE AttemptsInv'
  BY <1>10, <1>a DEF SendEmail
<1>11. ASSUME NEW w \in Worker, SendFails(w) PROVE AttemptsInv'
  BY <1>11, <1>a DEF SendFails
<1>12. ASSUME NEW w \in Worker, RecordProcessed(w) PROVE AttemptsInv'
  BY <1>12, <1>a DEF RecordProcessed
<1>13. ASSUME NEW w \in Worker, HandleOther(w) PROVE AttemptsInv'
  BY <1>13, <1>a DEF HandleOther
<1>14. ASSUME NEW w \in Worker, MarkProcessed(w) PROVE AttemptsInv'
  BY <1>14, <1>a DEF MarkProcessed, UpdateProcessed, MarkMatches, Unlock, NextRow
<1>15. ASSUME NEW w \in Worker, DeadLetter(w) PROVE AttemptsInv'
  BY <1>15, <1>a DEF DeadLetter, CatchMatches, Unlock, NextRow
<1>16. ASSUME NEW w \in Worker, RetryLater(w) PROVE AttemptsInv'
  BY <1>16, <1>a DEF RetryLater, CatchMatches, Unlock, NextRow
<1>17. ASSUME NEW w \in Worker, Exit(w) PROVE AttemptsInv'
  BY <1>17, <1>a DEF Exit
<1>18. ASSUME NEW w \in Worker, IterationFails(w) PROVE AttemptsInv'
  BY <1>18, <1>a DEF IterationFails, Fault
<1>19. ASSUME NEW w \in Worker, HandlerCallFails(w) PROVE AttemptsInv'
  BY <1>19, <1>a DEF HandlerCallFails, Fault
<1>20. ASSUME NEW w \in Worker, MarkFails(w) PROVE AttemptsInv'
  BY <1>20, <1>a DEF MarkFails, Fault, UpdateProcessed, MarkMatches, Unlock
<1>21. ASSUME NEW w \in Worker, CatchFails(w) PROVE AttemptsInv'
  BY <1>21, <1>a DEF CatchFails, Fault
<1>22. ASSUME NEW w \in Worker, Crash(w) PROVE AttemptsInv'
  BY <1>22, <1>a DEF Crash
<1>23. ASSUME NEW w \in Worker, Shutdown(w) PROVE AttemptsInv'
  BY <1>23, <1>a DEF Shutdown
<1>24. CASE UNCHANGED vars
  BY <1>24 DEF vars
<1> QED
  BY <1>1, <1>2, <1>3, <1>4, <1>5, <1>6, <1>7, <1>8, <1>9, <1>10, <1>11, <1>12, <1>13,
     <1>14, <1>15, <1>16, <1>17, <1>18, <1>19, <1>20, <1>21, <1>22, <1>23, <1>24
     DEF Next, Step, Disturbance

(* Incrementing the counter of an event leaves it positive, and the others.   *)
LEMMA CounterGrows ==
    ASSUME NEW f \in [Event -> Nat], NEW c \in Event
    PROVE  LET g == [f EXCEPT ![c] = @ + 1]
           IN  /\ g[c] > 0
               /\ \A e \in Event : (f[e] > 0 => g[e] > 0) /\ (e # c => g[e] = f[e])
OBVIOUS

(* Every step keeps the record of what each handler has done.                *)
LEMMA HandlingStep ==
    ASSUME TypeOK, TypeOK', LockInv, HandlingInv, [Next]_vars
    PROVE  HandlingInv'
<1> USE EventAssumption, WorkerAssumption DEF HandlingInv, HandlerProgress, RecordedWasSent,
        ProcessedWasHandled, Handling, rows
<1>a. \A w \in Worker :
          pc[w] \in Handling => Current(w) \in batch[w] /\ Current(w) \in Event
  BY CurrentInBatch DEF LockInv, HandFull, TypeOK
<1>b. \A w \in Worker : batch'[w] = batch[w] => Current(w)' = Current(w)
  BY DEF Current
<1>c. SelectedPending
  BY DEF LockInv
<1> USE DEF TypeOK, SelectedPending
<1>1. ASSUME NEW e \in Event, Append(e) PROVE HandlingInv'
  BY <1>1, <1>a, <1>b, <1>c DEF Append
<1>2. ASSUME NEW e \in Event, BackoffElapses(e) PROVE HandlingInv'
  BY <1>2, <1>a, <1>b, <1>c DEF BackoffElapses
<1>3. ASSUME NEW w \in Worker, AbandonedLockExpires(w) PROVE HandlingInv'
  BY <1>3, <1>a, <1>b, <1>c DEF AbandonedLockExpires, Abandoned, LockedBy
<1>4. ASSUME NEW w \in Worker, BatchLockExpires(w) PROVE HandlingInv'
  BY <1>4, <1>a, <1>b, <1>c DEF BatchLockExpires, LockedBy
<1>5. ASSUME NEW w \in Worker, Start(w) PROVE HandlingInv'
  BY <1>5, <1>a, <1>b, <1>c DEF Start
<1>6. ASSUME NEW w \in Worker, ReleaseStaleLocks(w) PROVE HandlingInv'
  BY <1>6, <1>a, <1>b, <1>c DEF ReleaseStaleLocks
<1>7. ASSUME NEW w \in Worker, SelectForUpdate(w) PROVE HandlingInv'
  BY <1>7, <1>a, <1>b, <1>c DEF SelectForUpdate, FirstDue, Claimable, RowLocked
<1>8. ASSUME NEW w \in Worker, CommitClaim(w) PROVE HandlingInv'
  BY <1>8, <1>a, <1>b, <1>c DEF CommitClaim
<1>9. ASSUME NEW w \in Worker, CheckAlreadyProcessed(w) PROVE HandlingInv'
  <2> HIDE DEF HandlingInv, HandlerProgress, RecordedWasSent, ProcessedWasHandled, TypeOK,
          SelectedPending
  <2>1. /\ \A v \in Worker : Current(v)' = Current(v)
        /\ \A v \in Worker : v # w => pc'[v] = pc[v]
        /\ Current(w) \in EmailEvent
        /\ pc'[w] = IF audit[Current(w)] > 0 THEN "mark" ELSE "send"
        /\ UNCHANGED <<status, sent, audit>>
    BY <1>9, <1>a, <1>b DEF CheckAlreadyProcessed, TypeOK
  <2>2. HandlerProgress'
    BY <2>1 DEF HandlingInv, HandlerProgress, RecordedWasSent
  <2>3. RecordedWasSent' /\ ProcessedWasHandled'
    BY <2>1 DEF HandlingInv, RecordedWasSent, ProcessedWasHandled
  <2> QED BY <2>2, <2>3 DEF HandlingInv
<1>10. ASSUME NEW w \in Worker, SendEmail(w) PROVE HandlingInv'
  <2> HIDE DEF HandlingInv, HandlerProgress, RecordedWasSent, ProcessedWasHandled, TypeOK,
          SelectedPending
  <2>1. /\ \A v \in Worker : Current(v)' = Current(v)
        /\ \A v \in Worker : v # w => pc'[v] = pc[v]
        /\ pc[w] = "send" /\ pc'[w] = "record"
        /\ Current(w) \in Event
    BY <1>10, <1>a, <1>b DEF SendEmail, TypeOK
  <2>2. /\ sent \in [Event -> Nat] /\ sent' \in [Event -> Nat]
        /\ audit \in [Event -> Nat] /\ audit' \in [Event -> Nat]
        /\ \A v \in Worker : pc[v] \in Handling => Current(v) \in Event
    BY <1>a DEF TypeOK
  <2>3. /\ \A e \in Event : sent[e] > 0 => sent'[e] > 0
        /\ sent'[Current(w)] > 0
        /\ UNCHANGED <<status, audit>>
    BY <1>10, <2>1, <2>2, CounterGrows DEF SendEmail
  <2>4. Current(w) \in EmailEvent /\ (pc[w] = "record" => sent[Current(w)] > 0)
    BY <2>1 DEF HandlingInv, HandlerProgress
  <2>5. HandlerProgress'
    BY <2>1, <2>2, <2>3, <2>4 DEF HandlingInv, HandlerProgress
  <2>6. RecordedWasSent'
    BY <2>1, <2>2, <2>3, <2>4, EventAssumption DEF HandlingInv, RecordedWasSent
  <2>7. ProcessedWasHandled'
    BY <2>2, <2>3, EventAssumption DEF HandlingInv, ProcessedWasHandled
  <2> QED BY <2>5, <2>6, <2>7 DEF HandlingInv
<1>11. ASSUME NEW w \in Worker, SendFails(w) PROVE HandlingInv'
  BY <1>11, <1>a, <1>b, <1>c DEF SendFails
<1>12. ASSUME NEW w \in Worker, RecordProcessed(w) PROVE HandlingInv'
  <2> HIDE DEF HandlingInv, HandlerProgress, RecordedWasSent, ProcessedWasHandled, TypeOK,
          SelectedPending
  <2>1. /\ \A v \in Worker : Current(v)' = Current(v)
        /\ \A v \in Worker : v # w => pc'[v] = pc[v]
        /\ pc[w] = "record" /\ pc'[w] = "mark"
        /\ Current(w) \in Event
    BY <1>12, <1>a, <1>b DEF RecordProcessed, TypeOK
  <2>2. /\ sent \in [Event -> Nat] /\ sent' \in [Event -> Nat]
        /\ audit \in [Event -> Nat] /\ audit' \in [Event -> Nat]
        /\ \A v \in Worker : pc[v] \in Handling => Current(v) \in Event
    BY <1>a DEF TypeOK
  <2>3. /\ \A e \in Event : audit[e] > 0 => audit'[e] > 0
        /\ \A e \in Event : e # Current(w) => audit'[e] = audit[e]
        /\ audit'[Current(w)] > 0
        /\ UNCHANGED <<status, sent>>
    BY <1>12, <2>1, <2>2, CounterGrows DEF RecordProcessed
  <2>4. Current(w) \in EmailEvent /\ (pc[w] = "record" => sent[Current(w)] > 0)
    BY <2>1 DEF HandlingInv, HandlerProgress
  <2>5. HandlerProgress'
    BY <2>1, <2>2, <2>3, <2>4 DEF HandlingInv, HandlerProgress
  <2>6. RecordedWasSent'
    BY <2>1, <2>2, <2>3, <2>4, EventAssumption DEF HandlingInv, RecordedWasSent
  <2>7. ProcessedWasHandled'
    BY <2>2, <2>3, EventAssumption DEF HandlingInv, ProcessedWasHandled
  <2> QED BY <2>5, <2>6, <2>7 DEF HandlingInv
<1>13. ASSUME NEW w \in Worker, HandleOther(w) PROVE HandlingInv'
  <2> HIDE DEF HandlingInv, HandlerProgress, RecordedWasSent, ProcessedWasHandled, TypeOK,
          SelectedPending
  <2>1. /\ \A v \in Worker : Current(v)' = Current(v)
        /\ \A v \in Worker : v # w => pc'[v] = pc[v]
        /\ pc[w] = "row" /\ pc'[w] = "mark"
        /\ Current(w) \in Event
    BY <1>13, <1>a, <1>b DEF HandleOther, TypeOK
  <2>2. /\ sent \in [Event -> Nat] /\ sent' \in [Event -> Nat]
        /\ audit \in [Event -> Nat] /\ audit' \in [Event -> Nat]
        /\ \A v \in Worker : pc[v] \in Handling => Current(v) \in Event
    BY <1>a DEF TypeOK
  <2>3. /\ \A e \in Event : sent[e] > 0 => sent'[e] > 0
        /\ sent'[Current(w)] > 0
        /\ UNCHANGED <<status, audit>>
    BY <1>13, <2>1, <2>2, CounterGrows DEF HandleOther
  <2>4. Current(w) \notin EmailEvent
    BY <1>13 DEF HandleOther
  <2>5. HandlerProgress'
    BY <2>1, <2>2, <2>3, <2>4 DEF HandlingInv, HandlerProgress
  <2>6. RecordedWasSent'
    BY <2>1, <2>2, <2>3, <2>4, EventAssumption DEF HandlingInv, RecordedWasSent
  <2>7. ProcessedWasHandled'
    BY <2>2, <2>3, EventAssumption DEF HandlingInv, ProcessedWasHandled
  <2> QED BY <2>5, <2>6, <2>7 DEF HandlingInv
<1>14. ASSUME NEW w \in Worker, MarkProcessed(w) PROVE HandlingInv'
  BY <1>14, <1>a, <1>b, <1>c DEF MarkProcessed, UpdateProcessed, MarkMatches, Unlock, NextRow
<1>15. ASSUME NEW w \in Worker, DeadLetter(w) PROVE HandlingInv'
  BY <1>15, <1>a, <1>b, <1>c DEF DeadLetter, CatchMatches, Unlock, NextRow
<1>16. ASSUME NEW w \in Worker, RetryLater(w) PROVE HandlingInv'
  BY <1>16, <1>a, <1>b, <1>c DEF RetryLater, CatchMatches, Unlock, NextRow
<1>17. ASSUME NEW w \in Worker, Exit(w) PROVE HandlingInv'
  BY <1>17, <1>a, <1>b, <1>c DEF Exit
<1>18. ASSUME NEW w \in Worker, IterationFails(w) PROVE HandlingInv'
  BY <1>18, <1>a, <1>b, <1>c DEF IterationFails, Fault
<1>19. ASSUME NEW w \in Worker, HandlerCallFails(w) PROVE HandlingInv'
  BY <1>19, <1>a, <1>b, <1>c DEF HandlerCallFails, Fault
<1>20. ASSUME NEW w \in Worker, MarkFails(w) PROVE HandlingInv'
  BY <1>20, <1>a, <1>b, <1>c DEF MarkFails, Fault, UpdateProcessed, MarkMatches, Unlock
<1>21. ASSUME NEW w \in Worker, CatchFails(w) PROVE HandlingInv'
  BY <1>21, <1>a, <1>b, <1>c DEF CatchFails, Fault
<1>22. ASSUME NEW w \in Worker, Crash(w) PROVE HandlingInv'
  BY <1>22, <1>a, <1>b, <1>c DEF Crash
<1>23. ASSUME NEW w \in Worker, Shutdown(w) PROVE HandlingInv'
  BY <1>23, <1>a, <1>b, <1>c DEF Shutdown
<1>24. CASE UNCHANGED vars
  BY <1>24, <1>b DEF vars
<1> QED
  BY <1>1, <1>2, <1>3, <1>4, <1>5, <1>6, <1>7, <1>8, <1>9, <1>10, <1>11, <1>12, <1>13,
     <1>14, <1>15, <1>16, <1>17, <1>18, <1>19, <1>20, <1>21, <1>22, <1>23, <1>24
     DEF Next, Step, Disturbance

(* Every step leaves appended rows appended.                                 *)
LEMMA KnownStep ==
    ASSUME TypeOK, TypeOK', LockInv, HandKnown, [Next]_vars
    PROVE  HandKnown'
<1>a. \A w \in Worker :
          pc[w] \in Handling => Current(w) \in batch[w] /\ Current(w) \in Event
  BY CurrentInBatch DEF LockInv, HandFull, TypeOK
<1> USE <1>a DEF TypeOK, HandKnown, Handling, rows
<1>1. ASSUME NEW e \in Event, Append(e) PROVE HandKnown'
  BY <1>1 DEF Append
<1>2. ASSUME NEW e \in Event, BackoffElapses(e) PROVE HandKnown'
  BY <1>2 DEF BackoffElapses
<1>3. ASSUME NEW w \in Worker, AbandonedLockExpires(w) PROVE HandKnown'
  BY <1>3 DEF AbandonedLockExpires, Abandoned, LockedBy
<1>4. ASSUME NEW w \in Worker, BatchLockExpires(w) PROVE HandKnown'
  BY <1>4 DEF BatchLockExpires, LockedBy
<1>5. ASSUME NEW w \in Worker, Start(w) PROVE HandKnown'
  BY <1>5 DEF Start
<1>6. ASSUME NEW w \in Worker, ReleaseStaleLocks(w) PROVE HandKnown'
  BY <1>6 DEF ReleaseStaleLocks
<1>7. ASSUME NEW w \in Worker, SelectForUpdate(w) PROVE HandKnown'
  BY <1>7 DEF SelectForUpdate, FirstDue, Claimable, RowLocked
<1>8. ASSUME NEW w \in Worker, CommitClaim(w) PROVE HandKnown'
  BY <1>8 DEF CommitClaim
<1>9. ASSUME NEW w \in Worker, CheckAlreadyProcessed(w) PROVE HandKnown'
  BY <1>9 DEF CheckAlreadyProcessed
<1>10. ASSUME NEW w \in Worker, SendEmail(w) PROVE HandKnown'
  BY <1>10 DEF SendEmail
<1>11. ASSUME NEW w \in Worker, SendFails(w) PROVE HandKnown'
  BY <1>11 DEF SendFails
<1>12. ASSUME NEW w \in Worker, RecordProcessed(w) PROVE HandKnown'
  BY <1>12 DEF RecordProcessed
<1>13. ASSUME NEW w \in Worker, HandleOther(w) PROVE HandKnown'
  BY <1>13 DEF HandleOther
<1>14. ASSUME NEW w \in Worker, MarkProcessed(w) PROVE HandKnown'
  BY <1>14 DEF MarkProcessed, UpdateProcessed, MarkMatches, Unlock, NextRow
<1>15. ASSUME NEW w \in Worker, DeadLetter(w) PROVE HandKnown'
  BY <1>15 DEF DeadLetter, CatchMatches, Unlock, NextRow
<1>16. ASSUME NEW w \in Worker, RetryLater(w) PROVE HandKnown'
  BY <1>16 DEF RetryLater, CatchMatches, Unlock, NextRow
<1>17. ASSUME NEW w \in Worker, Exit(w) PROVE HandKnown'
  BY <1>17 DEF Exit
<1>18. ASSUME NEW w \in Worker, IterationFails(w) PROVE HandKnown'
  BY <1>18 DEF IterationFails, Fault
<1>19. ASSUME NEW w \in Worker, HandlerCallFails(w) PROVE HandKnown'
  BY <1>19 DEF HandlerCallFails, Fault
<1>20. ASSUME NEW w \in Worker, MarkFails(w) PROVE HandKnown'
  BY <1>20 DEF MarkFails, Fault, UpdateProcessed, MarkMatches, Unlock
<1>21. ASSUME NEW w \in Worker, CatchFails(w) PROVE HandKnown'
  BY <1>21 DEF CatchFails, Fault
<1>22. ASSUME NEW w \in Worker, Crash(w) PROVE HandKnown'
  BY <1>22 DEF Crash
<1>23. ASSUME NEW w \in Worker, Shutdown(w) PROVE HandKnown'
  BY <1>23 DEF Shutdown
<1>24. CASE UNCHANGED vars
  BY <1>24 DEF vars
<1> QED
  BY <1>1, <1>2, <1>3, <1>4, <1>5, <1>6, <1>7, <1>8, <1>9, <1>10, <1>11, <1>12, <1>13,
     <1>14, <1>15, <1>16, <1>17, <1>18, <1>19, <1>20, <1>21, <1>22, <1>23, <1>24
     DEF Next, Step, Disturbance

-----------------------------------------------------------------------------
(* The safety properties of Outbox *)

(* The invariant holds in every reachable state.                             *)
THEOREM Invariance == Spec => []Inv
<1>1. Init => Inv
  BY WorkerAssumption, ParameterAssumption
     DEF Init, Inv, TypeOK, Status, PC, LockInv, LockedIffProcessing, HandFull, SelectedPending,
         HolderHandles, ExclusiveHandling, AttemptsInv, SeenIsOneBehind, WaitingHasAttemptsLeft,
         AttemptsBounded, NoEarlyDeadLetter, HandlingInv, HandlerProgress, RecordedWasSent,
         ProcessedWasHandled, HandKnown, Handling
<1>2. Inv /\ [Next]_vars => Inv'
  BY TypeStep, LockStep, AttemptsStep, HandlingStep, KnownStep DEF Inv
<1>3. QED BY <1>1, <1>2, PTL DEF Spec

(* Until a lock expires under a busy worker, no event is in two hands.       *)
THEOREM Exclusion == Spec => []ExclusiveHandling
<1>1. Inv => ExclusiveHandling
  BY DEF Inv, LockInv
<1>2. QED BY <1>1, Invariance, PTL

(* Failing handlers alone never cost an event more than MAX_ATTEMPTS + 1     *)
(* claims: every claim beyond that follows the release of a stale lock.  And *)
(* the catch block does not mark an event FAILED before that.                *)
THEOREM EveryAttemptCounts == Spec => []AttemptsAccounted
<1>1. Inv => AttemptsAccounted
  BY DEF Inv, AttemptsInv, AttemptsAccounted
<1>2. QED BY <1>1, Invariance, PTL

(* No event is marked PROCESSED that was not handled.                        *)
THEOREM NothingLost == Spec => []ProcessedWasHandled
<1>1. Inv => ProcessedWasHandled
  BY DEF Inv, HandlingInv
<1>2. QED BY <1>1, Invariance, PTL

(* What a step may do to a row that is settled, and to one that is locked.   *)
LEMMA RowStep ==
    ASSUME Inv, [Next]_vars, NEW r \in Event
    PROVE  /\ status[r] \in Terminal => status'[r] = status[r]
           /\ lockedBy[r] # NoWorker /\ lockedBy'[r] # lockedBy[r] =>
                 \/ r \in stale
                 \/ /\ r \in batch[lockedBy[r]]
                    /\ r = Current(lockedBy[r])
                    /\ pc[lockedBy[r]] \in {"mark", "fail"}
<1> DEFINE Fine == /\ status[r] \in Terminal => status'[r] = status[r]
                   /\ lockedBy[r] # NoWorker /\ lockedBy'[r] # lockedBy[r] =>
                         \/ r \in stale
                         \/ /\ r \in batch[lockedBy[r]]
                            /\ r = Current(lockedBy[r])
                            /\ pc[lockedBy[r]] \in {"mark", "fail"}
<1>a. /\ TypeOK
      /\ LockedIffProcessing
      /\ SelectedPending
      /\ \A w \in Worker : pc[w] \in Handling => Current(w) \in batch[w]
  BY CurrentInBatch DEF Inv, LockInv, HandFull
<1> USE <1>a, WorkerAssumption DEF TypeOK, LockedIffProcessing, SelectedPending, Handling,
        Terminal, rows
<1>1. ASSUME NEW e \in Event, Append(e) PROVE Fine
  BY <1>1 DEF Append
<1>2. ASSUME NEW e \in Event, BackoffElapses(e) PROVE Fine
  BY <1>2 DEF BackoffElapses
<1>3. ASSUME NEW w \in Worker, AbandonedLockExpires(w) PROVE Fine
  BY <1>3 DEF AbandonedLockExpires, Abandoned, LockedBy
<1>4. ASSUME NEW w \in Worker, BatchLockExpires(w) PROVE Fine
  BY <1>4 DEF BatchLockExpires, LockedBy
<1>5. ASSUME NEW w \in Worker, Start(w) PROVE Fine
  BY <1>5 DEF Start
<1>6. ASSUME NEW w \in Worker, ReleaseStaleLocks(w) PROVE Fine
  BY <1>6 DEF ReleaseStaleLocks
<1>7. ASSUME NEW w \in Worker, SelectForUpdate(w) PROVE Fine
  BY <1>7 DEF SelectForUpdate, FirstDue, Claimable, RowLocked
<1>8. ASSUME NEW w \in Worker, CommitClaim(w) PROVE Fine
  BY <1>8 DEF CommitClaim
<1>9. ASSUME NEW w \in Worker, CheckAlreadyProcessed(w) PROVE Fine
  BY <1>9 DEF CheckAlreadyProcessed
<1>10. ASSUME NEW w \in Worker, SendEmail(w) PROVE Fine
  BY <1>10 DEF SendEmail
<1>11. ASSUME NEW w \in Worker, SendFails(w) PROVE Fine
  BY <1>11 DEF SendFails
<1>12. ASSUME NEW w \in Worker, RecordProcessed(w) PROVE Fine
  BY <1>12 DEF RecordProcessed
<1>13. ASSUME NEW w \in Worker, HandleOther(w) PROVE Fine
  BY <1>13 DEF HandleOther
<1>14. ASSUME NEW w \in Worker, MarkProcessed(w) PROVE Fine
  BY <1>14 DEF MarkProcessed, UpdateProcessed, MarkMatches, Unlock, NextRow
<1>15. ASSUME NEW w \in Worker, DeadLetter(w) PROVE Fine
  BY <1>15 DEF DeadLetter, CatchMatches, Unlock, NextRow
<1>16. ASSUME NEW w \in Worker, RetryLater(w) PROVE Fine
  BY <1>16 DEF RetryLater, CatchMatches, Unlock, NextRow
<1>17. ASSUME NEW w \in Worker, Exit(w) PROVE Fine
  BY <1>17 DEF Exit
<1>18. ASSUME NEW w \in Worker, IterationFails(w) PROVE Fine
  BY <1>18 DEF IterationFails, Fault
<1>19. ASSUME NEW w \in Worker, HandlerCallFails(w) PROVE Fine
  BY <1>19 DEF HandlerCallFails, Fault
<1>20. ASSUME NEW w \in Worker, MarkFails(w) PROVE Fine
  BY <1>20 DEF MarkFails, Fault, UpdateProcessed, MarkMatches, Unlock
<1>21. ASSUME NEW w \in Worker, CatchFails(w) PROVE Fine
  BY <1>21 DEF CatchFails, Fault
<1>22. ASSUME NEW w \in Worker, Crash(w) PROVE Fine
  BY <1>22 DEF Crash
<1>23. ASSUME NEW w \in Worker, Shutdown(w) PROVE Fine
  BY <1>23 DEF Shutdown
<1>24. CASE UNCHANGED vars
  BY <1>24 DEF vars
<1> QED
  BY <1>1, <1>2, <1>3, <1>4, <1>5, <1>6, <1>7, <1>8, <1>9, <1>10, <1>11, <1>12, <1>13,
     <1>14, <1>15, <1>16, <1>17, <1>18, <1>19, <1>20, <1>21, <1>22, <1>23, <1>24
     DEF Next, Step, Disturbance

(* A worker comes to sending an email only from an audit log without it, and *)
(* nothing but the entry it makes afterwards changes the audit log.          *)
LEMMA SendingStep ==
    ASSUME Inv, [Next]_vars, \A w \in Worker : ~RecordProcessed(w)
    PROVE  /\ audit' = audit /\ (lapses' = 0 => lapses = 0)
           /\ \A w \in Worker : pc'[w] \in {"send", "record"} =>
                 /\ batch'[w] = batch[w] /\ Current(w)' = Current(w)
                 /\ pc[w] \in {"send", "record"} \/ (pc[w] = "row" /\ ~(audit[Current(w)] > 0))
<1> DEFINE Fine == /\ audit' = audit /\ (lapses' = 0 => lapses = 0)
                   /\ \A w \in Worker : pc'[w] \in {"send", "record"} =>
                         /\ batch'[w] = batch[w]
                         /\ \/ pc[w] \in {"send", "record"}
                            \/ pc[w] = "row" /\ ~(audit[Current(w)] > 0)
<1>a. TypeOK
  BY DEF Inv
<1> USE <1>a DEF TypeOK
<1>1. ASSUME NEW e \in Event, Append(e) PROVE Fine
  BY <1>1 DEF Append
<1>2. ASSUME NEW e \in Event, BackoffElapses(e) PROVE Fine
  BY <1>2 DEF BackoffElapses
<1>3. ASSUME NEW w \in Worker, AbandonedLockExpires(w) PROVE Fine
  BY <1>3 DEF AbandonedLockExpires
<1>4. ASSUME NEW w \in Worker, BatchLockExpires(w) PROVE Fine
  BY <1>4 DEF BatchLockExpires
<1>5. ASSUME NEW w \in Worker, Start(w) PROVE Fine
  BY <1>5 DEF Start
<1>6. ASSUME NEW w \in Worker, ReleaseStaleLocks(w) PROVE Fine
  BY <1>6 DEF ReleaseStaleLocks
<1>7. ASSUME NEW w \in Worker, SelectForUpdate(w) PROVE Fine
  BY <1>7 DEF SelectForUpdate
<1>8. ASSUME NEW w \in Worker, CommitClaim(w) PROVE Fine
  BY <1>8 DEF CommitClaim
<1>9. ASSUME NEW w \in Worker, CheckAlreadyProcessed(w) PROVE Fine
  BY <1>9 DEF CheckAlreadyProcessed
<1>10. ASSUME NEW w \in Worker, SendEmail(w) PROVE Fine
  BY <1>10 DEF SendEmail
<1>11. ASSUME NEW w \in Worker, SendFails(w) PROVE Fine
  BY <1>11 DEF SendFails
<1>12. ASSUME NEW w \in Worker, HandleOther(w) PROVE Fine
  BY <1>12 DEF HandleOther
<1>13. ASSUME NEW w \in Worker, MarkProcessed(w) PROVE Fine
  BY <1>13 DEF MarkProcessed, NextRow
<1>14. ASSUME NEW w \in Worker, DeadLetter(w) PROVE Fine
  BY <1>14 DEF DeadLetter, NextRow
<1>15. ASSUME NEW w \in Worker, RetryLater(w) PROVE Fine
  BY <1>15 DEF RetryLater, NextRow
<1>16. ASSUME NEW w \in Worker, Exit(w) PROVE Fine
  BY <1>16 DEF Exit
<1>17. ASSUME NEW w \in Worker, IterationFails(w) PROVE Fine
  BY <1>17 DEF IterationFails
<1>18. ASSUME NEW w \in Worker, HandlerCallFails(w) PROVE Fine
  BY <1>18 DEF HandlerCallFails
<1>19. ASSUME NEW w \in Worker, MarkFails(w) PROVE Fine
  BY <1>19 DEF MarkFails
<1>20. ASSUME NEW w \in Worker, CatchFails(w) PROVE Fine
  BY <1>20 DEF CatchFails
<1>21. ASSUME NEW w \in Worker, Crash(w) PROVE Fine
  BY <1>21 DEF Crash
<1>22. ASSUME NEW w \in Worker, Shutdown(w) PROVE Fine
  BY <1>22 DEF Shutdown
<1>23. ASSUME UNCHANGED vars PROVE Fine
  BY <1>23 DEF vars, rows
<1> HIDE <1>a DEF TypeOK, Fine
<1>24. Fine
  BY <1>1, <1>2, <1>3, <1>4, <1>5, <1>6, <1>7, <1>8, <1>9, <1>10, <1>11, <1>12, <1>13,
     <1>14, <1>15, <1>16, <1>17, <1>18, <1>19, <1>20, <1>21, <1>22, <1>23
     DEF Next, Step, Disturbance
<1>25. ASSUME NEW w \in Worker, batch'[w] = batch[w]
       PROVE  Current(w)' = Current(w)
  BY <1>25 DEF Current
<1> QED BY <1>24, <1>25, Zenon DEF Fine

(* An email whose sending is in the audit log is not sent again and not      *)
(* entered twice, as long as no lock expires under a busy worker.            *)
THEOREM SentOnce == Spec => []SentOnceRecorded
<1>1. Inv /\ SentOnceRecorded /\ [Next]_vars => SentOnceRecorded'
  <2> SUFFICES ASSUME Inv, SentOnceRecorded, [Next]_vars, lapses' = 0, NEW e \in EmailEvent
               PROVE  /\ audit'[e] <= 1
                      /\ audit'[e] = 1 => ~\E w \in Worker : /\ e \in batch'[w] /\ e = Current(w)'
                                                             /\ pc'[w] \in {"send", "record"}
    BY DEF SentOnceRecorded
  <2>1. /\ e \in Event /\ TypeOK /\ ExclusiveHandling
        /\ \A w \in Worker : pc[w] = "record" => Current(w) \in batch[w] /\ Current(w) \in EmailEvent
    BY EventAssumption, CurrentInBatch
       DEF Inv, LockInv, HandFull, Handling, HandlingInv, HandlerProgress
  <2>2. ASSUME NEW w \in Worker, RecordProcessed(w)
        PROVE  /\ audit'[e] <= 1
               /\ audit'[e] = 1 => ~\E v \in Worker : /\ e \in batch'[v] /\ e = Current(v)'
                                                      /\ pc'[v] \in {"send", "record"}
    <3>1. lapses = 0 /\ pc[w] = "record" /\ batch' = batch
      BY <2>2 DEF RecordProcessed
    <3>2. Current(w) \in batch[w] /\ Current(w) \in EmailEvent /\ Current(w) \in Event
      BY <2>1, <3>1, EventAssumption
    <3>3. \A v \in Worker : Current(v)' = Current(v)
      BY <3>1 DEF Current
    <3>4. pc'[w] = "mark" /\ \A v \in Worker \ {w} : pc'[v] = pc[v]
      BY <2>1, <2>2 DEF RecordProcessed, TypeOK
    <3>5. audit[Current(w)] = 0
      <4>1. audit[Current(w)] \in Nat
        BY <2>1, <3>2 DEF TypeOK
      <4>2. audit[Current(w)] <= 1 /\ audit[Current(w)] # 1
        BY <3>1, <3>2 DEF SentOnceRecorded
      <4> QED BY <4>1, <4>2
    <3>6. CASE e = Current(w)
      <4>1. audit'[e] = 1
        BY <2>1, <2>2, <3>2, <3>5, <3>6 DEF RecordProcessed, TypeOK
      <4>2. ASSUME NEW v \in Worker, e \in batch[v] PROVE v = w
        BY <2>1, <3>1, <3>2, <3>6, <4>2 DEF ExclusiveHandling
      <4> QED BY <3>1, <3>4, <4>1, <4>2
    <3>7. CASE e # Current(w)
      <4>1. audit'[e] = audit[e]
        BY <2>1, <2>2, <3>7 DEF RecordProcessed, TypeOK
      <4> QED BY <3>1, <3>3, <3>4, <4>1 DEF SentOnceRecorded
    <3> QED BY <3>6, <3>7
  <2>3. CASE \A w \in Worker : ~RecordProcessed(w)
    <3>1. /\ audit' = audit /\ lapses = 0
          /\ \A w \in Worker : pc'[w] \in {"send", "record"} =>
                /\ batch'[w] = batch[w] /\ Current(w)' = Current(w)
                /\ pc[w] \in {"send", "record"} \/ (pc[w] = "row" /\ ~(audit[Current(w)] > 0))
      BY <2>3, SendingStep
    <3>2. audit[e] \in Nat
      BY <2>1 DEF TypeOK
    <3> QED BY <3>1, <3>2 DEF SentOnceRecorded
  <2> QED BY <2>2, <2>3
<1>2. Init => SentOnceRecorded
  BY EventAssumption DEF Init, SentOnceRecorded
<1>3. QED BY <1>1, <1>2, Invariance, PTL DEF Spec

(* PROCESSED and FAILED rows are never written again.                        *)
THEOREM Finality == Spec => TerminalIsFinal
<1>1. Inv /\ [Next]_vars => [\A e \in Event : status[e] \in Terminal => status'[e] = status[e]]_vars
  BY RowStep
<1>2. QED BY <1>1, Invariance, PTL DEF Spec, TerminalIsFinal

(* Only its holder, or the release of a stale lock, ends a lock.             *)
THEOREM LocksRespected == Spec => LockEndsByHolderOrExpiry
<1>1. Inv /\ [Next]_vars =>
         [\A e \in Event :
             lockedBy[e] # NoWorker /\ lockedBy'[e] # lockedBy[e] =>
                \/ e \in stale
                \/ /\ e \in batch[lockedBy[e]]
                   /\ e = Current(lockedBy[e])
                   /\ pc[lockedBy[e]] \in {"mark", "fail"}]_vars
  BY RowStep
<1>2. QED BY <1>1, Invariance, PTL DEF Spec, LockEndsByHolderOrExpiry

-----------------------------------------------------------------------------
(* The outbox implements EventDelivery *)

(* Every step of the outbox is a step of EventDelivery, or none.             *)
LEMMA DeliveryStep ==
    ASSUME Inv, Inv', [Next]_vars
    PROVE  [Delivery!Next]_(Delivery!vars)
<1> DEFINE opn == {e \in Event : status[e] \in {"PENDING", "PROCESSING"}}
           dlv == {e \in Event : sent[e] > 0}
           don == {e \in Event : status[e] = "PROCESSED"}
           gvn == {e \in Event : status[e] = "FAILED"}
<1>a. /\ TypeOK
      /\ LockedIffProcessing
      /\ SelectedPending
      /\ HandlerProgress
      /\ HandKnown
      /\ \A w \in Worker : pc[w] \in Handling => Current(w) \in batch[w] /\ Current(w) \in Event
  BY CurrentInBatch DEF Inv, LockInv, HandFull, HandlingInv, TypeOK
<1>b. ASSUME opn' = opn, dlv' = dlv, don' = don, gvn' = gvn PROVE [Delivery!Next]_(Delivery!vars)
  BY <1>b DEF Delivery!vars
<1>c. ASSUME status' = status, sent' = sent PROVE [Delivery!Next]_(Delivery!vars)
  BY <1>b, <1>c
<1>d. ASSUME NEW e \in Event, status[e] # "absent", status' = status,
             sent' = [sent EXCEPT ![e] = @ + 1]
      PROVE  [Delivery!Next]_(Delivery!vars)
  <2>1. e \in opn \cup don \cup gvn
    BY <1>a, <1>d DEF TypeOK, Status
  <2>2. dlv' = dlv \cup {e}
    BY <1>a, <1>d, CounterGrows DEF TypeOK
  <2>3. opn' = opn /\ don' = don /\ gvn' = gvn
    BY <1>d
  <2> QED BY <2>1, <2>2, <2>3 DEF Delivery!Next, Delivery!Deliver, Delivery!Known
<1>e. ASSUME NEW w \in Worker, UpdateProcessed(w), pc[w] = "mark", sent' = sent PROVE [Delivery!Next]_(Delivery!vars)
  <2> DEFINE c == Current(w)
  <2>1. CASE status[c] = "PROCESSING" /\ lockedBy[c] = w
    <3>1. status' = [status EXCEPT ![c] = "PROCESSED"]
      BY <1>e, <2>1 DEF UpdateProcessed, MarkMatches, Unlock
    <3>2. c \in opn \cap dlv
      BY <1>a, <1>e, <2>1 DEF HandlerProgress, Handling
    <3>3. opn' = opn \ {c} /\ don' = don \cup {c} /\ dlv' = dlv /\ gvn' = gvn
      BY <1>a, <1>e, <2>1, <3>1, <3>2 DEF TypeOK
    <3> QED BY <3>2, <3>3 DEF Delivery!Next, Delivery!Settle
  <2>2. CASE ~(status[c] = "PROCESSING" /\ lockedBy[c] = w)
    BY <1>c, <1>e, <2>2 DEF UpdateProcessed, MarkMatches
  <2> QED BY <2>1, <2>2
<1>1. ASSUME NEW e \in Event, Append(e) PROVE [Delivery!Next]_(Delivery!vars)
  <2>1. opn' = opn \cup {e} /\ dlv' = dlv /\ don' = don /\ gvn' = gvn
    BY <1>1, <1>a DEF Append, TypeOK
  <2>2. e \notin opn \cup don \cup gvn
    BY <1>1 DEF Append
  <2> QED BY <2>1, <2>2 DEF Delivery!Next, Delivery!Append, Delivery!Known
<1>2. ASSUME NEW e \in Event, BackoffElapses(e) PROVE [Delivery!Next]_(Delivery!vars)
  BY <1>2, <1>c DEF BackoffElapses, rows
<1>3. ASSUME NEW w \in Worker, AbandonedLockExpires(w) PROVE [Delivery!Next]_(Delivery!vars)
  BY <1>3, <1>c DEF AbandonedLockExpires, rows
<1>4. ASSUME NEW w \in Worker, BatchLockExpires(w) PROVE [Delivery!Next]_(Delivery!vars)
  BY <1>4, <1>c DEF BatchLockExpires, rows
<1>5. ASSUME NEW w \in Worker, Start(w) PROVE [Delivery!Next]_(Delivery!vars)
  BY <1>5, <1>c DEF Start, rows
<1>6. ASSUME NEW w \in Worker, ReleaseStaleLocks(w) PROVE [Delivery!Next]_(Delivery!vars)
  <2>1. opn' = opn /\ dlv' = dlv /\ don' = don /\ gvn' = gvn
    BY <1>6 DEF ReleaseStaleLocks
  <2> QED BY <2>1, <1>b
<1>7. ASSUME NEW w \in Worker, SelectForUpdate(w) PROVE [Delivery!Next]_(Delivery!vars)
  BY <1>7, <1>c DEF SelectForUpdate, rows
<1>8. ASSUME NEW w \in Worker, CommitClaim(w) PROVE [Delivery!Next]_(Delivery!vars)
  <2>1. opn' = opn /\ dlv' = dlv /\ don' = don /\ gvn' = gvn
    BY <1>8, <1>a DEF CommitClaim, SelectedPending
  <2> QED BY <2>1, <1>b
<1>9. ASSUME NEW w \in Worker, CheckAlreadyProcessed(w) PROVE [Delivery!Next]_(Delivery!vars)
  BY <1>9, <1>c DEF CheckAlreadyProcessed, rows
<1>10. ASSUME NEW w \in Worker, SendEmail(w) PROVE [Delivery!Next]_(Delivery!vars)
  BY <1>10, <1>a, <1>d DEF SendEmail, HandKnown, Handling, rows
<1>11. ASSUME NEW w \in Worker, SendFails(w) PROVE [Delivery!Next]_(Delivery!vars)
  BY <1>11, <1>c DEF SendFails, rows
<1>12. ASSUME NEW w \in Worker, RecordProcessed(w) PROVE [Delivery!Next]_(Delivery!vars)
  BY <1>12, <1>c DEF RecordProcessed, rows
<1>13. ASSUME NEW w \in Worker, HandleOther(w) PROVE [Delivery!Next]_(Delivery!vars)
  BY <1>13, <1>a, <1>d DEF HandleOther, HandKnown, Handling, rows
<1>14. ASSUME NEW w \in Worker, MarkProcessed(w) PROVE [Delivery!Next]_(Delivery!vars)
  BY <1>14, <1>e DEF MarkProcessed
<1>15. ASSUME NEW w \in Worker, DeadLetter(w) PROVE [Delivery!Next]_(Delivery!vars)
  <2> DEFINE c == Current(w)
  <2>1. CASE lockedBy[c] = w
    <3>1. c \in Event /\ c \in opn
      BY <1>15, <1>a, <2>1, WorkerAssumption DEF DeadLetter, LockedIffProcessing, Handling
    <3>2. status' = [status EXCEPT ![c] = "FAILED"] /\ sent' = sent
      BY <1>15, <2>1 DEF DeadLetter, CatchMatches, Unlock
    <3>3. opn' = opn \ {c} /\ gvn' = gvn \cup {c} /\ dlv' = dlv /\ don' = don
      BY <1>a, <3>1, <3>2 DEF TypeOK
    <3> QED BY <3>1, <3>3 DEF Delivery!Next, Delivery!GiveUp
  <2>2. CASE lockedBy[c] # w
    BY <1>15, <1>c, <2>2 DEF DeadLetter, CatchMatches
  <2> QED BY <2>1, <2>2
<1>16. ASSUME NEW w \in Worker, RetryLater(w) PROVE [Delivery!Next]_(Delivery!vars)
  <2> DEFINE c == Current(w)
  <2>1. CASE lockedBy[c] = w
    <3>1. c \in Event /\ status[c] = "PROCESSING"
      BY <1>16, <1>a, <2>1, WorkerAssumption DEF RetryLater, LockedIffProcessing, Handling
    <3>2. status' = [status EXCEPT ![c] = "PENDING"] /\ sent' = sent
      BY <1>16, <2>1 DEF RetryLater, CatchMatches, Unlock
    <3>3. opn' = opn /\ gvn' = gvn /\ dlv' = dlv /\ don' = don
      BY <1>a, <3>1, <3>2 DEF TypeOK
    <3> QED BY <3>3, <1>b
  <2>2. CASE lockedBy[c] # w
    BY <1>16, <1>c, <2>2 DEF RetryLater, CatchMatches
  <2> QED BY <2>1, <2>2
<1>17. ASSUME NEW w \in Worker, Exit(w) PROVE [Delivery!Next]_(Delivery!vars)
  BY <1>17, <1>c DEF Exit, rows
<1>18. ASSUME NEW w \in Worker, IterationFails(w) PROVE [Delivery!Next]_(Delivery!vars)
  BY <1>18, <1>c DEF IterationFails, rows
<1>19. ASSUME NEW w \in Worker, HandlerCallFails(w) PROVE [Delivery!Next]_(Delivery!vars)
  BY <1>19, <1>c DEF HandlerCallFails, rows
<1>20. ASSUME NEW w \in Worker, MarkFails(w) PROVE [Delivery!Next]_(Delivery!vars)
  BY <1>20, <1>c, <1>e DEF MarkFails, Fault
<1>21. ASSUME NEW w \in Worker, CatchFails(w) PROVE [Delivery!Next]_(Delivery!vars)
  BY <1>21, <1>c DEF CatchFails, rows
<1>22. ASSUME NEW w \in Worker, Crash(w) PROVE [Delivery!Next]_(Delivery!vars)
  BY <1>22, <1>c DEF Crash, rows
<1>23. ASSUME NEW w \in Worker, Shutdown(w) PROVE [Delivery!Next]_(Delivery!vars)
  BY <1>23, <1>c DEF Shutdown, rows
<1>24. CASE UNCHANGED vars
  BY <1>24, <1>c DEF vars
<1> QED
  BY <1>1, <1>2, <1>3, <1>4, <1>5, <1>6, <1>7, <1>8, <1>9, <1>10, <1>11, <1>12, <1>13,
     <1>14, <1>15, <1>16, <1>17, <1>18, <1>19, <1>20, <1>21, <1>22, <1>23, <1>24
     DEF Next, Step, Disturbance

(* At-least-once delivery (ADR-006), for every number of workers and events. *)
THEOREM DeliversAtLeastOnce == Spec => AtLeastOnceDelivery
<1>1. Init => Delivery!Init
  BY DEF Init, Delivery!Init
<1>2. Inv /\ Inv' /\ [Next]_vars => [Delivery!Next]_(Delivery!vars)
  BY DeliveryStep
<1>3. QED BY <1>1, <1>2, Invariance, PTL DEF Spec, AtLeastOnceDelivery, Delivery!Spec
=============================================================================
