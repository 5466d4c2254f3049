------------------------------- MODULE Outbox -------------------------------
(***************************************************************************)
(* The transactional outbox and the worker processes that consume it:      *)
(* packages/database/src/outbox-claim.ts, apps/worker/src/main.ts and      *)
(* apps/worker/src/handlers/outbox-event-handler.ts.                       *)
(*                                                                         *)
(* The API appends a PENDING row in the transaction of the mutation that   *)
(* raises the event.  Worker processes poll: release the locks that have   *)
(* outlived OUTBOX_STALE_LOCK_MS, lock a batch with FOR UPDATE SKIP LOCKED,*)
(* mark it PROCESSING, then handle its rows one after the other, marking   *)
(* each PROCESSED, PENDING again (backoff) or FAILED (dead letter).        *)
(*                                                                         *)
(* Every await of the worker is a step of its own, so another process, a   *)
(* crash or an expired lock can come between any two of them.              *)
(***************************************************************************)
EXTENDS Integers, FiniteSets

CONSTANTS
    Event,        \* outbox rows, each named by its rank in occurred_at
    EmailEvent,   \* those whose type is EmailVerificationRequested
    Worker,       \* WORKER_ID values: a process takes a fresh one and never restarts
    Reliable,     \* the processes that are neither killed nor asked to stop
    NoWorker,     \* locked_by IS NULL
    MaxAttempts,  \* OUTBOX_MAX_ATTEMPTS
    BatchSize,    \* OUTBOX_BATCH_SIZE
    MaxFaults,    \* bound: database calls of the workers that fail
    MaxLapses     \* bound: locks that expire under a worker still busy with the batch

ASSUME EventAssumption == Event \subseteq Nat /\ EmailEvent \subseteq Event
ASSUME WorkerAssumption == Reliable \subseteq Worker /\ NoWorker \notin Worker
ASSUME ParameterAssumption ==
    /\ MaxAttempts \in Nat \ {0}
    /\ BatchSize \in Nat \ {0}
    /\ MaxFaults \in Nat
    /\ MaxLapses \in Nat

VARIABLES
    status,     \* status[e]: the row's column, "absent" before it is inserted
    lockedBy,   \* lockedBy[e]: the row's column
    attempts,   \* attempts[e]: the row's column
    due,        \* the rows with next_attempt_at <= NOW()
    stale,      \* the rows with locked_at older than OUTBOX_STALE_LOCK_MS
    audit,      \* audit[e]: SUCCESS entries of the audit log for the row
    pc,         \* pc[w]: the next call of process w
    running,    \* running[w]: the flag SIGTERM clears
    batch,      \* batch[w]: rows in w's hand, the one being handled and those after it
    seen,       \* seen[w][e]: row.attempts as SELECTed, before the claim increments it
    sent,       \* history: sent[e], times the event's effect was carried out
    released,   \* history: released[e], times a stale lock on the row was released
    faults,     \* database calls that failed so far
    lapses      \* locks that expired under a busy worker so far

rows == <<status, lockedBy, attempts, due, stale>>
vars == <<status, lockedBy, attempts, due, stale, audit, pc, running, batch, seen,
          sent, released, faults, lapses>>

Status == {"absent", "PENDING", "PROCESSING", "PROCESSED", "FAILED"}
Terminal == {"PROCESSED", "FAILED"}
PC == {"off", "idle", "select", "commit", "row", "send", "record", "mark", "fail", "dead"}

(* What a process does between taking a batch and finishing it. *)
Handling == {"row", "send", "record", "mark", "fail"}

Init ==
    /\ status = [e \in Event |-> "absent"]
    /\ lockedBy = [e \in Event |-> NoWorker]
    /\ attempts = [e \in Event |-> 0]
    /\ due = {}
    /\ stale = {}
    /\ audit = [e \in Event |-> 0]
    /\ pc = [w \in Worker |-> "off"]
    /\ running = [w \in Worker |-> TRUE]
    /\ batch = [w \in Worker |-> {}]
    /\ seen = [w \in Worker |-> [e \in Event |-> 0]]
    /\ sent = [e \in Event |-> 0]
    /\ released = [e \in Event |-> 0]
    /\ faults = 0
    /\ lapses = 0

-----------------------------------------------------------------------------
(* Producers and time *)

(* A business transaction commits with its event.  occurred_at is the time   *)
(* the transaction began, so rows may appear out of their order.             *)
Append(e) ==
    /\ status[e] = "absent"
    /\ status' = [status EXCEPT ![e] = "PENDING"]
    /\ due' = due \cup {e}
    /\ UNCHANGED <<lockedBy, attempts, stale, audit, pc, running, batch, seen, sent,
                   released, faults, lapses>>

(* next_attempt_at, set by a failed attempt, is reached. *)
BackoffElapses(e) ==
    /\ status[e] = "PENDING"
    /\ e \notin due
    /\ due' = due \cup {e}
    /\ UNCHANGED <<status, lockedBy, attempts, stale, audit, pc, running, batch, seen,
                   sent, released, faults, lapses>>

(* Rows locked by w: those it abandoned (it died, or an error in the catch   *)
(* block ended its batch) and those it still has in hand.                    *)
LockedBy(w) == {e \in Event : status[e] = "PROCESSING" /\ lockedBy[e] = w}
Abandoned(w) == LockedBy(w) \ batch[w]

AbandonedLockExpires(w) ==
    /\ Abandoned(w) \ stale # {}
    /\ stale' = stale \cup Abandoned(w)
    /\ UNCHANGED <<status, lockedBy, attempts, due, audit, pc, running, batch, seen, sent,
                   released, faults, lapses>>

(* locked_at is written once for the whole batch and never renewed: a batch  *)
(* that takes too long goes stale as a whole while w works on.               *)
BatchLockExpires(w) ==
    /\ lapses < MaxLapses
    /\ (LockedBy(w) \cap batch[w]) \ stale # {}
    /\ stale' = stale \cup LockedBy(w)
    /\ lapses' = lapses + 1
    /\ UNCHANGED <<status, lockedBy, attempts, due, audit, pc, running, batch, seen, sent,
                   released, faults>>

-----------------------------------------------------------------------------
(* The polling loop *)

Start(w) ==
    /\ pc[w] = "off"
    /\ pc' = [pc EXCEPT ![w] = "idle"]
    /\ UNCHANGED <<rows, audit, running, batch, seen, sent, released, faults, lapses>>

(* Mutant: the release of stale locks is forgotten. *)
NoReleaseOfStaleLocks(w) ==
    /\ pc[w] = "idle"
    /\ running[w]
    /\ pc' = [pc EXCEPT ![w] = "select"]
    /\ UNCHANGED <<rows, audit, running, batch, seen, sent, released, faults, lapses>>

(* Top of an iteration: every PROCESSING row whose lock is stale, whoever    *)
(* holds it, is PENDING again.  Neither attempts nor next_attempt_at change. *)
ReleaseStaleLocks(w) ==
    LET expired == {e \in stale : status[e] = "PROCESSING"}
    IN  /\ pc[w] = "idle"
        /\ running[w]
        /\ status' = [e \in Event |-> IF e \in expired THEN "PENDING" ELSE status[e]]
        /\ lockedBy' = [e \in Event |-> IF e \in expired THEN NoWorker ELSE lockedBy[e]]
        /\ stale' = stale \ expired
        /\ released' = [e \in Event |-> IF e \in expired THEN released[e] + 1 ELSE released[e]]
        /\ pc' = [pc EXCEPT ![w] = "select"]
        /\ UNCHANGED <<attempts, due, audit, running, batch, seen, sent, faults, lapses>>

(* Rows under the FOR UPDATE lock of a claim transaction not yet committed. *)
RowLocked == UNION {batch[w] : w \in {v \in Worker : pc[v] = "commit"}}

(* Mutant: a plain SELECT, as before ADR-017. *)
ClaimableWithoutRowLocks == {e \in due : status[e] = "PENDING"}

Claimable == {e \in due : status[e] = "PENDING" /\ e \notin RowLocked}

(* ORDER BY occurred_at ASC LIMIT BATCH_SIZE, skipping the locked rows. *)
FirstDue == {e \in Claimable : Cardinality({f \in Claimable : f < e}) < BatchSize}

SelectForUpdate(w) ==
    /\ pc[w] = "select"
    /\ batch' = [batch EXCEPT ![w] = FirstDue]
    /\ seen' = [seen EXCEPT ![w] = [e \in Event |-> IF e \in FirstDue THEN attempts[e] ELSE 0]]
    /\ pc' = [pc EXCEPT ![w] = IF FirstDue = {} THEN "idle" ELSE "commit"]
    /\ UNCHANGED <<rows, audit, running, sent, released, faults, lapses>>

CommitClaim(w) ==
    /\ pc[w] = "commit"
    /\ status' = [e \in Event |-> IF e \in batch[w] THEN "PROCESSING" ELSE status[e]]
    /\ lockedBy' = [e \in Event |-> IF e \in batch[w] THEN w ELSE lockedBy[e]]
    /\ attempts' = [e \in Event |-> IF e \in batch[w] THEN attempts[e] + 1 ELSE attempts[e]]
    /\ stale' = stale \ batch[w]
    /\ pc' = [pc EXCEPT ![w] = "row"]
    /\ UNCHANGED <<due, audit, running, batch, seen, sent, released, faults, lapses>>

-----------------------------------------------------------------------------
(* One row of the batch *)

(* The row w is busy with: rows are taken in the order they were selected. *)
Current(w) == CHOOSE e \in batch[w] : \A f \in batch[w] : e <= f

(* The loop goes on with the row after the current one, or ends. *)
NextRow(w) ==
    /\ batch' = [batch EXCEPT ![w] = @ \ {Current(w)}]
    /\ seen' = [seen EXCEPT ![w][Current(w)] = 0]
    /\ pc' = [pc EXCEPT ![w] = IF batch[w] = {Current(w)} THEN "idle" ELSE "row"]

(* Mutant: the audit log is not consulted. *)
NoCheckAlreadyProcessed(w) ==
    /\ pc[w] = "row"
    /\ Current(w) \in EmailEvent
    /\ pc' = [pc EXCEPT ![w] = "send"]
    /\ UNCHANGED <<rows, audit, running, batch, seen, sent, released, faults, lapses>>

(* handleOutboxEvent, EmailVerificationRequested: has it been sent before? *)
CheckAlreadyProcessed(w) ==
    /\ pc[w] = "row"
    /\ Current(w) \in EmailEvent
    /\ pc' = [pc EXCEPT ![w] = IF audit[Current(w)] > 0 THEN "mark" ELSE "send"]
    /\ UNCHANGED <<rows, audit, running, batch, seen, sent, released, faults, lapses>>

SendEmail(w) ==
    /\ pc[w] = "send"
    /\ sent' = [sent EXCEPT ![Current(w)] = @ + 1]
    /\ pc' = [pc EXCEPT ![w] = "record"]
    /\ UNCHANGED <<rows, audit, running, batch, seen, released, faults, lapses>>

(* Mutant: the handler swallows the error. *)
SendFailureSwallowed(w) ==
    /\ pc[w] = "send"
    /\ pc' = [pc EXCEPT ![w] = "mark"]
    /\ UNCHANGED <<rows, audit, running, batch, seen, sent, released, faults, lapses>>

(* decryptSensitiveValue throws: unknown key version, altered ciphertext. *)
SendFails(w) ==
    /\ pc[w] = "send"
    /\ pc' = [pc EXCEPT ![w] = "fail"]
    /\ UNCHANGED <<rows, audit, running, batch, seen, sent, released, faults, lapses>>

RecordProcessed(w) ==
    /\ pc[w] = "record"
    /\ audit' = [audit EXCEPT ![Current(w)] = @ + 1]
    /\ pc' = [pc EXCEPT ![w] = "mark"]
    /\ UNCHANGED <<rows, running, batch, seen, sent, released, faults, lapses>>

(* Every other event type: no check, no record, cannot throw. *)
HandleOther(w) ==
    /\ pc[w] = "row"
    /\ Current(w) \notin EmailEvent
    /\ sent' = [sent EXCEPT ![Current(w)] = @ + 1]
    /\ pc' = [pc EXCEPT ![w] = "mark"]
    /\ UNCHANGED <<rows, audit, running, batch, seen, released, faults, lapses>>

(* Mutants: the WHERE clause forgets the holder; it names the row only. *)
MarkMatchesAnyHolder(w, e) == status[e] = "PROCESSING"
CatchMatchesAnyRow(w, e) == TRUE

(* WHERE id = row.id AND status = 'PROCESSING' AND locked_by = WORKER_ID *)
MarkMatches(w, e) == status[e] = "PROCESSING" /\ lockedBy[e] = w

(* WHERE id = row.id AND locked_by = WORKER_ID *)
CatchMatches(w, e) == lockedBy[e] = w

(* The update of a row by its holder: new status, lock dropped. *)
Unlock(e, new) ==
    /\ status' = [status EXCEPT ![e] = new]
    /\ lockedBy' = [lockedBy EXCEPT ![e] = NoWorker]
    /\ stale' = stale \ {e}

UpdateProcessed(w) ==
    IF MarkMatches(w, Current(w)) THEN Unlock(Current(w), "PROCESSED")
    ELSE UNCHANGED <<status, lockedBy, stale>>

MarkProcessed(w) ==
    /\ pc[w] = "mark"
    /\ UpdateProcessed(w)
    /\ NextRow(w)
    /\ UNCHANGED <<attempts, due, audit, running, sent, released, faults, lapses>>

(* catch: row.attempts is the value read before the claim incremented it. *)
DeadLetter(w) ==
    /\ pc[w] = "fail"
    /\ seen[w][Current(w)] >= MaxAttempts
    /\ IF CatchMatches(w, Current(w)) THEN Unlock(Current(w), "FAILED")
       ELSE UNCHANGED <<status, lockedBy, stale>>
    /\ NextRow(w)
    /\ UNCHANGED <<attempts, due, audit, running, sent, released, faults, lapses>>

(* Mutant: > for >= in the dead-letter condition. *)
RetryOnceMore(w) ==
    /\ pc[w] = "fail"
    /\ seen[w][Current(w)] <= MaxAttempts
    /\ IF CatchMatches(w, Current(w))
         THEN Unlock(Current(w), "PENDING") /\ due' = due \ {Current(w)}
         ELSE UNCHANGED <<status, lockedBy, stale, due>>
    /\ NextRow(w)
    /\ UNCHANGED <<attempts, audit, running, sent, released, faults, lapses>>

RetryLater(w) ==
    /\ pc[w] = "fail"
    /\ seen[w][Current(w)] < MaxAttempts
    /\ IF CatchMatches(w, Current(w))
         THEN Unlock(Current(w), "PENDING") /\ due' = due \ {Current(w)}
         ELSE UNCHANGED <<status, lockedBy, stale, due>>
    /\ NextRow(w)
    /\ UNCHANGED <<attempts, audit, running, sent, released, faults, lapses>>

-----------------------------------------------------------------------------
(* Failed database calls, crashes, shutdown *)

Fault == faults < MaxFaults /\ faults' = faults + 1

(* The release or the claim throws, the claim transaction rolls back:       *)
(* logged, and the loop sleeps until its next iteration.                    *)
IterationFails(w) ==
    /\ Fault
    /\ pc[w] \in {"select", "commit"} \/ (pc[w] = "idle" /\ running[w])
    /\ batch' = [batch EXCEPT ![w] = {}]
    /\ seen' = [seen EXCEPT ![w] = [e \in Event |-> 0]]
    /\ pc' = [pc EXCEPT ![w] = "idle"]
    /\ UNCHANGED <<rows, audit, running, sent, released, lapses>>

(* The audit lookup or insert throws inside the handler. *)
HandlerCallFails(w) ==
    /\ Fault
    /\ \/ pc[w] = "row" /\ Current(w) \in EmailEvent
       \/ pc[w] = "record"
    /\ pc' = [pc EXCEPT ![w] = "fail"]
    /\ UNCHANGED <<rows, audit, running, batch, seen, sent, released, lapses>>

(* The PROCESSED update throws, before or after the database applied it: in *)
(* both cases the catch block runs for an event that was handled.           *)
MarkFails(w) ==
    /\ Fault
    /\ pc[w] = "mark"
    /\ UpdateProcessed(w) \/ UNCHANGED <<status, lockedBy, stale>>
    /\ pc' = [pc EXCEPT ![w] = "fail"]
    /\ UNCHANGED <<attempts, due, audit, running, batch, seen, sent, released, lapses>>

(* An update of the catch block throws: the error leaves the for loop and    *)
(* the rest of the batch stays PROCESSING, locked, with nobody to handle it. *)
CatchFails(w) ==
    /\ Fault
    /\ pc[w] = "fail"
    /\ batch' = [batch EXCEPT ![w] = {}]
    /\ seen' = [seen EXCEPT ![w] = [e \in Event |-> 0]]
    /\ pc' = [pc EXCEPT ![w] = "idle"]
    /\ UNCHANGED <<rows, audit, running, sent, released, lapses>>

(* The process dies; an open claim transaction rolls back. *)
Crash(w) ==
    /\ w \notin Reliable
    /\ pc[w] \notin {"off", "dead"}
    /\ pc' = [pc EXCEPT ![w] = "dead"]
    /\ batch' = [batch EXCEPT ![w] = {}]
    /\ seen' = [seen EXCEPT ![w] = [e \in Event |-> 0]]
    /\ UNCHANGED <<rows, audit, running, sent, released, faults, lapses>>

(* SIGTERM, SIGINT: the iteration under way is finished first. *)
Shutdown(w) ==
    /\ w \notin Reliable
    /\ pc[w] \notin {"off", "dead"}
    /\ running[w]
    /\ running' = [running EXCEPT ![w] = FALSE]
    /\ UNCHANGED <<rows, audit, pc, batch, seen, sent, released, faults, lapses>>

Exit(w) ==
    /\ pc[w] = "idle"
    /\ ~running[w]
    /\ pc' = [pc EXCEPT ![w] = "dead"]
    /\ UNCHANGED <<rows, audit, running, batch, seen, sent, released, faults, lapses>>

-----------------------------------------------------------------------------
(* What process w does when nothing goes wrong with its database calls. *)
Step(w) ==
    \/ Start(w)
    \/ ReleaseStaleLocks(w)
    \/ SelectForUpdate(w)
    \/ CommitClaim(w)
    \/ CheckAlreadyProcessed(w)
    \/ SendEmail(w)
    \/ SendFails(w)
    \/ RecordProcessed(w)
    \/ HandleOther(w)
    \/ MarkProcessed(w)
    \/ DeadLetter(w)
    \/ RetryLater(w)
    \/ Exit(w)

Disturbance(w) ==
    \/ BatchLockExpires(w)
    \/ IterationFails(w)
    \/ HandlerCallFails(w)
    \/ MarkFails(w)
    \/ CatchFails(w)
    \/ Crash(w)
    \/ Shutdown(w)

Next ==
    \/ \E e \in Event : Append(e) \/ BackoffElapses(e)
    \/ \E w \in Worker : AbandonedLockExpires(w) \/ Step(w) \/ Disturbance(w)

Spec == Init /\ [][Next]_vars

(* Time passes, and a process that is not killed goes on with its loop.     *)
(* Nothing is assumed of disturbances, of producers, or of which of its     *)
(* outcomes a handler has.                                                  *)
Fairness ==
    /\ \A e \in Event : WF_vars(BackoffElapses(e))
    /\ \A w \in Worker : WF_vars(AbandonedLockExpires(w)) /\ WF_vars(Step(w))

FairSpec == Spec /\ Fairness

-----------------------------------------------------------------------------
(* Properties *)

(* The columns and the processes' locals keep their types. *)
TypeOK ==
    /\ status \in [Event -> Status]
    /\ lockedBy \in [Event -> Worker \cup {NoWorker}]
    /\ attempts \in [Event -> Nat]
    /\ due \subseteq Event
    /\ stale \subseteq Event
    /\ audit \in [Event -> Nat]
    /\ pc \in [Worker -> PC]
    /\ running \in [Worker -> BOOLEAN]
    /\ batch \in [Worker -> SUBSET Event]
    /\ seen \in [Worker -> [Event -> Nat]]
    /\ sent \in [Event -> Nat]
    /\ released \in [Event -> Nat]
    /\ faults \in Nat
    /\ lapses \in Nat

(* As long as no lock expires under a busy worker, two processes never have  *)
(* the same event in hand: what FOR UPDATE SKIP LOCKED, the PROCESSING mark  *)
(* and the stale-lock release promise together (ADR-017).                    *)
ExclusiveHandling ==
    lapses = 0 =>
        \A v, w \in Worker : \A e \in Event : e \in batch[v] /\ e \in batch[w] => v = w

(* A lock ends only by a write of its holder, for the row it is handling, or *)
(* by the release of a stale lock: a worker whose lock expired and was taken *)
(* over cannot overwrite the work of the newer one (main.ts:40-44).          *)
LockEndsByHolderOrExpiry ==
    [][\A e \in Event :
          lockedBy[e] # NoWorker /\ lockedBy'[e] # lockedBy[e] =>
             \/ e \in stale
             \/ /\ e \in batch[lockedBy[e]]
                /\ e = Current(lockedBy[e])
                /\ pc[lockedBy[e]] \in {"mark", "fail"}]_vars

(* PROCESSED and FAILED rows are never written again: no late mark, retry or *)
(* stale-lock release resurrects an event.                                   *)
TerminalIsFinal ==
    [][\A e \in Event : status[e] \in Terminal => status'[e] = status[e]]_vars

(* No event is marked PROCESSED that was not handled, and an email event has *)
(* its audit entry by then: the outbox loses nothing.                        *)
ProcessedWasHandled ==
    \A e \in Event :
        status[e] = "PROCESSED" => sent[e] > 0 /\ (e \in EmailEvent => audit[e] > 0)

(* Every attempt beyond the configured ones was preceded by the release of a *)
(* stale lock: failing handlers alone cannot exceed MAX_ATTEMPTS + 1 claims. *)
AttemptsBounded ==
    \A e \in Event : attempts[e] <= MaxAttempts + 1 + released[e]

(* An event is given up only after every attempt it has a right to. *)
NoEarlyDeadLetter ==
    \A e \in Event : status[e] = "FAILED" => attempts[e] > MaxAttempts

(* Both boundaries of the dead letter (main.ts:55).                          *)
AttemptsAccounted == AttemptsBounded /\ NoEarlyDeadLetter

(* The audit log makes the handler idempotent against crashes and retries:   *)
(* unless a lock expired under a busy worker, an email with an audit entry   *)
(* is not sent again and is entered only once.                               *)
SentOnceRecorded ==
    lapses = 0 => \A e \in EmailEvent :
        /\ audit[e] <= 1
        /\ audit[e] = 1 => ~\E w \in Worker : e \in batch[w] /\ e = Current(w)
                                              /\ pc[w] \in {"send", "record"}

(* A row nobody handles is not lost: every event that was appended is        *)
(* eventually PROCESSED or FAILED if one process survives.                   *)
EventuallySettled ==
    \A e \in Event : status[e] = "PENDING" ~> status[e] \in Terminal

(* The outbox implements at-least-once delivery: see EventDelivery.          *)
Delivery == INSTANCE EventDelivery WITH
    open <- {e \in Event : status[e] \in {"PENDING", "PROCESSING"}},
    delivered <- {e \in Event : sent[e] > 0},
    done <- {e \in Event : status[e] = "PROCESSED"},
    givenUp <- {e \in Event : status[e] = "FAILED"}

AtLeastOnceDelivery == Delivery!Spec
=============================================================================
