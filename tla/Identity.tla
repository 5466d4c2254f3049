------------------------------- MODULE Identity -------------------------------
(***************************************************************************)
(* Logins, sessions and password resets: apps/api/src/modules/identity,     *)
(* AuthService with its three repositories.                                 *)
(*                                                                         *)
(* A request is one execution of login, refresh, logout,                    *)
(* requestPasswordReset or resetPassword, one step per statement.  Only     *)
(* refresh opens a transaction; every other statement commits by itself,    *)
(* and READ COMMITTED lets any other request in between two of them.        *)
(*                                                                         *)
(* A session, a family and a reset token are named by the request that      *)
(* created them: a raw token is random, so presenting one is naming its     *)
(* row.  That the presented password is the right one is an input.  An      *)
(* expired or unknown token only refuses a request before it has changed    *)
(* anything, as does an address with no account; Fail covers the inactive   *)
(* account.                                                                 *)
(***************************************************************************)
EXTENDS Naturals

CONSTANTS
    User,          \* accounts
    Request,       \* executions of routes; a bound on the length of behaviours
    None,          \* no request, hence no session, family or token
    MaxFailures    \* FAILED_LOGIN_LOCK_THRESHOLD, 5 in the code

ASSUME NamesAssumption == None \notin Request /\ None \notin User
ASSUME MaxFailuresAssumption == MaxFailures \in Nat \ {0}

VARIABLES
    failed,      \* failed[u]: users.failed_login_attempts
    locked,      \* locked[u]: users.locked_until is in the future
    password,    \* password[u]: the reset that wrote users.password_hash, None at first
    family,      \* family[s]: sessions.family_id, None while s does not exist
    owner,       \* owner[s]: sessions.user_id
    revoked,     \* revoked[s]: sessions.revoked_reason, "NO" while revoked_at is null
    replacedBy,  \* replacedBy[s]: sessions.replaced_by_session_id
    rowLock,     \* rowLock[s]: the open rotation that has updated row s
    token,       \* token[t]: password_reset_tokens, "absent", "valid" or "consumed"
    tokenUser,   \* tokenUser[t]: its user_id
    pc,          \* pc[r]: the next statement of request r
    req,         \* req[r]: what the request is about and has read
    failures     \* history: failures[u] counts the failed logins written down

account == <<failed, locked, password>>
sessions == <<family, owner, revoked, replacedBy>>
tokens == <<token, tokenUser>>
vars == <<account, sessions, rowLock, tokens, pc, req, failures>>

Reason == {"ROTATED", "REUSE_DETECTED", "LOGOUT", "PASSWORD_RESET"}

PC == {"new", "failing", "counting", "succeeding", "opening",
       "rotating", "replacing", "loading", "reusing", "leaving",
       "issuing", "writing", "sweeping", "revoking", "done", "refused"}

Ended == {"done", "refused"}

Exists(s) == family[s] # None

(* revokedAt IS NULL: the session accepts its token. *)
Active(s) == Exists(s) /\ revoked[s] = "NO"

(* What a request that has read nothing knows. *)
Nothing == [user |-> None, session |-> None, token |-> None,
            count |-> 0, locked |-> FALSE, seen |-> {}]

Init ==
    /\ failed = [u \in User |-> 0]
    /\ locked = [u \in User |-> FALSE]
    /\ password = [u \in User |-> None]
    /\ family = [s \in Request |-> None]
    /\ owner = [s \in Request |-> None]
    /\ revoked = [s \in Request |-> "NO"]
    /\ replacedBy = [s \in Request |-> None]
    /\ rowLock = [s \in Request |-> None]
    /\ token = [t \in Request |-> "absent"]
    /\ tokenUser = [t \in Request |-> None]
    /\ pc = [r \in Request |-> "new"]
    /\ req = [r \in Request |-> Nothing]
    /\ failures = [u \in User |-> 0]

Goto(r, next) == pc' = [pc EXCEPT ![r] = next]

-----------------------------------------------------------------------------
(* login reads the account, refuses a locked one and verifies the password.  *)
StartLogin(r, u) ==
    /\ pc[r] = "new"
    /\ ~locked[u]
    /\ req' = [req EXCEPT ![r].user = u]
    /\ \/ Goto(r, "failing")
       \/ Goto(r, "succeeding")
    /\ UNCHANGED <<account, sessions, rowLock, tokens, failures>>

(* registerFailedLogin reads the counter and the lock ... *)
ReadAttempts(r) ==
    LET u == req[r].user
    IN  /\ pc[r] = "failing"
        /\ req' = [req EXCEPT ![r].count = failed[u], ![r].locked = locked[u]]
        /\ Goto(r, "counting")
        /\ UNCHANGED <<account, sessions, rowLock, tokens, failures>>

(* Mutant: one failure too early *)
LocksEarly(attempts) == attempts + 1 >= MaxFailures

Locks(attempts) == attempts >= MaxFailures

(* ... and writes back both, whatever has become of them: below the threshold *)
(* the lock is the one read, which may be over by now.                        *)
CountFailure(r) ==
    LET u == req[r].user
        attempts == req[r].count + 1
    IN  /\ pc[r] = "counting"
        /\ failed' = [failed EXCEPT ![u] = attempts]
        /\ \E l \in IF Locks(attempts) THEN {TRUE} ELSE {FALSE, req[r].locked} :
               locked' = [locked EXCEPT ![u] = l]
        /\ failures' = [failures EXCEPT ![u] = @ + 1]
        /\ Goto(r, "refused")
        /\ UNCHANGED <<password, sessions, rowLock, tokens, req>>

(* Time: locked_until is reached, in the row and in what was read of it. *)
LockExpires(u) ==
    /\ locked[u]
    /\ locked' = [locked EXCEPT ![u] = FALSE]
    /\ req' = [r \in Request |->
                  IF req[r].user = u THEN [req[r] EXCEPT !.locked = FALSE] ELSE req[r]]
    /\ UNCHANGED <<failed, password, sessions, rowLock, tokens, pc, failures>>

ResetFailedLogins(r) ==
    LET u == req[r].user
    IN  /\ pc[r] = "succeeding"
        /\ failed' = [failed EXCEPT ![u] = 0]
        /\ locked' = [locked EXCEPT ![u] = FALSE]
        /\ Goto(r, "opening")
        /\ UNCHANGED <<password, sessions, rowLock, tokens, req, failures>>

(* SessionRepository.create, in a family of its own. *)
OpenSession(r) ==
    /\ pc[r] = "opening"
    /\ family' = [family EXCEPT ![r] = r]
    /\ owner' = [owner EXCEPT ![r] = req[r].user]
    /\ Goto(r, "done")
    /\ UNCHANGED <<account, revoked, replacedBy, rowLock, tokens, req, failures>>

-----------------------------------------------------------------------------

(* refresh, findAnyByHash: the session of the token, revoked or not. *)
Present(r, s) ==
    /\ pc[r] = "new"
    /\ Exists(s)
    /\ req' = [req EXCEPT ![r].session = s, ![r].user = owner[s]]
    /\ Goto(r, "rotating")
    /\ UNCHANGED <<account, sessions, rowLock, tokens, failures>>

(* Mutant: WHERE id = sessionId *)
RotatableAnyway(s) == Exists(s)

(* WHERE id = sessionId AND revokedAt IS NULL *)
Rotatable(s) == Active(s)

(* Mutant: rotation without a transaction. *)
RevokeOldAtOnce(r) ==
    LET s == req[r].session
    IN  /\ pc[r] = "rotating"
        /\ rowLock[s] = None
        /\ Rotatable(s)
        /\ revoked' = [revoked EXCEPT ![s] = "ROTATED"]
        /\ Goto(r, "replacing")
        /\ UNCHANGED <<account, family, owner, replacedBy, rowLock, tokens, req, failures>>

(* rotateIfActive, the conditional update: it waits for the row, and its      *)
(* effect is seen when the transaction commits.                               *)
RevokeOld(r) ==
    LET s == req[r].session
    IN  /\ pc[r] = "rotating"
        /\ rowLock[s] = None
        /\ Rotatable(s)
        /\ rowLock' = [rowLock EXCEPT ![s] = r]
        /\ Goto(r, "replacing")
        /\ UNCHANGED <<account, sessions, tokens, req, failures>>

(* count = 0 *)
ReuseDetected(r) ==
    LET s == req[r].session
    IN  /\ pc[r] = "rotating"
        /\ rowLock[s] = None
        /\ ~Rotatable(s)
        /\ Goto(r, "reusing")
        /\ UNCHANGED <<account, sessions, rowLock, tokens, req, failures>>

(* Mutant: familyId is not passed on. *)
CommitRotationElsewhere(r) ==
    LET s == req[r].session
    IN  /\ pc[r] = "replacing"
        /\ family' = [family EXCEPT ![r] = r]
        /\ owner' = [owner EXCEPT ![r] = owner[s]]
        /\ revoked' = [revoked EXCEPT ![s] = "ROTATED"]
        /\ replacedBy' = [replacedBy EXCEPT ![s] = r]
        /\ rowLock' = [rowLock EXCEPT ![s] = None]
        /\ Goto(r, "loading")
        /\ UNCHANGED <<account, tokens, req, failures>>

(* The new session, the link to it, and the commit. *)
CommitRotation(r) ==
    LET s == req[r].session
    IN  /\ pc[r] = "replacing"
        /\ family' = [family EXCEPT ![r] = family[s]]
        /\ owner' = [owner EXCEPT ![r] = owner[s]]
        /\ revoked' = [revoked EXCEPT ![s] = "ROTATED"]
        /\ replacedBy' = [replacedBy EXCEPT ![s] = r]
        /\ rowLock' = [rowLock EXCEPT ![s] = None]
        /\ Goto(r, "loading")
        /\ UNCHANGED <<account, tokens, req, failures>>

(* findById, and the answer with both tokens. *)
LoadUser(r) ==
    /\ pc[r] = "loading"
    /\ Goto(r, "done")
    /\ UNCHANGED <<account, sessions, rowLock, tokens, req, failures>>

-----------------------------------------------------------------------------
(* A revocation of several sessions is one UPDATE.  It takes the rows that    *)
(* match when it starts: revokeFamily those of the family ...                 *)
StartRevokeFamily(r) ==
    /\ pc[r] = "reusing"
    /\ req' = [req EXCEPT ![r].seen =
                  {s \in Request : Active(s) /\ family[s] = family[req[r].session]}]
    /\ Goto(r, "revoking")
    /\ UNCHANGED <<account, sessions, rowLock, tokens, failures>>

(* ... revokeAllForUser those of the account. *)
StartRevokeAll(r) ==
    /\ pc[r] = "sweeping"
    /\ req' = [req EXCEPT ![r].seen =
                  {s \in Request : Active(s) /\ owner[s] = req[r].user}]
    /\ Goto(r, "revoking")
    /\ UNCHANGED <<account, sessions, rowLock, tokens, failures>>

ReasonOf(r) == IF req[r].token = None THEN "REUSE_DETECTED" ELSE "PASSWORD_RESET"

(* Mutant: FOR UPDATE SKIP LOCKED *)
RevokeSeenUnlocked(r) ==
    /\ pc[r] = "revoking"
    /\ revoked' = [s \in Request |->
                      IF s \in req[r].seen /\ Active(s) /\ rowLock[s] = None
                        THEN ReasonOf(r) ELSE revoked[s]]
    /\ Goto(r, IF req[r].token = None THEN "refused" ELSE "done")
    /\ UNCHANGED <<account, family, owner, replacedBy, rowLock, tokens, req, failures>>

(* It waits for the rotations that hold one of those rows, and revokes the    *)
(* rows that still match then.  A reused token is refused, a reset answered.  *)
RevokeSeen(r) ==
    /\ pc[r] = "revoking"
    /\ \A s \in req[r].seen : rowLock[s] = None
    /\ revoked' = [s \in Request |->
                      IF s \in req[r].seen /\ Active(s) THEN ReasonOf(r) ELSE revoked[s]]
    /\ Goto(r, IF req[r].token = None THEN "refused" ELSE "done")
    /\ UNCHANGED <<account, family, owner, replacedBy, rowLock, tokens, req, failures>>

-----------------------------------------------------------------------------
(* logout, findActiveByHash. *)
FindActive(r, s) ==
    /\ pc[r] = "new"
    /\ Active(s)
    /\ req' = [req EXCEPT ![r].session = s, ![r].user = owner[s]]
    /\ Goto(r, "leaving")
    /\ UNCHANGED <<account, sessions, rowLock, tokens, failures>>

(* revoke: WHERE id = sessionId, over whatever has been written since. *)
RevokeById(r) ==
    LET s == req[r].session
    IN  /\ pc[r] = "leaving"
        /\ rowLock[s] = None
        /\ revoked' = [revoked EXCEPT ![s] = "LOGOUT"]
        /\ Goto(r, "done")
        /\ UNCHANGED <<account, family, owner, replacedBy, rowLock, tokens, req, failures>>

-----------------------------------------------------------------------------
(* requestPasswordReset, createPasswordReset: the valid tokens of the account *)
(* are consumed ...                                                           *)
InvalidateTokens(r, u) ==
    /\ pc[r] = "new"
    /\ token' = [t \in Request |->
                    IF token[t] = "valid" /\ tokenUser[t] = u THEN "consumed" ELSE token[t]]
    /\ req' = [req EXCEPT ![r].user = u]
    /\ Goto(r, "issuing")
    /\ UNCHANGED <<account, sessions, rowLock, tokenUser, failures>>

(* ... and, by a second statement, a new one is created. *)
IssueToken(r) ==
    /\ pc[r] = "issuing"
    /\ token' = [token EXCEPT ![r] = "valid"]
    /\ tokenUser' = [tokenUser EXCEPT ![r] = req[r].user]
    /\ Goto(r, "done")
    /\ UNCHANGED <<account, sessions, rowLock, req, failures>>

(* Mutant: WHERE token_hash = ? *)
ConsumableAgain(t) == token[t] # "absent"

(* WHERE token_hash = ? AND consumed_at IS NULL *)
Consumable(t) == token[t] = "valid"

(* resetPassword, consumePasswordReset: count = 1, and the user of the token. *)
ConsumeToken(r, t) ==
    /\ pc[r] = "new"
    /\ Consumable(t)
    /\ token' = [token EXCEPT ![t] = "consumed"]
    /\ req' = [req EXCEPT ![r].token = t, ![r].user = tokenUser[t]]
    /\ Goto(r, "writing")
    /\ UNCHANGED <<account, sessions, rowLock, tokenUser, failures>>

UpdatePasswordHash(r) ==
    /\ pc[r] = "writing"
    /\ password' = [password EXCEPT ![req[r].user] = r]
    /\ Goto(r, "sweeping")
    /\ UNCHANGED <<failed, locked, sessions, rowLock, tokens, req, failures>>

-----------------------------------------------------------------------------
(* Mutant: the transaction is left open. *)
FailKeepingRow(r) ==
    /\ pc[r] \notin Ended \cup {"new"}
    /\ Goto(r, "refused")
    /\ UNCHANGED <<account, sessions, rowLock, tokens, req, failures>>

(* A statement fails, the process dies, or the account is inactive: an open   *)
(* transaction rolls back, what was committed stays.                          *)
Fail(r) ==
    /\ pc[r] \notin Ended \cup {"new"}
    /\ rowLock' = [s \in Request |-> IF rowLock[s] = r THEN None ELSE rowLock[s]]
    /\ Goto(r, "refused")
    /\ UNCHANGED <<account, sessions, tokens, req, failures>>

(* A request goes on to its next statement. *)
Advance(r) ==
    \/ ReadAttempts(r) \/ CountFailure(r) \/ ResetFailedLogins(r) \/ OpenSession(r)
    \/ RevokeOld(r) \/ ReuseDetected(r) \/ CommitRotation(r) \/ LoadUser(r)
    \/ StartRevokeFamily(r) \/ StartRevokeAll(r) \/ RevokeSeen(r) \/ RevokeById(r)
    \/ IssueToken(r) \/ UpdatePasswordHash(r)

Next ==
    \/ \E r \in Request, u \in User : StartLogin(r, u) \/ InvalidateTokens(r, u)
    \/ \E r, s \in Request : Present(r, s) \/ FindActive(r, s) \/ ConsumeToken(r, s)
    \/ \E r \in Request : Advance(r) \/ Fail(r)
    \/ \E u \in User : LockExpires(u)

Spec == Init /\ [][Next]_vars

(* The API goes on with a request it has begun, and PostgreSQL serves a        *)
(* statement once the row it waits for is free.  Nothing makes a request       *)
(* start, fail, or a lock expire.                                              *)
FairSpec == Spec /\ \A r \in Request : WF_vars(Advance(r))

-----------------------------------------------------------------------------
Knowledge ==
    [user : User \cup {None}, session : Request \cup {None}, token : Request \cup {None},
     count : Nat, locked : BOOLEAN, seen : SUBSET Request]

(* What a request must have learnt to be at its statement. *)
KnowsUser == {"failing", "counting", "succeeding", "opening", "issuing", "writing", "sweeping"}
KnowsSession == {"rotating", "replacing", "loading", "reusing", "leaving"}

(* Every column keeps its type; a request that acts on an account or a session *)
(* has found one.                                                              *)
TypeOK ==
    /\ failed \in [User -> Nat]
    /\ locked \in [User -> BOOLEAN]
    /\ password \in [User -> Request \cup {None}]
    /\ family \in [Request -> Request \cup {None}]
    /\ owner \in [Request -> User \cup {None}]
    /\ revoked \in [Request -> Reason \cup {"NO"}]
    /\ replacedBy \in [Request -> Request \cup {None}]
    /\ rowLock \in [Request -> Request \cup {None}]
    /\ token \in [Request -> {"absent", "valid", "consumed"}]
    /\ tokenUser \in [Request -> User \cup {None}]
    /\ pc \in [Request -> PC]
    /\ req \in [Request -> Knowledge]
    /\ failures \in [User -> Nat]
    /\ \A r \in Request : pc[r] \in KnowsUser => req[r].user \in User
    /\ \A r \in Request : pc[r] \in KnowsSession =>
           req[r].session \in Request /\ Exists(req[r].session)

(* However many refreshes present one token at once, however they interleave   *)
(* with logouts and resets, a login has at most one session that is accepted   *)
(* (ADR-014: never two valid sessions from one token).                         *)
OneLivePerFamily ==
    \A s, t \in Request : Active(s) /\ Active(t) /\ family[s] = family[t] => s = t

(* A rotation happens as a whole, whatever fails in it: a session revoked as   *)
(* rotated has its successor, in its family and of its owner, and one that has *)
(* a successor is not accepted any more.                                       *)
RotationIsWhole ==
    \A s \in Request :
        /\ revoked[s] = "ROTATED" => replacedBy[s] # None
        /\ replacedBy[s] # None =>
               /\ revoked[s] # "NO"
               /\ family[replacedBy[s]] = family[s]
               /\ owner[replacedBy[s]] = owner[s]

(* A revocation of many that has been answered has reached every session it    *)
(* found, also one that a rotation held and gave back by failing.              *)
RevokedAsSeen ==
    \A r \in Request : pc[r] = "done" =>
        \A s \in req[r].seen : revoked[s] # "NO"

(* Concurrent failures may be lost from the counter and stale counts may come  *)
(* back after a successful login, but nobody is locked out before the          *)
(* threshold of failed logins.                                                 *)
LockNeedsFailures ==
    \A u \in User : locked[u] => failures[u] >= MaxFailures

(* A reset token changes a password once, the password of its account          *)
(* (ADR-020: of two calls with one token, one succeeds).                       *)
ResetOncePerToken ==
    /\ \A r, q \in Request : req[r].token # None /\ req[r].token = req[q].token => r = q
    /\ \A u \in User : password[u] # None =>
           req[password[u]].token # None /\ tokenUser[req[password[u]].token] = u

(* The refinement mapping: the accepted session of every family.               *)
good == [f \in Request |->
            IF \E s \in Request : Active(s) /\ family[s] = f
              THEN CHOOSE s \in Request : Active(s) /\ family[s] = f
              ELSE None]
issued == {s \in Request : Exists(s)}

Families == INSTANCE TokenFamily WITH Session <- Request

(* The sessions table is a set of families of tokens, one good at a time.      *)
ImplementsTokenFamily == Families!Spec

(* Every request ends, also one that waits for the row of a rotation, which    *)
(* may fail.                                                                   *)
RequestsEnd == \A r \in Request : pc[r] # "new" ~> pc[r] \in Ended
=============================================================================
