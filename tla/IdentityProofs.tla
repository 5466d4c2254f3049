---------------------------- MODULE IdentityProofs ----------------------------
(***************************************************************************)
(* Theorems about Identity, for any number of accounts and requests and any *)
(* threshold.  The inductive invariant has three parts that do not need one *)
(* another, one per table: SessionInv, TokenInv and LockInv.                *)
(***************************************************************************)
EXTENDS Identity, TLAPS

USE NamesAssumption, MaxFailuresAssumption

(* Columns and locals. *)
Types ==
    /\ failed \in [User -> Nat]
    /\ locked \in [User -> BOOLEAN]
    /\ password \in [User -> Request \cup {None}]
    /\ family \in [Request -> Request \cup {None}]
    /\ owner \in [Request -> User \cup {None}]
    /\ revoked \in [Request -> Reason \cup {"NO"}]
    /\ replacedBy \in [Request -> Request \cup {None}]
    /\ rowLock \in [Request -> Request \cup {None}]
    /\ token \in [Request -> {"absent", "valid", "consumed"}]
    /\ tokenUser \in [Request -> User \cup {None}]
    /\ pc \in [Request -> PC]
    /\ req \in [Request -> Knowledge]
    /\ failures \in [User -> Nat]

(* What a request has found is there: an account, a session, a token of an   *)
(* account.                                                                  *)
KnownUser == \A r \in Request : pc[r] \in KnowsUser => req[r].user \in User
KnownSession ==
    \A r \in Request : pc[r] \in KnowsSession =>
        req[r].session \in Request /\ Exists(req[r].session)
KnownOwner ==
    /\ \A s \in Request : Exists(s) => owner[s] \in User
    /\ \A t \in Request : token[t] # "absent" => tokenUser[t] \in User

Typed == Types /\ KnownUser /\ KnownSession /\ KnownOwner

(* A request creates its session and its token by one step, after which it    *)
(* creates nothing.                                                           *)
FreshSession == \A r \in Request : Exists(r) => pc[r] \in Ended \cup {"loading"}
FreshToken == \A r \in Request : token[r] # "absent" => pc[r] \in Ended

(* A row is held by the rotation that has updated it, and is accepted until   *)
(* that commits.                                                              *)
HolderRotates ==
    \A s \in Request : rowLock[s] # None =>
        pc[rowLock[s]] = "replacing" /\ req[rowLock[s]].session = s
RotationHolds ==
    \A r \in Request : pc[r] = "replacing" =>
        rowLock[req[r].session] = r /\ Active(req[r].session)

(* A family is named by a session of its own. *)
Rooted == \A s \in Request : Exists(s) => Exists(family[s])

(* A session that does not exist yet is not revoked. *)
UnusedIsLive == \A s \in Request : ~Exists(s) => revoked[s] = "NO"

(* Only an existing session has a successor. *)
Replaced == \A s \in Request : replacedBy[s] # None => Exists(s)

(* A revocation has found existing sessions; no other step finds any. *)
SeenExist == \A r \in Request : \A s \in req[r].seen : Exists(s)
SeenNothing ==
    \A r \in Request : pc[r] \notin Ended \cup {"revoking"} => req[r].seen = {}

SessionInv ==
    /\ FreshSession /\ HolderRotates /\ RotationHolds /\ Rooted /\ UnusedIsLive /\ Replaced
    /\ SeenExist /\ SeenNothing
    /\ OneLivePerFamily /\ RotationIsWhole /\ RevokedAsSeen

(* A token in a request's hands is consumed, and was found by this request    *)
(* for the account whose password it writes.                                  *)
NewHasNoToken == \A r \in Request : pc[r] = "new" => req[r].token = None
HeldIsConsumed == \A r \in Request : req[r].token # None => token[req[r].token] = "consumed"
WriterHasToken ==
    \A r \in Request : pc[r] = "writing" =>
        req[r].token # None /\ tokenUser[req[r].token] = req[r].user

TokenInv == FreshToken /\ NewHasNoToken /\ HeldIsConsumed /\ WriterHasToken /\ ResetOncePerToken

(* A counter, in its column or as read, never runs ahead of the failures.      *)
FailedBounded == \A u \in User : failed[u] <= failures[u]
ReadBounded ==
    \A r \in Request : pc[r] = "counting" =>
        /\ req[r].count <= failures[req[r].user]
        /\ req[r].locked => failures[req[r].user] >= MaxFailures

LockInv == FailedBounded /\ ReadBounded /\ LockNeedsFailures

IInv == Typed /\ SessionInv /\ TokenInv /\ LockInv

-----------------------------------------------------------------------------

(* A local of a request keeps its type, and the rest of what the request    *)
(* knows, when a part of it is learnt.                                       *)
LEMMA KnowledgeKept ==
    ASSUME NEW k \in Knowledge
    PROVE  /\ \A u \in User : [k EXCEPT !.user = u] \in Knowledge
           /\ \A s \in Request, u \in User :
                  [k EXCEPT !.session = s, !.user = u] \in Knowledge
           /\ \A t \in Request, u \in User :
                  [k EXCEPT !.token = t, !.user = u] \in Knowledge
           /\ \A n \in Nat, l \in BOOLEAN :
                  [k EXCEPT !.count = n, !.locked = l] \in Knowledge
           /\ [k EXCEPT !.locked = FALSE] \in Knowledge
           /\ [k EXCEPT !.locked = FALSE].user = k.user
           /\ [k EXCEPT !.locked = FALSE].session = k.session
<1>1. \A u \in User : [k EXCEPT !.user = u] \in Knowledge
  BY DEF Knowledge
<1>2. \A s \in Request, u \in User : [k EXCEPT !.session = s, !.user = u] \in Knowledge
  BY DEF Knowledge
<1>3. \A t \in Request, u \in User : [k EXCEPT !.token = t, !.user = u] \in Knowledge
  BY DEF Knowledge
<1>4. \A n \in Nat, l \in BOOLEAN : [k EXCEPT !.count = n, !.locked = l] \in Knowledge
  BY DEF Knowledge
<1>5. [k EXCEPT !.locked = FALSE] \in Knowledge
  BY DEF Knowledge
<1>6. /\ [k EXCEPT !.locked = FALSE].user = k.user
      /\ [k EXCEPT !.locked = FALSE].session = k.session
  BY DEF Knowledge
<1>7. QED
  BY <1>1, <1>2, <1>3, <1>4, <1>5, <1>6

(* Every action keeps the types and finds what it acts on.                   *)
LEMMA TypedStep ==
    ASSUME Typed, [Next]_vars
    PROVE  Typed'
<1> USE DEF Goto, Typed, Types, KnownUser, KnownSession, KnownOwner, Exists,
        Knowledge, KnowsUser, KnowsSession, PC, Reason, Ended, account,
        sessions, tokens
<1>1. ASSUME NEW r \in Request, NEW u \in User, StartLogin(r, u)
      PROVE  Typed'
  <2>1. req[r] \in Knowledge
    OBVIOUS
  <2>2. [req[r] EXCEPT !.user = u] \in Knowledge
    BY <2>1, KnowledgeKept, Zenon
  <2>3. req' = [req EXCEPT ![r] = [req[r] EXCEPT !.user = u]]
    BY <1>1 DEF StartLogin
  <2>4. req' \in [Request -> Knowledge]
    BY <2>2, <2>3, Zenon
  <2>5. /\ pc[r] = "new" /\ \A q \in Request : q # r => pc'[q] = pc[q]
        /\ pc' \in [Request -> PC] /\ pc'[r] \in {"failing", "succeeding"}
        /\ UNCHANGED <<account, sessions, rowLock, tokens, failures>>
    BY <1>1 DEF StartLogin
  <2>6. Types'
    BY <2>4, <2>5
  <2>7. /\ req'[r].user = u
        /\ \A q \in Request : /\ req'[q].session = req[q].session
                              /\ q # r => req'[q] = req[q]
    BY <2>1, <2>3
  <2>8. KnownUser' /\ KnownSession' /\ KnownOwner'
    BY <2>5, <2>7
  <2> QED
    BY <2>6, <2>8
<1>2. ASSUME NEW r \in Request, NEW u \in User, InvalidateTokens(r, u)
      PROVE  Typed'
  <2>1. req[r] \in Knowledge
    OBVIOUS
  <2>2. [req[r] EXCEPT !.user = u] \in Knowledge
    BY <2>1, KnowledgeKept, Zenon
  <2>3. req' = [req EXCEPT ![r] = [req[r] EXCEPT !.user = u]]
    BY <1>2 DEF InvalidateTokens
  <2>4. req' \in [Request -> Knowledge]
    BY <2>2, <2>3, Zenon
  <2>5. Types'
    BY <1>2, <2>4 DEF InvalidateTokens
  <2>6. QED
    BY <1>2, <2>5 DEF InvalidateTokens
<1>3. ASSUME NEW r \in Request, NEW s \in Request, Present(r, s)
      PROVE  Typed'
  <2>1. owner[s] \in User
    BY <1>3 DEF Present
  <2>2. req[r] \in Knowledge
    OBVIOUS
  <2>3. [req[r] EXCEPT !.session = s, !.user = owner[s]] \in Knowledge
    BY <2>1, <2>2, KnowledgeKept, Zenon
  <2>4. req' = [req EXCEPT ![r] = [req[r] EXCEPT !.session = s, !.user = owner[s]]]
    BY <1>3 DEF Present
  <2>5. req' \in [Request -> Knowledge]
    BY <2>3, <2>4, Zenon
  <2>6. Types'
    BY <1>3, <2>5 DEF Present
  <2>7. QED
    BY <1>3, <2>6 DEF Present
<1>4. ASSUME NEW r \in Request, NEW s \in Request, FindActive(r, s)
      PROVE  Typed'
  <2>1. owner[s] \in User
    BY <1>4 DEF FindActive, Active
  <2>2. req[r] \in Knowledge
    OBVIOUS
  <2>3. [req[r] EXCEPT !.session = s, !.user = owner[s]] \in Knowledge
    BY <2>1, <2>2, KnowledgeKept, Zenon
  <2>4. req' = [req EXCEPT ![r] = [req[r] EXCEPT !.session = s, !.user = owner[s]]]
    BY <1>4 DEF FindActive, Active
  <2>5. req' \in [Request -> Knowledge]
    BY <2>3, <2>4, Zenon
  <2>6. Types'
    BY <1>4, <2>5 DEF FindActive, Active
  <2>7. QED
    BY <1>4, <2>6 DEF FindActive, Active
<1>5. ASSUME NEW r \in Request, NEW s \in Request, ConsumeToken(r, s)
      PROVE  Typed'
  <2>1. tokenUser[s] \in User
    BY <1>5 DEF ConsumeToken, Consumable
  <2>2. req[r] \in Knowledge
    OBVIOUS
  <2>3. [req[r] EXCEPT !.token = s, !.user = tokenUser[s]] \in Knowledge
    BY <2>1, <2>2, KnowledgeKept, Zenon
  <2>4. req' = [req EXCEPT ![r] = [req[r] EXCEPT !.token = s, !.user = tokenUser[s]]]
    BY <1>5 DEF ConsumeToken, Consumable
  <2>5. req' \in [Request -> Knowledge]
    BY <2>3, <2>4, Zenon
  <2>6. Types'
    BY <1>5, <2>5 DEF ConsumeToken, Consumable
  <2>7. QED
    BY <1>5, <2>6 DEF ConsumeToken, Consumable
<1>6. ASSUME NEW r \in Request, ReadAttempts(r)
      PROVE  Typed'
  <2>1. failed[req[r].user] \in Nat /\ locked[req[r].user] \in BOOLEAN
    BY <1>6 DEF ReadAttempts
  <2>2. req[r] \in Knowledge
    OBVIOUS
  <2>3. [req[r] EXCEPT !.count = failed[req[r].user], !.locked = locked[req[r].user]] \in Knowledge
    BY <2>1, <2>2, KnowledgeKept, Zenon
  <2>4. req' = [req EXCEPT ![r] = [req[r] EXCEPT !.count = failed[req[r].user], !.locked = locked[req[r].user]]]
    BY <1>6 DEF ReadAttempts
  <2>5. req' \in [Request -> Knowledge]
    BY <2>3, <2>4, Zenon
  <2>6. Types'
    BY <1>6, <2>5 DEF ReadAttempts
  <2>7. \A q \in Request : req'[q].user = req[q].user /\ req'[q].session = req[q].session
    BY <2>2, <2>4
  <2>8. /\ UNCHANGED <<account, sessions, rowLock, tokens>>
        /\ \A q \in Request : pc'[q] = IF q = r THEN "counting" ELSE pc[q]
        /\ pc[r] = "failing"
    BY <1>6 DEF ReadAttempts, Goto
  <2>9. KnownUser' /\ KnownSession' /\ KnownOwner'
    BY <2>7, <2>8
  <2> QED
    BY <2>6, <2>9
<1>7. ASSUME NEW r \in Request, CountFailure(r)
      PROVE  Typed'
  <2>1. req[r].user \in User /\ req[r].count + 1 \in Nat /\ req[r].locked \in BOOLEAN
    BY <1>7 DEF CountFailure, Locks
  <2>2. locked' \in [User -> BOOLEAN]
    BY <1>7, <2>1 DEF CountFailure, Locks
  <2>3. failed' \in [User -> Nat] /\ failures' \in [User -> Nat]
    BY <1>7, <2>1 DEF CountFailure
  <2>4. pc' \in [Request -> PC] /\ UNCHANGED <<password, sessions, rowLock, tokens, req>>
    BY <1>7 DEF CountFailure
  <2>5. Types'
    BY <2>2, <2>3, <2>4
  <2>6. KnownUser' /\ KnownSession' /\ KnownOwner'
    BY <1>7 DEF CountFailure
  <2>7. QED
    BY <2>5, <2>6
<1>8. ASSUME NEW r \in Request, ResetFailedLogins(r)
      PROVE  Typed'
  BY <1>8 DEF ResetFailedLogins
<1>9. ASSUME NEW r \in Request, OpenSession(r)
      PROVE  Typed'
  BY <1>9 DEF OpenSession
<1>10. ASSUME NEW r \in Request, RevokeOld(r)
       PROVE  Typed'
  BY <1>10 DEF RevokeOld, Rotatable, Active
<1>11. ASSUME NEW r \in Request, ReuseDetected(r)
       PROVE  Typed'
  BY <1>11 DEF ReuseDetected, Rotatable, Active
<1>12. ASSUME NEW r \in Request, CommitRotation(r)
       PROVE  Typed'
  BY <1>12 DEF CommitRotation
<1>13. ASSUME NEW r \in Request, LoadUser(r)
       PROVE  Typed'
  BY <1>13 DEF LoadUser
<1>14. ASSUME NEW r \in Request, StartRevokeFamily(r)
       PROVE  Typed'
  <2> DEFINE found == {s \in Request : Active(s) /\ family[s] = family[req[r].session]}
  <2>1. req' = [req EXCEPT ![r].seen = found]
    BY <1>14 DEF StartRevokeFamily, Active
  <2>2. found \in SUBSET Request
    OBVIOUS
  <2> HIDE DEF found
  <2>3. req' \in [Request -> Knowledge]
    BY <2>1, <2>2
  <2>4. \A q \in Request : req'[q].user = req[q].user /\ req'[q].session = req[q].session
    BY <2>1
  <2>5. QED
    BY <1>14, <2>3, <2>4 DEF StartRevokeFamily, Active
<1>15. ASSUME NEW r \in Request, StartRevokeAll(r)
       PROVE  Typed'
  <2> DEFINE found == {s \in Request : Active(s) /\ owner[s] = req[r].user}
  <2>1. req' = [req EXCEPT ![r].seen = found]
    BY <1>15 DEF StartRevokeAll, Active
  <2>2. found \in SUBSET Request
    OBVIOUS
  <2> HIDE DEF found
  <2>3. req' \in [Request -> Knowledge]
    BY <2>1, <2>2
  <2>4. \A q \in Request : req'[q].user = req[q].user /\ req'[q].session = req[q].session
    BY <2>1
  <2>5. QED
    BY <1>15, <2>3, <2>4 DEF StartRevokeAll, Active
<1>16. ASSUME NEW r \in Request, RevokeSeen(r)
       PROVE  Typed'
  BY <1>16 DEF RevokeSeen, Active, ReasonOf
<1>17. ASSUME NEW r \in Request, RevokeById(r)
       PROVE  Typed'
  BY <1>17 DEF RevokeById
<1>18. ASSUME NEW r \in Request, IssueToken(r)
       PROVE  Typed'
  BY <1>18 DEF IssueToken
<1>19. ASSUME NEW r \in Request, UpdatePasswordHash(r)
       PROVE  Typed'
  BY <1>19 DEF UpdatePasswordHash
<1>20. ASSUME NEW r \in Request, Fail(r)
       PROVE  Typed'
  BY <1>20 DEF Fail
<1>21. ASSUME NEW u \in User, LockExpires(u)
       PROVE  Typed'
  <2>1. ASSUME NEW q \in Request
        PROVE  /\ req'[q] \in Knowledge
               /\ req'[q].user = req[q].user
               /\ req'[q].session = req[q].session
    <3>1. req[q] \in Knowledge
      OBVIOUS
    <3>2. req' = [p \in Request |->
                     IF req[p].user = u THEN [req[p] EXCEPT !.locked = FALSE] ELSE req[p]]
      BY <1>21 DEF LockExpires
    <3>3. CASE req[q].user = u
      <4>1. req'[q] = [req[q] EXCEPT !.locked = FALSE]
        BY <3>2, <3>3, Zenon
      <4>2. /\ [req[q] EXCEPT !.locked = FALSE] \in Knowledge
            /\ [req[q] EXCEPT !.locked = FALSE].user = req[q].user
            /\ [req[q] EXCEPT !.locked = FALSE].session = req[q].session
        BY ONLY <3>1, KnowledgeKept, Zenon
      <4>3. QED
        BY ONLY <4>1, <4>2, Zenon
    <3>4. CASE req[q].user # u
      <4>1. req'[q] = req[q]
        BY <3>2, <3>4, Zenon
      <4>2. QED
        BY <3>1, <4>1, Zenon
    <3>5. QED
      BY <3>3, <3>4
  <2>2. req' \in [Request -> Knowledge]
    BY <1>21, <2>1 DEF LockExpires
  <2>3. QED
    BY <1>21, <2>1, <2>2 DEF LockExpires
<1>22. CASE UNCHANGED vars
  BY <1>22 DEF vars
<1>23. QED
  BY <1>1, <1>2, <1>3, <1>4, <1>5, <1>6, <1>7, <1>8, <1>9, <1>10, <1>11, <1>12,
      <1>13, <1>14, <1>15, <1>16, <1>17, <1>18, <1>19, <1>20, <1>21, <1>22 DEF Next, Advance

(* The sessions: one is accepted per family, because who creates another holds *)
(* the row of the one accepted, and who revokes waits for it.                *)
LEMMA SessionStep ==
    ASSUME Typed, SessionInv, [Next]_vars
    PROVE  SessionInv'
<1> USE DEF Goto, Typed, Types, Knowledge, KnownSession, KnowsSession,
        SessionInv, FreshSession, HolderRotates, RotationHolds, Rooted,
        UnusedIsLive, Replaced, SeenExist, SeenNothing, OneLivePerFamily,
        RotationIsWhole, RevokedAsSeen, Exists, Active, Ended, account,
        sessions, tokens
<1>1. ASSUME NEW r \in Request, NEW u \in User, StartLogin(r, u)
      PROVE  SessionInv'
  <2>1. \A q \in Request : req'[q].seen = req[q].seen /\ req'[q].session = req[q].session
    BY <1>1 DEF StartLogin
  <2>2. pc[r] = "new" /\ pc' \in {[pc EXCEPT ![r] = "failing"], [pc EXCEPT ![r] = "succeeding"]}
    BY <1>1 DEF StartLogin
  <2>3. UNCHANGED <<family, owner, revoked, replacedBy, rowLock>>
    BY <1>1 DEF StartLogin
  <2>4. CASE pc' = [pc EXCEPT ![r] = "failing"]
    BY <2>1, <2>2, <2>3, <2>4
  <2>5. CASE pc' = [pc EXCEPT ![r] = "succeeding"]
    BY <2>1, <2>2, <2>3, <2>5
  <2>6. QED
    BY <2>2, <2>4, <2>5
<1>2. ASSUME NEW r \in Request, NEW u \in User, InvalidateTokens(r, u)
      PROVE  SessionInv'
  BY <1>2 DEF InvalidateTokens
<1>3. ASSUME NEW r \in Request, NEW s \in Request, Present(r, s)
      PROVE  SessionInv'
  BY <1>3 DEF Present
<1>4. ASSUME NEW r \in Request, NEW s \in Request, FindActive(r, s)
      PROVE  SessionInv'
  BY <1>4 DEF FindActive
<1>5. ASSUME NEW r \in Request, NEW s \in Request, ConsumeToken(r, s)
      PROVE  SessionInv'
  BY <1>5 DEF ConsumeToken, Consumable
<1>6. ASSUME NEW r \in Request, ReadAttempts(r)
      PROVE  SessionInv'
  BY <1>6 DEF ReadAttempts
<1>7. ASSUME NEW r \in Request, CountFailure(r)
      PROVE  SessionInv'
  BY <1>7 DEF CountFailure, Locks
<1>8. ASSUME NEW r \in Request, ResetFailedLogins(r)
      PROVE  SessionInv'
  BY <1>8 DEF ResetFailedLogins
<1>9. ASSUME NEW r \in Request, OpenSession(r)
      PROVE  SessionInv'
  <2>1. (FreshSession /\ Rooted /\ UnusedIsLive /\ Replaced)'
    BY <1>9 DEF OpenSession
  <2>2. (HolderRotates)'
    BY <1>9 DEF OpenSession
  <2>3. (RotationHolds)'
    BY <1>9 DEF OpenSession
  <2>4. (SeenExist /\ SeenNothing)'
    BY <1>9 DEF OpenSession
  <2>5. (OneLivePerFamily)'
    BY <1>9 DEF OpenSession
  <2>6. (RotationIsWhole)'
    BY <1>9 DEF OpenSession
  <2>7. (RevokedAsSeen)'
    BY <1>9 DEF OpenSession
  <2>8. QED
    BY <2>1, <2>2, <2>3, <2>4, <2>5, <2>6, <2>7
<1>10. ASSUME NEW r \in Request, RevokeOld(r)
       PROVE  SessionInv'
  BY <1>10 DEF RevokeOld, Rotatable
<1>11. ASSUME NEW r \in Request, ReuseDetected(r)
       PROVE  SessionInv'
  BY <1>11 DEF ReuseDetected, Rotatable
<1>12. ASSUME NEW r \in Request, CommitRotation(r)
       PROVE  SessionInv'
  BY <1>12 DEF CommitRotation
<1>13. ASSUME NEW r \in Request, LoadUser(r)
       PROVE  SessionInv'
  <2>1. RevokedAsSeen'
    BY <1>13 DEF LoadUser
  <2>2. (SeenExist /\ SeenNothing)'
    BY <1>13 DEF LoadUser
  <2>3. (FreshSession /\ HolderRotates /\ RotationHolds /\ Rooted /\ UnusedIsLive /\ Replaced)'
    BY <1>13 DEF LoadUser
  <2>4. (OneLivePerFamily /\ RotationIsWhole)'
    BY <1>13 DEF LoadUser
  <2>5. QED
    BY <2>1, <2>2, <2>3, <2>4
<1>14. ASSUME NEW r \in Request, StartRevokeFamily(r)
       PROVE  SessionInv'
  BY <1>14 DEF StartRevokeFamily
<1>15. ASSUME NEW r \in Request, StartRevokeAll(r)
       PROVE  SessionInv'
  BY <1>15 DEF StartRevokeAll
<1>16. ASSUME NEW r \in Request, RevokeSeen(r)
       PROVE  SessionInv'
  BY <1>16 DEF RevokeSeen, ReasonOf
<1>17. ASSUME NEW r \in Request, RevokeById(r)
       PROVE  SessionInv'
  <2>1. (FreshSession /\ Rooted /\ UnusedIsLive /\ Replaced)'
    BY <1>17 DEF RevokeById
  <2>2. (HolderRotates)'
    BY <1>17 DEF RevokeById
  <2>3. (RotationHolds)'
    BY <1>17 DEF RevokeById
  <2>4. (SeenExist /\ SeenNothing)'
    BY <1>17 DEF RevokeById
  <2>5. (OneLivePerFamily)'
    BY <1>17 DEF RevokeById
  <2>6. (RotationIsWhole)'
    BY <1>17 DEF RevokeById
  <2>7. (RevokedAsSeen)'
    BY <1>17 DEF RevokeById
  <2>8. QED
    BY <2>1, <2>2, <2>3, <2>4, <2>5, <2>6, <2>7
<1>18. ASSUME NEW r \in Request, IssueToken(r)
       PROVE  SessionInv'
  BY <1>18 DEF IssueToken
<1>19. ASSUME NEW r \in Request, UpdatePasswordHash(r)
       PROVE  SessionInv'
  BY <1>19 DEF UpdatePasswordHash
<1>20. ASSUME NEW r \in Request, Fail(r)
       PROVE  SessionInv'
  BY <1>20 DEF Fail
<1>21. ASSUME NEW u \in User, LockExpires(u)
       PROVE  SessionInv'
  BY <1>21 DEF LockExpires
<1>22. CASE UNCHANGED vars
  BY <1>22 DEF vars
<1>23. QED
  BY <1>1, <1>2, <1>3, <1>4, <1>5, <1>6, <1>7, <1>8, <1>9, <1>10, <1>11, <1>12,
      <1>13, <1>14, <1>15, <1>16, <1>17, <1>18, <1>19, <1>20, <1>21, <1>22 DEF Next, Advance

(* The reset tokens: one that can be consumed is in no request's hands.      *)
LEMMA TokenStep ==
    ASSUME Typed, TokenInv, [Next]_vars
    PROVE  TokenInv'
<1> USE DEF Goto, Typed, Types, KnownUser, KnowsUser, Knowledge, TokenInv,
        FreshToken, NewHasNoToken, HeldIsConsumed, WriterHasToken,
        ResetOncePerToken, Ended, account, sessions, tokens
<1>1. ASSUME NEW r \in Request, NEW u \in User, StartLogin(r, u)
      PROVE  TokenInv'
  <2>1. \A q \in Request : req'[q].token = req[q].token
    BY <1>1 DEF StartLogin
  <2>2. pc[r] = "new" /\ pc' \in {[pc EXCEPT ![r] = "failing"], [pc EXCEPT ![r] = "succeeding"]}
    BY <1>1 DEF StartLogin
  <2>3. \A q \in Request : pc'[q] = "writing" => q # r /\ req'[q].user = req[q].user
    BY <1>1, <2>2 DEF StartLogin
  <2>4. UNCHANGED <<token, tokenUser, password>>
    BY <1>1 DEF StartLogin
  <2>5. QED
    BY <2>1, <2>2, <2>3, <2>4
<1>2. ASSUME NEW r \in Request, NEW u \in User, InvalidateTokens(r, u)
      PROVE  TokenInv'
  BY <1>2 DEF InvalidateTokens
<1>3. ASSUME NEW r \in Request, NEW s \in Request, Present(r, s)
      PROVE  TokenInv'
  BY <1>3 DEF Present, Exists
<1>4. ASSUME NEW r \in Request, NEW s \in Request, FindActive(r, s)
      PROVE  TokenInv'
  BY <1>4 DEF FindActive, Active, Exists
<1>5. ASSUME NEW r \in Request, NEW s \in Request, ConsumeToken(r, s)
      PROVE  TokenInv'
  BY <1>5 DEF ConsumeToken, Consumable
<1>6. ASSUME NEW r \in Request, ReadAttempts(r)
      PROVE  TokenInv'
  BY <1>6 DEF ReadAttempts
<1>7. ASSUME NEW r \in Request, CountFailure(r)
      PROVE  TokenInv'
  BY <1>7 DEF CountFailure, Locks
<1>8. ASSUME NEW r \in Request, ResetFailedLogins(r)
      PROVE  TokenInv'
  BY <1>8 DEF ResetFailedLogins
<1>9. ASSUME NEW r \in Request, OpenSession(r)
      PROVE  TokenInv'
  BY <1>9 DEF OpenSession
<1>10. ASSUME NEW r \in Request, RevokeOld(r)
       PROVE  TokenInv'
  BY <1>10 DEF RevokeOld, Rotatable, Active, Exists
<1>11. ASSUME NEW r \in Request, ReuseDetected(r)
       PROVE  TokenInv'
  BY <1>11 DEF ReuseDetected, Rotatable, Active, Exists
<1>12. ASSUME NEW r \in Request, CommitRotation(r)
       PROVE  TokenInv'
  BY <1>12 DEF CommitRotation
<1>13. ASSUME NEW r \in Request, LoadUser(r)
       PROVE  TokenInv'
  BY <1>13 DEF LoadUser
<1>14. ASSUME NEW r \in Request, StartRevokeFamily(r)
       PROVE  TokenInv'
  BY <1>14 DEF StartRevokeFamily, Active, Exists
<1>15. ASSUME NEW r \in Request, StartRevokeAll(r)
       PROVE  TokenInv'
  BY <1>15 DEF StartRevokeAll, Active, Exists
<1>16. ASSUME NEW r \in Request, RevokeSeen(r)
       PROVE  TokenInv'
  BY <1>16 DEF RevokeSeen, Active, Exists, ReasonOf
<1>17. ASSUME NEW r \in Request, RevokeById(r)
       PROVE  TokenInv'
  BY <1>17 DEF RevokeById
<1>18. ASSUME NEW r \in Request, IssueToken(r)
       PROVE  TokenInv'
  BY <1>18 DEF IssueToken
<1>19. ASSUME NEW r \in Request, UpdatePasswordHash(r)
       PROVE  TokenInv'
  BY <1>19 DEF UpdatePasswordHash
<1>20. ASSUME NEW r \in Request, Fail(r)
       PROVE  TokenInv'
  BY <1>20 DEF Fail
<1>21. ASSUME NEW u \in User, LockExpires(u)
       PROVE  TokenInv'
  BY <1>21 DEF LockExpires
<1>22. CASE UNCHANGED vars
  BY <1>22 DEF vars
<1>23. QED
  BY <1>1, <1>2, <1>3, <1>4, <1>5, <1>6, <1>7, <1>8, <1>9, <1>10, <1>11, <1>12,
      <1>13, <1>14, <1>15, <1>16, <1>17, <1>18, <1>19, <1>20, <1>21, <1>22 DEF Next, Advance

(* The lock: what is written was read from a counter that had been reached.  *)
LEMMA LockStep ==
    ASSUME Typed, LockInv, [Next]_vars
    PROVE  LockInv'
<1> USE DEF Goto, Typed, Types, KnownUser, KnowsUser, Knowledge, LockInv,
        FailedBounded, ReadBounded, LockNeedsFailures, account, sessions,
        tokens
<1>1. ASSUME NEW r \in Request, NEW u \in User, StartLogin(r, u)
      PROVE  LockInv'
  BY <1>1 DEF StartLogin
<1>2. ASSUME NEW r \in Request, NEW u \in User, InvalidateTokens(r, u)
      PROVE  LockInv'
  BY <1>2 DEF InvalidateTokens
<1>3. ASSUME NEW r \in Request, NEW s \in Request, Present(r, s)
      PROVE  LockInv'
  BY <1>3 DEF Present, Exists
<1>4. ASSUME NEW r \in Request, NEW s \in Request, FindActive(r, s)
      PROVE  LockInv'
  BY <1>4 DEF FindActive, Active, Exists
<1>5. ASSUME NEW r \in Request, NEW s \in Request, ConsumeToken(r, s)
      PROVE  LockInv'
  BY <1>5 DEF ConsumeToken, Consumable
<1>6. ASSUME NEW r \in Request, ReadAttempts(r)
      PROVE  LockInv'
  BY <1>6 DEF ReadAttempts
<1>7. ASSUME NEW r \in Request, CountFailure(r)
      PROVE  LockInv'
  <2> DEFINE acc == req[r].user
             attempts == req[r].count + 1
  <2>1. acc \in User /\ attempts \in Nat /\ attempts <= failures[acc] + 1
    BY <1>7 DEF CountFailure, Locks
  <2>2. /\ failed' = [failed EXCEPT ![acc] = attempts]
        /\ failures' = [failures EXCEPT ![acc] = failures[acc] + 1]
        /\ pc' = [pc EXCEPT ![r] = "refused"]
        /\ UNCHANGED req
    BY <1>7 DEF CountFailure, Locks
  <2>3. PICK l \in BOOLEAN :
            /\ locked' = [locked EXCEPT ![acc] = l]
            /\ l => attempts >= MaxFailures \/ req[r].locked
    BY <1>7 DEF CountFailure, Locks
  <2>4. l => failures[acc] + 1 >= MaxFailures
    <3>1. req[r].locked => failures[acc] >= MaxFailures
      BY <1>7 DEF CountFailure, Locks
    <3>2. failures[acc] \in Nat /\ MaxFailures \in Nat
      BY <2>1
    <3>3. QED
      BY <2>1, <2>3, <3>1, <3>2
  <2> HIDE DEF acc, attempts
  <2>5. FailedBounded'
    BY <2>1, <2>2
  <2>6. ReadBounded'
    BY <2>1, <2>2
  <2>7. LockNeedsFailures'
    BY <2>1, <2>2, <2>3, <2>4
  <2>8. QED
    BY <2>5, <2>6, <2>7
<1>8. ASSUME NEW r \in Request, ResetFailedLogins(r)
      PROVE  LockInv'
  BY <1>8 DEF ResetFailedLogins
<1>9. ASSUME NEW r \in Request, OpenSession(r)
      PROVE  LockInv'
  BY <1>9 DEF OpenSession
<1>10. ASSUME NEW r \in Request, RevokeOld(r)
       PROVE  LockInv'
  BY <1>10 DEF RevokeOld, Rotatable, Active, Exists
<1>11. ASSUME NEW r \in Request, ReuseDetected(r)
       PROVE  LockInv'
  BY <1>11 DEF ReuseDetected, Rotatable, Active, Exists
<1>12. ASSUME NEW r \in Request, CommitRotation(r)
       PROVE  LockInv'
  BY <1>12 DEF CommitRotation
<1>13. ASSUME NEW r \in Request, LoadUser(r)
       PROVE  LockInv'
  BY <1>13 DEF LoadUser
<1>14. ASSUME NEW r \in Request, StartRevokeFamily(r)
       PROVE  LockInv'
  BY <1>14 DEF StartRevokeFamily, Active, Exists
<1>15. ASSUME NEW r \in Request, StartRevokeAll(r)
       PROVE  LockInv'
  BY <1>15 DEF StartRevokeAll, Active, Exists
<1>16. ASSUME NEW r \in Request, RevokeSeen(r)
       PROVE  LockInv'
  BY <1>16 DEF RevokeSeen, Active, Exists, ReasonOf
<1>17. ASSUME NEW r \in Request, RevokeById(r)
       PROVE  LockInv'
  BY <1>17 DEF RevokeById
<1>18. ASSUME NEW r \in Request, IssueToken(r)
       PROVE  LockInv'
  BY <1>18 DEF IssueToken
<1>19. ASSUME NEW r \in Request, UpdatePasswordHash(r)
       PROVE  LockInv'
  BY <1>19 DEF UpdatePasswordHash
<1>20. ASSUME NEW r \in Request, Fail(r)
       PROVE  LockInv'
  BY <1>20 DEF Fail, Ended
<1>21. ASSUME NEW u \in User, LockExpires(u)
       PROVE  LockInv'
  BY <1>21 DEF LockExpires
<1>22. CASE UNCHANGED vars
  BY <1>22 DEF vars
<1>23. QED
  BY <1>1, <1>2, <1>3, <1>4, <1>5, <1>6, <1>7, <1>8, <1>9, <1>10, <1>11, <1>12,
      <1>13, <1>14, <1>15, <1>16, <1>17, <1>18, <1>19, <1>20, <1>21, <1>22 DEF Next, Advance

-----------------------------------------------------------------------------
LEMMA InitIInv ==
    ASSUME Init
    PROVE  IInv
<1> USE DEF Init, Nothing
<1>1. Typed
  BY DEF Typed, Types, KnownUser, KnownSession, KnownOwner, Knowledge, PC, Reason,
         KnowsUser, KnowsSession, Exists
<1>2. SessionInv
  BY DEF SessionInv, FreshSession, HolderRotates, RotationHolds, Rooted, UnusedIsLive, Replaced,
         SeenExist, SeenNothing, OneLivePerFamily, RotationIsWhole, RevokedAsSeen,
         Active, Exists, Reason
<1>3. TokenInv
  BY DEF TokenInv, FreshToken, NewHasNoToken, HeldIsConsumed, WriterHasToken,
         ResetOncePerToken
<1>4. LockInv
  BY DEF LockInv, FailedBounded, ReadBounded, LockNeedsFailures
<1>5. QED
  BY <1>1, <1>2, <1>3, <1>4 DEF IInv

LEMMA NextIInv ==
    ASSUME IInv, [Next]_vars
    PROVE  IInv'
BY TypedStep, SessionStep, TokenStep, LockStep DEF IInv

LEMMA Invariance == Spec => []IInv
<1>1. Init => IInv
  BY InitIInv
<1>2. IInv /\ [Next]_vars => IInv'
  BY NextIInv
<1>3. QED
  BY <1>1, <1>2, PTL DEF Spec

-----------------------------------------------------------------------------
(* The columns and the locals of requests keep their types, and a request     *)
(* acts on an account or a session that exists.                               *)
THEOREM TypeCorrect == Spec => []TypeOK
<1>1. IInv => TypeOK
  BY DEF IInv, Typed, Types, KnownUser, KnownSession, TypeOK
<1>2. QED
  BY <1>1, Invariance, PTL

(* rotateIfActive: however many refreshes, logouts and resets overlap, a login *)
(* has at most one accepted session.                                           *)
THEOREM OneAcceptedSession == Spec => []OneLivePerFamily
<1>1. IInv => OneLivePerFamily
  BY DEF IInv, SessionInv
<1>2. QED
  BY <1>1, Invariance, PTL

(* A rotation happens as a whole: a session revoked as rotated has a successor *)
(* of its family and owner, and one with a successor is not accepted any more. *)
THEOREM RotationsAreWhole == Spec => []RotationIsWhole
<1>1. IInv => RotationIsWhole
  BY DEF IInv, SessionInv
<1>2. QED
  BY <1>1, Invariance, PTL

(* revokeFamily and revokeAllForUser: once one is answered, every session it   *)
(* has found is revoked, whatever became of the rotations it waited for.       *)
THEOREM RevocationReaches == Spec => []RevokedAsSeen
<1>1. IInv => RevokedAsSeen
  BY DEF IInv, SessionInv
<1>2. QED
  BY <1>1, Invariance, PTL

(* registerFailedLogin: lost and stale counts never lock an account before     *)
(* the threshold of failures.                                                  *)
THEOREM NoEarlyLock == Spec => []LockNeedsFailures
<1>1. IInv => LockNeedsFailures
  BY DEF IInv, LockInv
<1>2. QED
  BY <1>1, Invariance, PTL

(* consumePasswordReset: a reset token changes one password, once.             *)
THEOREM TokenUsedOnce == Spec => []ResetOncePerToken
<1>1. IInv => ResetOncePerToken
  BY DEF IInv, TokenInv
<1>2. QED
  BY <1>1, Invariance, PTL

-----------------------------------------------------------------------------
(* The refinement mapping, before and after a step: the accepted session of a *)
(* family, because there is one at most.                                      *)
LEMMA GoodIs ==
    ASSUME OneLivePerFamily, NEW f \in Request
    PROVE  /\ \A s \in Request : Active(s) /\ family[s] = f => good[f] = s
           /\ (\A s \in Request : ~(Active(s) /\ family[s] = f)) => good[f] = None
BY Zenon DEF good, OneLivePerFamily

LEMMA GoodIsNext ==
    ASSUME OneLivePerFamily', NEW f \in Request
    PROVE  /\ \A s \in Request : Active(s)' /\ family'[s] = f => good'[f] = s
           /\ (\A s \in Request : ~(Active(s)' /\ family'[s] = f)) => good'[f] = None
BY Zenon DEF good, OneLivePerFamily

(* What a step leaves alone of a family, it leaves alone of its good session. *)
LEMMA GoodKept ==
    ASSUME OneLivePerFamily, OneLivePerFamily', NEW f \in Request,
           \A s \in Request : (Active(s) /\ family[s] = f) <=> (Active(s)' /\ family'[s] = f)
    PROVE  good'[f] = good[f]
<1>1. CASE \E s \in Request : Active(s) /\ family[s] = f
  BY <1>1, GoodIs, GoodIsNext, Zenon
<1>2. CASE \A s \in Request : ~(Active(s) /\ family[s] = f)
  BY <1>2, GoodIs, GoodIsNext, Zenon
<1>3. QED
  BY <1>1, <1>2

(* Steps that write no session are steps of no family. *)
LEMMA OtherSteps ==
    ASSUME UNCHANGED sessions
    PROVE  UNCHANGED Families!vars
BY Zenon DEF sessions, Families!vars, good, issued, Active, Exists

LEMMA OpenImplements ==
    ASSUME IInv, IInv', NEW r \in Request, OpenSession(r)
    PROVE  Families!Open(r)
<1> USE DEF IInv, Typed, Types, Active, Exists
<1>1. /\ family' = [family EXCEPT ![r] = r]
      /\ UNCHANGED revoked
  BY DEF OpenSession
<1>2. ~Exists(r)
  BY DEF OpenSession, SessionInv, FreshSession, Ended
<1>3. revoked'[r] = "NO"
  BY <1>1, <1>2 DEF OpenSession, SessionInv, UnusedIsLive
<1>4. \A s \in Request : ~(Active(s) /\ family[s] = r)
  BY <1>2 DEF SessionInv, Rooted
<1>5. OneLivePerFamily /\ OneLivePerFamily'
  BY DEF SessionInv
<1>6. good'[r] = r
  BY <1>1, <1>3, <1>5, GoodIsNext
<1>7. ASSUME NEW f \in Request, f # r
      PROVE  good'[f] = good[f]
  BY <1>1, <1>2, <1>5, <1>7, GoodKept
<1>8. good' = [good EXCEPT ![r] = r]
  BY <1>6, <1>7 DEF good
<1>9. r \notin issued /\ issued' = issued \cup {r}
  BY <1>1, <1>2 DEF issued
<1>10. QED
  BY <1>8, <1>9 DEF Families!Open

LEMMA RotationImplements ==
    ASSUME IInv, IInv', NEW r \in Request, CommitRotation(r)
    PROVE  Families!Rotate(family[req[r].session], r)
<1> DEFINE s == req[r].session
           f == family[s]
<1> USE DEF IInv, Typed, Types, Active, Exists
<1>1. /\ pc[r] = "replacing"
      /\ family' = [family EXCEPT ![r] = f]
      /\ revoked' = [revoked EXCEPT ![s] = "ROTATED"]
  BY DEF CommitRotation
<1>2. s \in Request /\ f \in Request /\ Active(s)
  BY <1>1 DEF KnownSession, KnowsSession, SessionInv, RotationHolds
<1>3. ~Exists(r) /\ r # s
  BY <1>1, <1>2 DEF SessionInv, FreshSession, Ended
<1>4. revoked'[r] = "NO"
  BY <1>1, <1>2, <1>3 DEF SessionInv, UnusedIsLive
<1>5. OneLivePerFamily /\ OneLivePerFamily'
  BY DEF SessionInv
<1> HIDE DEF s, f
<1>6. good[f] = s
  <2>1. family[s] = f
    BY DEF f
  <2>2. QED
    BY <1>2, <1>5, <2>1, GoodIs
<1>7. good'[f] = r
  BY <1>1, <1>2, <1>4, <1>5, GoodIsNext
<1>8. ASSUME NEW g \in Request, g # f
      PROVE  good'[g] = good[g]
  <2>1. family[s] = f
    BY DEF f
  <2>2. \A t \in Request : (Active(t) /\ family[t] = g) <=> (Active(t)' /\ family'[t] = g)
    BY <1>1, <1>2, <1>3, <1>8, <2>1
  <2>3. QED
    BY <1>5, <2>2, GoodKept
<1>9. good' = [good EXCEPT ![f] = r]
  <2>1. good' = [g \in Request |-> good'[g]] /\ good = [g \in Request |-> good[g]]
    BY Zenon DEF good
  <2>2. QED
    BY <1>2, <1>7, <1>8, <2>1
<1>10. r \notin issued /\ issued' = issued \cup {r}
  BY <1>1, <1>2, <1>3 DEF issued
<1>11. Families!Rotate(f, r)
  BY <1>2, <1>6, <1>9, <1>10 DEF Families!Rotate
<1>12. QED
  BY <1>11 DEF f, s

(* A step that creates nothing and only revokes ends the families whose       *)
(* accepted session it revokes.                                               *)
LEMMA RevocationImplements ==
    ASSUME IInv, IInv', UNCHANGED family,
           \A s \in Request : Active(s)' => Active(s)
    PROVE  \E families \in SUBSET Request : Families!End(families)
<1> DEFINE Lives(f) == \E s \in Request : Active(s)' /\ family[s] = f
           families == {f \in Request : ~Lives(f)}
<1>1. OneLivePerFamily /\ OneLivePerFamily'
  BY DEF IInv, SessionInv
<1>2. ASSUME NEW f \in families
      PROVE  good'[f] = None
  BY <1>1, <1>2, GoodIsNext
<1>3. ASSUME NEW f \in Request, f \notin families
      PROVE  good'[f] = good[f]
  <2>1. PICK s \in Request : Active(s)' /\ family[s] = f
    BY <1>3
  <2>2. Active(s)
    BY <2>1
  <2>3. good[f] = s /\ good'[f] = s
    BY <1>1, <2>1, <2>2, GoodIs, GoodIsNext
  <2>4. QED
    BY <2>3
<1> HIDE DEF families
<1>4. families \in SUBSET Request
  BY DEF families
<1>5. good' = [f \in Request |-> IF f \in families THEN None ELSE good[f]]
  <2>1. good' = [f \in Request |-> good'[f]]
    BY Zenon DEF good
  <2>2. QED
    BY <1>2, <1>3, <2>1, Zenon
<1>6. UNCHANGED issued
  BY DEF issued, Exists
<1>7. QED
  BY <1>4, <1>5, <1>6 DEF Families!End

LEMMA StepImplements ==
    ASSUME IInv, IInv', [Next]_vars
    PROVE  [Families!Next]_(Families!vars)
<1>1. ASSUME NEW r \in Request, OpenSession(r)
      PROVE  Families!Next
  BY <1>1, OpenImplements DEF Families!Next
<1>2. ASSUME NEW r \in Request, CommitRotation(r)
      PROVE  Families!Next
  <2>1. family[req[r].session] \in Request
    BY <1>2 DEF CommitRotation, IInv, Typed, Types, KnownSession, KnowsSession, Exists
  <2>2. QED
    BY <1>2, <2>1, RotationImplements DEF Families!Next
<1>3. ASSUME NEW r \in Request, RevokeSeen(r)
      PROVE  Families!Next
  <2>1. UNCHANGED family /\ \A s \in Request : Active(s)' => Active(s)
    BY <1>3 DEF RevokeSeen, ReasonOf, Active, Exists
  <2>2. QED
    BY <2>1, RevocationImplements DEF Families!Next
<1>4. ASSUME NEW r \in Request, RevokeById(r)
      PROVE  Families!Next
  <2>1. UNCHANGED family /\ revoked' = [revoked EXCEPT ![req[r].session] = "LOGOUT"]
    BY <1>4 DEF RevokeById
  <2>2. \A s \in Request : Active(s)' => Active(s)
    BY <2>1 DEF Active, Exists, IInv, Typed, Types
  <2>3. QED
    BY <2>1, <2>2, RevocationImplements DEF Families!Next
<1>5. ASSUME UNCHANGED sessions
      PROVE  UNCHANGED Families!vars
  BY <1>5, OtherSteps
<1>6. (\A r \in Request : ~OpenSession(r) /\ ~CommitRotation(r) /\ ~RevokeSeen(r) /\ ~RevokeById(r))
          => UNCHANGED sessions
  BY DEF Next, Advance, vars, StartLogin, InvalidateTokens, Present, FindActive, ConsumeToken,
         ReadAttempts, CountFailure, ResetFailedLogins, RevokeOld, ReuseDetected, LoadUser,
         StartRevokeFamily, StartRevokeAll, IssueToken, UpdatePasswordHash, Fail, LockExpires
<1>7. QED
  BY <1>1, <1>2, <1>3, <1>4, <1>5, <1>6

(* ADR-014: the sessions table is a set of families of tokens, each with one  *)
(* good token, handed on by rotation, ended for good by a revocation.         *)
THEOREM Refinement == Spec => ImplementsTokenFamily
<1>1. Init => Families!Init
  <2>1. ASSUME Init
        PROVE  \A s \in Request : ~Exists(s) /\ ~Active(s)
    BY <2>1 DEF Init, Exists, Active
  <2>2. ASSUME Init
        PROVE  good = [f \in Request |-> None] /\ issued = {}
    BY <2>1, <2>2, Zenon DEF good, issued
  <2>3. QED
    BY <2>2 DEF Families!Init
<1>2. IInv /\ IInv' /\ [Next]_vars => [Families!Next]_(Families!vars)
  BY StepImplements
<1>3. QED
  BY <1>1, <1>2, Invariance, PTL DEF Spec, ImplementsTokenFamily, Families!Spec

=============================================================================
