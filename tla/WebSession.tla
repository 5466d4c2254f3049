------------------------------ MODULE WebSession ------------------------------
(***************************************************************************)
(* Who is signed in, as one tab of a browser sees it: the CSRF token it     *)
(* keeps (apps/web/lib/api/browser-client.ts), the user it displays         *)
(* (lib/auth/auth-context.tsx, the login page), the cookies it shares with  *)
(* the other tabs, and the API that checks and sets them (main.ts, csrf.ts, *)
(* AuthController).                                                        *)
(*                                                                         *)
(* The tab makes mutating calls, several at a time.  A call waits for a     *)
(* token, is sent with the cookies of that instant, is handled, its cookies *)
(* reach the browser, and then the page goes on.  A session is the JWT of   *)
(* an access cookie, Anonymous the absence of that cookie and Blank the     *)
(* cookie with an empty value.  The refresh cookie is left out: no page     *)
(* calls POST /auth/refresh.                                               *)
(***************************************************************************)
EXTENDS Naturals, FiniteSets

CONSTANTS
    Call,       \* calls under way at a time
    Session,    \* JWTs: one that nothing mentions any more stands for a new one
    Nonce,      \* random values of tokens, used again in the same way
    Anonymous, Blank, None

ASSUME SessionAssumption ==
    /\ {Anonymous, Blank, None, "forbidden", "refused"} \cap Session = {}
    /\ Blank \notin {"forbidden", "refused"}

VARIABLES
    access,     \* the access cookie
    csrf,       \* the CSRF cookie: a token, with the session it is bound to
    cached,     \* cachedCsrfToken
    fetching,   \* csrfFetchPromise: for what session, and its token
    shown,      \* user of the AuthProvider
    profile,    \* the access cookies of the GET /profile under way
    call,       \* call[c]: kind, step, token, whether it was valid when sent, reply
    disturbed,  \* history: something else than its answered calls affected the tab
    overtaken   \* history: the last profile taken is of a session of before

vars == <<access, csrf, cached, fetching, shown, profile, call, disturbed, overtaken>>

NoCall == [kind |-> "none", step |-> "idle", token |-> None, valid |-> FALSE, reply |-> None]

Quiet == fetching = None /\ profile = {} /\ \A c \in Call : call[c] = NoCall

Tokens == ({csrf, cached} \cup {call[c].token : c \in Call}
           \cup (IF fetching = None THEN {} ELSE {fetching.token})) \ {None}
FreshNonce == CHOOSE n \in Nonce : \A k \in Tokens : k.nonce # n
Mentioned == {access, shown} \cup {k.session : k \in Tokens} \cup profile
             \cup {call[c].reply : c \in Call}
             \cup (IF fetching = None THEN {} ELSE {fetching.session})
FreshSession == CHOOSE s \in Session : s \notin Mentioned

Init ==
    /\ access = Anonymous /\ csrf = None /\ cached = None /\ fetching = None
    /\ shown = None /\ profile = {Anonymous}
    /\ call = [c \in Call |-> NoCall] /\ disturbed = FALSE /\ overtaken = FALSE

Set(c, k) == call' = [call EXCEPT ![c] = k]

-----------------------------------------------------------------------------
(* The tab asks.  getCsrfToken answers the cached token, or the promise of   *)
(* the one fetch under way.                                                 *)
Fetch == IF fetching # None THEN UNCHANGED fetching
         ELSE fetching' = [session |-> access, token |-> None]

Request(c, kind) ==
    IF cached # None
    THEN /\ Set(c, [NoCall EXCEPT !.kind = kind, !.step = "send", !.token = cached])
         /\ UNCHANGED fetching
    ELSE Set(c, [NoCall EXCEPT !.kind = kind, !.step = "token"]) /\ Fetch

(* The button of the login page is disabled until the page is left.          *)
Submitting == \E c \in Call : call[c].kind \in {"login", "merge"}

Begin(c) ==
    /\ call[c] = NoCall
    /\ \E kind \in {"login", "logout", "act"} :
          /\ kind = "login" => ~Submitting
          /\ kind = "logout" => shown # None
          /\ Request(c, kind)
    /\ UNCHANGED <<access, csrf, cached, shown, profile, disturbed, overtaken>>

(* Mutant: overwrite is FALSE, the token of the cookie is given again. *)
KeptToken == IF csrf # None THEN csrf ELSE [nonce |-> FreshNonce, session |-> fetching.session]

(* GET /csrf-token, with overwrite: a new token and its cookie.              *)
Generated == [nonce |-> FreshNonce, session |-> fetching.session]

TokenIssued ==
    /\ fetching # None /\ fetching.token = None
    /\ csrf' = Generated
    /\ fetching' = [fetching EXCEPT !.token = csrf']
    /\ UNCHANGED <<access, cached, shown, profile, call, disturbed, overtaken>>

Waiting == {c \in Call : call[c].step = "token"}

TokenCached ==
    /\ fetching # None /\ fetching.token # None
    /\ cached' = fetching.token
    /\ fetching' = None
    /\ call' = [c \in Call |-> IF c \in Waiting
                               THEN [call[c] EXCEPT !.step = "send", !.token = fetching.token]
                               ELSE call[c]]
    /\ UNCHANGED <<access, csrf, shown, profile, disturbed, overtaken>>

FetchFails ==
    /\ fetching # None
    /\ fetching' = None
    /\ call' = [c \in Call |-> IF c \in Waiting THEN NoCall ELSE call[c]]
    /\ disturbed' = TRUE
    /\ UNCHANGED <<access, csrf, cached, shown, profile, overtaken>>

(* doubleCsrfProtection compares the header with the cookie, and the session *)
(* of the cookie with the access cookie of the request.                     *)
CsrfValid(k) == csrf # None /\ csrf = k /\ csrf.session = access

Send(c) ==
    /\ call[c].step = "send"
    /\ Set(c, [call[c] EXCEPT !.step = "sent", !.token = None, !.valid = CsrfValid(call[c].token)])
    /\ UNCHANGED <<access, csrf, cached, fetching, shown, profile, disturbed, overtaken>>

-----------------------------------------------------------------------------
(* The API answers, and the browser takes its cookies before the page goes   *)
(* on.                                                                      *)
Answer(c, reply) ==
    /\ call[c].step = "sent"
    /\ Set(c, [call[c] EXCEPT !.step = "page", !.reply = reply])
    /\ UNCHANGED <<csrf, cached, fetching, shown, profile, overtaken>>

(* A change of session meets another one, or a token under way, of its tab.  *)
Overlaps(c) == \/ fetching # None
               \/ \E d \in Call \ {c} : call[d].kind \in {"login", "merge", "logout"}

SetAccess(c, s) == access' = s /\ disturbed' = (disturbed \/ Overlaps(c))

Forbidden(c) == ~call[c].valid /\ Answer(c, "forbidden") /\ UNCHANGED <<access, disturbed>>

(* Wrong credentials, too many requests, a failure.                         *)
Refused(c) == call[c].valid /\ Answer(c, "refused") /\ UNCHANGED <<access, disturbed>>

LoggedIn(c) == /\ call[c].kind = "login" /\ call[c].valid
               /\ Session \ Mentioned # {}
               /\ Answer(c, FreshSession) /\ SetAccess(c, FreshSession)

(* The options given to clearCookie hold a maxAge, which overrides the date   *)
(* in the past: the cookie is kept, empty, for another 15 minutes.          *)
Cleared == Blank

LoggedOut(c) == /\ call[c].kind = "logout" /\ call[c].valid
                /\ Answer(c, Cleared) /\ SetAccess(c, Cleared)

Accepted(c) == /\ call[c].kind \in {"merge", "act"} /\ call[c].valid
               /\ Answer(c, Anonymous) /\ UNCHANGED <<access, disturbed>>

-----------------------------------------------------------------------------
ResetCsrfToken == cached' = None

Refresh == profile' = profile \cup {access}

(* The login page merges the cart, then reads the profile.                   *)
LoginGoesOn(c) ==
    /\ call[c].kind = "login" /\ call[c].step = "page"
    /\ IF call[c].reply \in Session
       THEN /\ ResetCsrfToken
            /\ Set(c, [NoCall EXCEPT !.kind = "merge", !.step = "token"])
            /\ Fetch
       ELSE Set(c, NoCall) /\ UNCHANGED <<cached, fetching>>
    /\ UNCHANGED <<access, csrf, shown, profile, disturbed, overtaken>>

(* Mutant: the page goes to the account without reading the profile. *)
MergeGoesOnUnread(c) ==
    /\ call[c].kind = "merge" /\ call[c].step = "page"
    /\ Set(c, NoCall)
    /\ UNCHANGED <<access, csrf, cached, fetching, shown, profile, disturbed, overtaken>>

MergeGoesOn(c) ==
    /\ call[c].kind = "merge" /\ call[c].step = "page"
    /\ Refresh
    /\ Set(c, NoCall)
    /\ UNCHANGED <<access, csrf, cached, fetching, shown, disturbed, overtaken>>

(* logout does not look at the error of its call.                           *)
LogoutGoesOn(c) ==
    /\ call[c].kind = "logout" /\ call[c].step = "page"
    /\ ResetCsrfToken
    /\ shown' = None
    /\ disturbed' = (disturbed \/ call[c].reply # Cleared)
    /\ Set(c, NoCall)
    /\ UNCHANGED <<access, csrf, fetching, profile, overtaken>>

OtherGoesOn(c) ==
    /\ call[c].kind = "act" /\ call[c].step = "page"
    /\ Set(c, NoCall)
    /\ UNCHANGED <<access, csrf, cached, fetching, shown, profile, disturbed, overtaken>>

(* The connection fails: the cookies of the answer, if any, are not taken.   *)
CallFails(c) ==
    /\ call[c].step = "sent"
    /\ Set(c, NoCall)
    /\ disturbed' = TRUE
    /\ UNCHANGED <<access, csrf, cached, fetching, shown, profile, overtaken>>

(* JwtAuthGuard: an absent or empty cookie is not signed in.                 *)
UserOf(a) == IF a \in Session THEN a ELSE None

ProfileAnswered(a) ==
    /\ shown' = UserOf(a)
    /\ profile' = profile \ {a}
    /\ overtaken' = (a # access)
    /\ UNCHANGED <<access, csrf, cached, fetching, call, disturbed>>

ProfileFails(a) ==
    /\ shown' = None
    /\ profile' = profile \ {a}
    /\ disturbed' = TRUE
    /\ UNCHANGED <<access, csrf, cached, fetching, call, overtaken>>

-----------------------------------------------------------------------------
(* The rest of the browser: maxAge of the access cookie, 15 minutes; another *)
(* tab signs in or out; another tab fetches a token, over the one of this    *)
(* tab.                                                                     *)
AccessExpires == access' = Anonymous /\ UNCHANGED csrf
OtherTabSession ==
    /\ \/ Session \ Mentioned # {} /\ access' = FreshSession
       \/ access' = Cleared
    /\ UNCHANGED csrf
OtherTabToken == csrf' = [nonce |-> FreshNonce, session |-> access] /\ UNCHANGED access

Elsewhere ==
    /\ \/ access # Anonymous /\ AccessExpires
       \/ OtherTabSession
       \/ OtherTabToken
    /\ disturbed' = TRUE
    /\ UNCHANGED <<cached, fetching, shown, profile, call, overtaken>>

Reload ==
    /\ Quiet
    /\ cached' = None /\ shown' = None /\ Refresh
    /\ disturbed' = FALSE /\ overtaken' = FALSE
    /\ UNCHANGED <<access, csrf, fetching, call>>

Next ==
    \/ \E c \in Call : \/ Begin(c) \/ Send(c) \/ CallFails(c)
                       \/ Forbidden(c) \/ Refused(c) \/ LoggedIn(c) \/ LoggedOut(c) \/ Accepted(c)
                       \/ LoginGoesOn(c) \/ MergeGoesOn(c) \/ LogoutGoesOn(c) \/ OtherGoesOn(c)
    \/ \E a \in profile : ProfileAnswered(a) \/ ProfileFails(a)
    \/ TokenIssued \/ TokenCached \/ FetchFails \/ Elsewhere \/ Reload

Spec == Init /\ [][Next]_vars

-----------------------------------------------------------------------------
(* A tab nothing interferes with never keeps a stale token: once its calls   *)
(* are answered, the token it keeps is the one of the CSRF cookie and bound  *)
(* to the session of the access cookie, whatever logins and logouts it made. *)
SettledTokenIsValid ==
    (Quiet /\ ~disturbed /\ cached # None) => cached = csrf /\ csrf.session = access

(* Such a tab shows who is signed in, unless the profile it took last was    *)
(* asked for an earlier session.                                            *)
SettledShowsSession == (Quiet /\ ~disturbed /\ ~overtaken) => shown = UserOf(access)
=============================================================================
