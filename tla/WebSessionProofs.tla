--------------------------- MODULE WebSessionProofs ---------------------------
(***************************************************************************)
(* Proofs about a tab: for any number of calls under way and any sessions, a *)
(* tab that nothing interferes with settles on a token the API accepts, and *)
(* on the user who is signed in.                                            *)
(***************************************************************************)
EXTENDS WebSession, TLAPS

(* The call and the fetch with these fields. *)
Made(k, s, t, v, y) == [kind : {k}, step : {s}, token : {t}, valid : {v}, reply : {y}]
Fetched(s, t) == [session : {s}, token : {t}]

IsCall(x) == \E k, s, t, v, y : x \in Made(k, s, t, v, y)

ShapeInv ==
    /\ DOMAIN call = Call
    /\ \A c \in Call : IsCall(call[c])
    /\ fetching # None => \E s, t : fetching \in Fetched(s, t)

(* The session has changed and the page does not know yet. *)
Unaware(c) ==
    /\ call[c].step = "page"
    /\ \/ call[c].kind = "login" /\ call[c].reply \in Session
       \/ call[c].kind = "logout" /\ call[c].reply = Cleared

FetchInv ==
    fetching # None =>
        /\ cached = None /\ fetching.session = access
        /\ fetching.token # None => fetching.token = csrf /\ csrf.session = access

(* A token kept is the right one, or about to be forgotten. *)
CacheInv ==
    cached # None =>
        \/ cached = csrf /\ csrf.session = access
        \/ \E c \in Call : Unaware(c)

TokenInv == ShapeInv /\ (~disturbed => FetchInv /\ CacheInv)

-----------------------------------------------------------------------------
(* What EXCEPT does to the fields of calls and fetches. *)
LEMMA CallFields ==
    ASSUME NEW k, NEW s, NEW t, NEW v, NEW y, NEW x \in Made(k, s, t, v, y), NEW a, NEW b, NEW d
    PROVE  /\ [x EXCEPT !.step = a, !.token = b] \in Made(k, a, b, v, y)
           /\ [x EXCEPT !.step = a, !.token = b, !.valid = d] \in Made(k, a, b, d, y)
           /\ [x EXCEPT !.step = a, !.reply = b] \in Made(k, a, t, v, b)
           /\ [x EXCEPT !.kind = a, !.step = b] \in Made(a, b, t, v, y)
           /\ [x EXCEPT !.kind = a, !.step = b, !.token = d] \in Made(a, b, d, v, y)
BY DEF Made

LEMMA FieldsOfCall ==
    ASSUME NEW k, NEW s, NEW t, NEW v, NEW y, NEW x \in Made(k, s, t, v, y)
    PROVE  x.kind = k /\ x.step = s /\ x.reply = y
BY DEF Made

LEMMA FetchFields ==
    ASSUME NEW s, NEW t, NEW f \in Fetched(s, t), NEW u
    PROVE  [f EXCEPT !.token = u] \in Fetched(s, u)
BY DEF Fetched

LEMMA FieldsOfFetch ==
    ASSUME NEW s, NEW t, NEW f \in Fetched(s, t)
    PROVE  f.session = s /\ f.token = t
BY DEF Fetched

LEMMA NoCallMade == NoCall \in Made("none", "idle", None, FALSE, None)
BY DEF NoCall, Made

LEMMA NoCallIsCall == NoCall.step = "idle" /\ IsCall(NoCall)
BY NoCallMade DEF IsCall, NoCall

(* What happens to a call leaves it a call. *)
LEMMA CallsStay ==
    ASSUME NEW x, IsCall(x), NEW a, NEW b, NEW d
    PROVE  /\ IsCall([x EXCEPT !.step = a, !.token = b])
           /\ IsCall([x EXCEPT !.step = a, !.token = b, !.valid = d])
           /\ IsCall([x EXCEPT !.step = a, !.reply = b])
           /\ IsCall([x EXCEPT !.kind = a, !.step = b])
           /\ IsCall([x EXCEPT !.kind = a, !.step = b, !.token = d])
<1>1. PICK k, s, t, v, y : x \in Made(k, s, t, v, y)
      BY DEF IsCall
<1>2. IsCall([x EXCEPT !.step = a, !.token = b])
  <2>1. [x EXCEPT !.step = a, !.token = b] \in Made(k, a, b, v, y)
        BY <1>1, CallFields
  <2> QED BY <2>1 DEF IsCall
<1>3. IsCall([x EXCEPT !.step = a, !.token = b, !.valid = d])
  <2>1. [x EXCEPT !.step = a, !.token = b, !.valid = d] \in Made(k, a, b, d, y)
        BY <1>1, CallFields
  <2> QED BY <2>1 DEF IsCall
<1>4. IsCall([x EXCEPT !.step = a, !.reply = b])
  <2>1. [x EXCEPT !.step = a, !.reply = b] \in Made(k, a, t, v, b)
        BY <1>1, CallFields
  <2> QED BY <2>1 DEF IsCall
<1>5. IsCall([x EXCEPT !.kind = a, !.step = b])
  <2>1. [x EXCEPT !.kind = a, !.step = b] \in Made(a, b, t, v, y)
        BY <1>1, CallFields
  <2> QED BY <2>1 DEF IsCall
<1>6. IsCall([x EXCEPT !.kind = a, !.step = b, !.token = d])
  <2>1. [x EXCEPT !.kind = a, !.step = b, !.token = d] \in Made(a, b, d, v, y)
        BY <1>1, CallFields
  <2> QED BY <2>1 DEF IsCall
<1> QED BY <1>2, <1>3, <1>4, <1>5, <1>6

LEMMA SetShape ==
    ASSUME ShapeInv, NEW c \in Call, NEW k, IsCall(k), Set(c, k)
    PROVE  /\ DOMAIN call' = Call /\ \A d \in Call : IsCall(call'[d])
           /\ call'[c] = k /\ \A d \in Call \ {c} : call'[d] = call[d]
BY DEF ShapeInv, Set

LEMMA FetchShape ==
    ASSUME ShapeInv, Fetch
    PROVE  /\ fetching' # None => \E s, t : fetching' \in Fetched(s, t)
           /\ fetching = None => fetching'.session = access /\ fetching'.token = None
           /\ fetching # None => fetching' = fetching
<1>1. CASE fetching # None
      BY <1>1 DEF Fetch, ShapeInv
<1>2. CASE fetching = None
  <2>1. fetching' = [session |-> access, token |-> None]
        BY <1>2 DEF Fetch
  <2>2. fetching' \in Fetched(access, None)
        BY <2>1 DEF Fetched
  <2> QED BY <1>2, <2>2, FieldsOfFetch
<1> QED BY <1>1, <1>2

(* A call that is not one the page is unaware of can go its way. *)
LEMMA OthersUnaware ==
    ASSUME CacheInv, NEW c \in Call, ~Unaware(c), \A d \in Call \ {c} : call'[d] = call[d],
           UNCHANGED <<cached, csrf, access>>
    PROVE  CacheInv'
<1>1. ASSUME NEW d \in Call, Unaware(d) PROVE Unaware(d)'
      BY <1>1 DEF Unaware, Cleared
<1> QED BY <1>1 DEF CacheInv

LEMMA FetchKept ==
    ASSUME FetchInv, UNCHANGED <<fetching, cached, csrf, access>>
    PROVE  FetchInv'
BY DEF FetchInv

(* A call goes on, and neither token nor session change. *)
LEMMA CallMoves ==
    ASSUME TokenInv, NEW c \in Call, NEW k, IsCall(k), Set(c, k), ~Unaware(c),
           UNCHANGED <<access, csrf, cached, fetching>>, disturbed => disturbed'
    PROVE  TokenInv'
<1>1. ShapeInv /\ ShapeInv'
      BY SetShape DEF TokenInv, ShapeInv
<1>2. ASSUME ~disturbed' PROVE FetchInv' /\ CacheInv'
  <2>1. FetchInv /\ CacheInv
        BY <1>2 DEF TokenInv
  <2>2. \A d \in Call \ {c} : call'[d] = call[d]
        BY <1>1, SetShape
  <2> QED BY <2>1, <2>2, OthersUnaware, FetchKept
<1> QED BY <1>1, <1>2 DEF TokenInv

LEMMA CallKeeps ==
    ASSUME TokenInv, NEW c \in Call,
           Send(c) \/ CallFails(c) \/ Forbidden(c) \/ Refused(c) \/ Accepted(c)
               \/ MergeGoesOn(c) \/ OtherGoesOn(c)
    PROVE  TokenInv'
<1>1. ShapeInv /\ IsCall(call[c])
      BY DEF TokenInv, ShapeInv
<1>2. UNCHANGED <<access, csrf, cached, fetching>> /\ (disturbed => disturbed') /\ ~Unaware(c)
      BY DEF Send, CallFails, Forbidden, Refused, Accepted, Answer, MergeGoesOn, OtherGoesOn, Unaware
<1>3. CASE Send(c)
  <2>1. PICK k : k = [call[c] EXCEPT !.step = "sent", !.token = None,
                                     !.valid = CsrfValid(call[c].token)]
        OBVIOUS
  <2>2. Set(c, k)
        BY <1>3, <2>1 DEF Send
  <2>3. IsCall(k)
        BY <1>1, <2>1, CallsStay
  <2> QED BY <1>2, <2>2, <2>3, CallMoves
<1>4. CASE Forbidden(c) \/ Refused(c) \/ Accepted(c)
  <2>1. PICK y : Set(c, [call[c] EXCEPT !.step = "page", !.reply = y])
        BY <1>4 DEF Forbidden, Refused, Accepted, Answer
  <2>2. IsCall([call[c] EXCEPT !.step = "page", !.reply = y])
        BY <1>1, CallsStay
  <2> QED BY <1>2, <2>1, <2>2, CallMoves
<1>5. CASE CallFails(c) \/ MergeGoesOn(c) \/ OtherGoesOn(c)
  <2>1. Set(c, NoCall)
        BY <1>5 DEF CallFails, MergeGoesOn, OtherGoesOn
  <2> QED BY <1>2, <2>1, NoCallIsCall, CallMoves
<1> QED BY <1>3, <1>4, <1>5

(* A call that needs a token uses the one kept, or fetches one. *)
LEMMA BeginKeeps ==
    ASSUME TokenInv, NEW c \in Call, Begin(c)
    PROVE  TokenInv'
<1>1. ShapeInv
      BY DEF TokenInv
<1>2. PICK kind : Request(c, kind)
      BY DEF Begin
<1>3. UNCHANGED <<access, csrf, cached, disturbed>> /\ ~Unaware(c)
  <2>1. call[c].step = "idle"
        BY NoCallIsCall DEF Begin
  <2> QED BY <2>1 DEF Begin, Unaware
<1>4. CASE cached # None
  <2>1. UNCHANGED fetching
        BY <1>2, <1>4 DEF Request
  <2>2. Set(c, [NoCall EXCEPT !.kind = kind, !.step = "send", !.token = cached])
        BY <1>2, <1>4 DEF Request
  <2>3. IsCall([NoCall EXCEPT !.kind = kind, !.step = "send", !.token = cached])
        BY NoCallIsCall, CallsStay
  <2> QED BY <1>3, <2>1, <2>2, <2>3, CallMoves
<1>5. CASE cached = None
  <2>1. Set(c, [NoCall EXCEPT !.kind = kind, !.step = "token"]) /\ Fetch
        BY <1>2, <1>5 DEF Request
  <2>2. IsCall([NoCall EXCEPT !.kind = kind, !.step = "token"])
        BY NoCallIsCall, CallsStay
  <2>3. ShapeInv'
        BY <1>1, <2>1, <2>2, SetShape, FetchShape DEF ShapeInv
  <2>4. CacheInv'
        BY <1>3, <1>5 DEF CacheInv
  <2>5. FetchInv => FetchInv'
        BY <1>1, <1>3, <1>5, <2>1, FetchShape DEF FetchInv
  <2> QED BY <1>3, <2>3, <2>4, <2>5 DEF TokenInv
<1> QED BY <1>4, <1>5

(* A new session: the page that asked for it does not know yet. *)
LEMMA SessionKeeps ==
    ASSUME TokenInv, NEW c \in Call, LoggedIn(c) \/ LoggedOut(c)
    PROVE  TokenInv'
<1>1. ShapeInv
      BY DEF TokenInv
<1>2. PICK y : /\ Answer(c, y) /\ SetAccess(c, y)
               /\ \/ call[c].kind = "login" /\ y \in Session
                  \/ call[c].kind = "logout" /\ y = Cleared
  <2>1. ASSUME LoggedIn(c) PROVE FreshSession \in Session
        BY <2>1 DEF LoggedIn, FreshSession
  <2> QED BY <2>1 DEF LoggedIn, LoggedOut
<1>3. Set(c, [call[c] EXCEPT !.step = "page", !.reply = y]) /\ UNCHANGED <<csrf, cached, fetching>>
      BY <1>2 DEF Answer
<1>4. PICK k, s, t, v, z : call[c] \in Made(k, s, t, v, z)
      BY <1>1 DEF ShapeInv, IsCall
<1>5. [call[c] EXCEPT !.step = "page", !.reply = y] \in Made(k, "page", t, v, y)
      BY <1>4, CallFields
<1>6. call'[c] \in Made(k, "page", t, v, y) /\ ShapeInv'
  <2>1. IsCall([call[c] EXCEPT !.step = "page", !.reply = y])
        BY <1>5 DEF IsCall
  <2> QED BY <1>1, <1>3, <1>5, <2>1, SetShape DEF ShapeInv
<1>7. Unaware(c)'
  <2>1. call[c].kind = k
        BY <1>4, FieldsOfCall
  <2>2. call'[c].kind = k /\ call'[c].step = "page" /\ call'[c].reply = y
        BY <1>6, FieldsOfCall
  <2> QED BY <1>2, <2>1, <2>2 DEF Unaware, Cleared
<1>8. CacheInv'
      BY <1>7 DEF CacheInv
<1>9. ~disturbed' => FetchInv'
      BY <1>2, <1>3 DEF SetAccess, Overlaps, FetchInv
<1> QED BY <1>6, <1>8, <1>9 DEF TokenInv

(* The page learns of a new session and forgets the token of the former. *)
LEMMA AwareKeeps ==
    ASSUME TokenInv, NEW c \in Call, LoginGoesOn(c) \/ LogoutGoesOn(c)
    PROVE  TokenInv'
<1>1. ShapeInv /\ UNCHANGED <<access, csrf>> /\ (disturbed => disturbed')
  <2>1. UNCHANGED <<access, csrf>>
        BY DEF LoginGoesOn, LogoutGoesOn
  <2>2. disturbed => disturbed'
    <3>1. CASE LoginGoesOn(c)
          BY <3>1 DEF LoginGoesOn
    <3>2. CASE LogoutGoesOn(c)
          BY <3>2, Zenon DEF LogoutGoesOn
    <3> QED BY <3>1, <3>2
  <2> QED BY <2>1, <2>2 DEF TokenInv
<1>2. CASE LogoutGoesOn(c)
  <2>1. Set(c, NoCall) /\ cached' = None /\ UNCHANGED fetching
        BY <1>2 DEF LogoutGoesOn, ResetCsrfToken
  <2>2. ShapeInv'
        BY <1>1, <2>1, NoCallIsCall, SetShape DEF ShapeInv
  <2>3. CacheInv' /\ (FetchInv => FetchInv')
        BY <1>1, <2>1 DEF CacheInv, FetchInv
  <2> QED BY <1>1, <2>2, <2>3 DEF TokenInv
<1>3. CASE LoginGoesOn(c) /\ call[c].reply \in Session
  <2>1. /\ cached' = None /\ Fetch
        /\ Set(c, [NoCall EXCEPT !.kind = "merge", !.step = "token"])
        BY <1>3 DEF LoginGoesOn, ResetCsrfToken
  <2>2. IsCall([NoCall EXCEPT !.kind = "merge", !.step = "token"])
        BY NoCallIsCall, CallsStay
  <2>3. ShapeInv'
        BY <1>1, <2>1, <2>2, SetShape, FetchShape DEF ShapeInv
  <2>4. CacheInv' /\ (FetchInv => FetchInv')
        BY <1>1, <2>1, FetchShape DEF CacheInv, FetchInv
  <2> QED BY <1>1, <2>3, <2>4 DEF TokenInv
<1>4. CASE LoginGoesOn(c) /\ call[c].reply \notin Session
  <2>1. Set(c, NoCall) /\ UNCHANGED <<cached, fetching>> /\ ~Unaware(c)
        BY <1>4 DEF LoginGoesOn, Unaware
  <2> QED BY <1>1, <2>1, NoCallIsCall, CallMoves
<1> QED BY <1>2, <1>3, <1>4

(* The token is issued, kept, or not to be had. *)
LEMMA TokenKeeps ==
    ASSUME TokenInv, TokenIssued \/ TokenCached \/ FetchFails
    PROVE  TokenInv'
<1>1. ShapeInv
      BY DEF TokenInv
<1>2. CASE TokenIssued
  <2>1. PICK s, t : fetching \in Fetched(s, t)
        BY <1>1, <1>2 DEF ShapeInv, TokenIssued
  <2>2. fetching' = [fetching EXCEPT !.token = csrf'] /\ UNCHANGED <<access, cached, call, disturbed>>
        BY <1>2 DEF TokenIssued
  <2>3. fetching' \in Fetched(s, csrf')
        BY <2>1, <2>2, FetchFields
  <2>4. fetching.session = s /\ fetching'.session = s /\ fetching'.token = csrf'
        BY <2>1, <2>3, FieldsOfFetch
  <2>5. csrf'.session = s
        BY <1>2, <2>4 DEF TokenIssued, Generated
  <2>6. ShapeInv'
        BY <1>1, <2>2, <2>3 DEF ShapeInv
  <2>7. FetchInv => FetchInv' /\ CacheInv'
        BY <1>2, <2>2, <2>4, <2>5 DEF FetchInv, CacheInv, TokenIssued
  <2> QED BY <2>2, <2>6, <2>7 DEF TokenInv
<1>3. CASE TokenCached
  <2>1. /\ fetching # None /\ fetching.token # None /\ cached' = fetching.token /\ fetching' = None
        /\ UNCHANGED <<access, csrf, disturbed>>
        BY <1>3 DEF TokenCached
  <2>2. call' = [c \in Call |-> IF c \in Waiting
                                THEN [call[c] EXCEPT !.step = "send", !.token = fetching.token]
                                ELSE call[c]]
        BY <1>3 DEF TokenCached
  <2>3. ASSUME NEW c \in Call PROVE IsCall(call'[c])
    <3>1. IsCall(call[c])
          BY <1>1 DEF ShapeInv
    <3>2. IsCall([call[c] EXCEPT !.step = "send", !.token = fetching.token])
          BY <3>1, CallsStay
    <3> QED BY <2>2, <3>1, <3>2
  <2>4. ShapeInv'
        BY <2>1, <2>2, <2>3 DEF ShapeInv
  <2>5. FetchInv => FetchInv' /\ CacheInv'
        BY <2>1 DEF FetchInv, CacheInv
  <2> QED BY <2>1, <2>4, <2>5 DEF TokenInv
<1>4. CASE FetchFails
  <2>1. fetching' = None /\ disturbed' = TRUE
        BY <1>4 DEF FetchFails
  <2>2. call' = [c \in Call |-> IF c \in Waiting THEN NoCall ELSE call[c]]
        BY <1>4 DEF FetchFails
  <2>3. ShapeInv'
        BY <1>1, <2>1, <2>2, NoCallIsCall DEF ShapeInv
  <2> QED BY <2>1, <2>3 DEF TokenInv
<1> QED BY <1>2, <1>3, <1>4

LEMMA NextKeeps == TokenInv /\ [Next]_vars => TokenInv'
<1> SUFFICES ASSUME TokenInv, [Next]_vars PROVE TokenInv'
    OBVIOUS
<1>1. ASSUME UNCHANGED <<access, csrf, cached, fetching, call>>, disturbed => disturbed'
      PROVE  TokenInv'
  <2>1. ShapeInv'
        BY <1>1 DEF TokenInv, ShapeInv
  <2>2. FetchInv /\ CacheInv => FetchInv' /\ CacheInv'
        BY <1>1 DEF FetchInv, CacheInv, Unaware, Cleared
  <2> QED BY <1>1, <2>1, <2>2 DEF TokenInv
<1>2. CASE Elsewhere
  <2>1. disturbed' = TRUE /\ UNCHANGED <<fetching, call>>
        BY <1>2 DEF Elsewhere
  <2>2. ShapeInv'
        BY <2>1 DEF TokenInv, ShapeInv
  <2> QED BY <2>1, <2>2 DEF TokenInv
<1>3. CASE Reload
  <2>1. cached' = None /\ fetching' = None /\ UNCHANGED call
        BY <1>3 DEF Reload, Quiet
  <2>2. ShapeInv'
        BY <2>1 DEF TokenInv, ShapeInv
  <2> QED BY <2>1, <2>2 DEF TokenInv, FetchInv, CacheInv
<1>4. CASE \/ \E a \in profile : ProfileAnswered(a) \/ ProfileFails(a)
           \/ UNCHANGED vars
      BY <1>1, <1>4 DEF ProfileAnswered, ProfileFails, vars
<1>5. CASE TokenIssued \/ TokenCached \/ FetchFails
      BY <1>5, TokenKeeps
<1> QED BY <1>2, <1>3, <1>4, <1>5, CallKeeps, BeginKeeps, SessionKeeps, AwareKeeps DEF Next

LEMMA InitTokenInv == Init => TokenInv
<1> SUFFICES ASSUME Init PROVE TokenInv
    OBVIOUS
<1>1. call = [c \in Call |-> NoCall] /\ fetching = None /\ cached = None
      BY DEF Init
<1>2. ShapeInv
      BY <1>1, NoCallIsCall DEF ShapeInv
<1> QED BY <1>1, <1>2 DEF TokenInv, FetchInv, CacheInv

(* For any number of calls under way, sessions and tokens: once an          *)
(* undisturbed tab is quiet, the token it keeps is that of the cookie and   *)
(* bound to the session.                                                    *)
THEOREM TokensSettle == Spec => []SettledTokenIsValid
<1>1. Init => TokenInv
      BY InitTokenInv
<1>2. TokenInv => SettledTokenIsValid
  <2> SUFFICES ASSUME TokenInv, Quiet, ~disturbed, cached # None
               PROVE  cached = csrf /\ csrf.session = access
      BY DEF SettledTokenIsValid
  <2>1. ASSUME NEW c \in Call PROVE ~Unaware(c)
    <3>1. call[c].step = "idle"
          BY NoCallIsCall DEF Quiet
    <3> QED BY <3>1 DEF Unaware
  <2> QED BY <2>1 DEF TokenInv, CacheInv
<1> QED BY <1>1, <1>2, NextKeeps, PTL DEF Spec

-----------------------------------------------------------------------------
(* Who is shown.  As long as nothing interferes, the answer the page has not *)
(* seen is the session of the cookie, and the page shows who is signed in or *)
(* is on the way to it: the answer, the merge of the cart, the profile.      *)
Told == \A c \in Call : Unaware(c) => call[c].reply = access

Coming ==
    \/ shown = UserOf(access) \/ overtaken \/ access \in profile
    \/ \E c \in Call : Unaware(c) \/ call[c].kind = "merge"

ShownInv == ~disturbed => Told /\ Coming

LEMMA CallStarts ==
    ASSUME NEW a, NEW b, NEW d
    PROVE  /\ [NoCall EXCEPT !.kind = a, !.step = b] \in Made(a, b, None, FALSE, None)
           /\ [NoCall EXCEPT !.kind = a, !.step = b, !.token = d] \in Made(a, b, d, FALSE, None)
<1> PICK x : x = NoCall
    OBVIOUS
<1>1. x \in Made("none", "idle", None, FALSE, None)
      BY NoCallMade
<1>2. /\ [x EXCEPT !.kind = a, !.step = b] \in Made(a, b, None, FALSE, None)
      /\ [x EXCEPT !.kind = a, !.step = b, !.token = d] \in Made(a, b, d, FALSE, None)
      BY <1>1, CallFields
<1> QED BY <1>2

(* A step of calls the page is aware of, before and after, that changes      *)
(* neither the session nor what is shown, and ends no merge unread.          *)
LEMMA ShownKept ==
    ASSUME ShownInv, UNCHANGED <<access, shown, overtaken>>, disturbed => disturbed',
           \A c \in Call : Unaware(c)' => Unaware(c) /\ call'[c].reply = call[c].reply,
           \A c \in Call : Unaware(c) => Unaware(c)' \/ call'[c].kind = "merge",
           \/ access \in profile'
           \/ profile' = profile /\ \A c \in Call : call[c].kind = "merge" => call'[c].kind = "merge"
    PROVE  ShownInv'
<1> SUFFICES ASSUME ~disturbed' PROVE Told' /\ Coming'
    BY DEF ShownInv
<1>1. Told /\ Coming
      BY DEF ShownInv
<1>2. Told'
      BY <1>1 DEF Told
<1>3. Coming'
      BY <1>1 DEF Coming, UserOf
<1> QED BY <1>2, <1>3

(* One call changes, and the page is aware of it before and after. *)
LEMMA AwareCall ==
    ASSUME TokenInv, ShownInv, NEW c \in Call, NEW k, IsCall(k), Set(c, k),
           ~Unaware(c), ~Unaware(c)',
           UNCHANGED <<access, shown, overtaken>>, disturbed => disturbed',
           access \in profile' \/ (profile' = profile /\ (call[c].kind = "merge" => k.kind = "merge"))
    PROVE  ShownInv'
<1>1. ShapeInv
      BY DEF TokenInv
<1>2. call'[c] = k /\ \A d \in Call \ {c} : call'[d] = call[d]
      BY <1>1, SetShape
<1>3. \A d \in Call \ {c} : Unaware(d)' <=> Unaware(d)
      BY <1>2 DEF Unaware, Cleared
<1> QED BY <1>2, <1>3, ShownKept

LEMMA CallShown ==
    ASSUME TokenInv, ShownInv, NEW c \in Call,
           \/ Send(c) \/ CallFails(c) \/ Forbidden(c) \/ Refused(c) \/ Accepted(c)
           \/ MergeGoesOn(c) \/ OtherGoesOn(c) \/ Begin(c)
    PROVE  ShownInv'
<1>1. ShapeInv /\ IsCall(call[c])
      BY DEF TokenInv, ShapeInv
<1>2. UNCHANGED <<access, shown, overtaken>> /\ (disturbed => disturbed')
      BY DEF Send, CallFails, Forbidden, Refused, Accepted, Answer, MergeGoesOn, OtherGoesOn, Begin
<1>3. CASE Send(c)
  <2>1. PICK k : k = [call[c] EXCEPT !.step = "sent", !.token = None,
                                     !.valid = CsrfValid(call[c].token)]
        OBVIOUS
  <2>2. Set(c, k) /\ call[c].step = "send" /\ UNCHANGED profile
        BY <1>3, <2>1 DEF Send
  <2>3. IsCall(k) /\ k.kind = call[c].kind /\ k.step = "sent"
    <3>1. IsCall(k)
          BY <1>1, <2>1, CallsStay
    <3>2. PICK n, s, t, v, z : call[c] \in Made(n, s, t, v, z)
          BY <1>1 DEF IsCall
    <3>3. k \in Made(n, "sent", None, CsrfValid(call[c].token), z)
          BY <2>1, <3>2, CallFields
    <3>4. k.kind = call[c].kind /\ k.step = "sent"
          BY <3>2, <3>3, FieldsOfCall
    <3> QED BY <3>1, <3>4
  <2>4. ~Unaware(c) /\ ~Unaware(c)'
        BY <1>1, <2>2, <2>3, SetShape DEF Unaware
  <2> QED BY <1>2, <2>2, <2>3, <2>4, AwareCall
<1>4. CASE Forbidden(c) \/ Refused(c) \/ Accepted(c)
  <2>1. PICK y : /\ Set(c, [call[c] EXCEPT !.step = "page", !.reply = y])
                 /\ y \in {"forbidden", "refused"} \/ call[c].kind \in {"merge", "act"}
        BY <1>4 DEF Forbidden, Refused, Accepted, Answer
  <2>2. PICK k : k = [call[c] EXCEPT !.step = "page", !.reply = y]
        OBVIOUS
  <2>3. IsCall(k) /\ k.kind = call[c].kind /\ k.reply = y
    <3>1. IsCall(k)
          BY <1>1, <2>2, CallsStay
    <3>2. PICK n, s, t, v, z : call[c] \in Made(n, s, t, v, z)
          BY <1>1 DEF IsCall
    <3>3. k \in Made(n, "page", t, v, y)
          BY <2>2, <3>2, CallFields
    <3>4. k.kind = call[c].kind /\ k.reply = y
          BY <3>2, <3>3, FieldsOfCall
    <3> QED BY <3>1, <3>4
  <2>4. call[c].step = "sent" /\ UNCHANGED profile
        BY <1>4 DEF Forbidden, Refused, Accepted, Answer
  <2>5. ~Unaware(c) /\ ~Unaware(c)'
        BY <1>1, <2>1, <2>2, <2>3, <2>4, SetShape, SessionAssumption DEF Unaware, Cleared
  <2> QED BY <1>2, <2>1, <2>2, <2>3, <2>4, <2>5, AwareCall
<1>5. CASE CallFails(c) \/ MergeGoesOn(c) \/ OtherGoesOn(c)
  <2>1. Set(c, NoCall) /\ ~Unaware(c)
        BY <1>5 DEF CallFails, MergeGoesOn, OtherGoesOn, Unaware
  <2>2. ~Unaware(c)'
        BY <1>1, <2>1, SetShape, NoCallIsCall DEF Unaware
  <2>3. CASE CallFails(c)
        BY <2>3 DEF CallFails, ShownInv
  <2>4. CASE MergeGoesOn(c)
    <3>1. access \in profile'
          BY <2>4 DEF MergeGoesOn, Refresh
    <3> QED BY <1>2, <2>1, <2>2, <3>1, NoCallIsCall, AwareCall
  <2>5. CASE OtherGoesOn(c)
    <3>1. profile' = profile /\ call[c].kind # "merge"
          BY <2>5 DEF OtherGoesOn
    <3> QED BY <1>2, <2>1, <2>2, <3>1, NoCallIsCall, AwareCall
  <2> QED BY <1>5, <2>3, <2>4, <2>5
<1>6. CASE Begin(c)
  <2>1. call[c] = NoCall /\ UNCHANGED profile
        BY <1>6 DEF Begin
  <2>2. PICK kind : Request(c, kind)
        BY <1>6 DEF Begin
  <2>3. PICK k, t : Set(c, k) /\ (k \in Made(kind, "send", t, FALSE, None)
                                  \/ k \in Made(kind, "token", None, FALSE, None))
    <3>1. CASE cached # None
      <4>1. Set(c, [NoCall EXCEPT !.kind = kind, !.step = "send", !.token = cached])
            BY <2>2, <3>1 DEF Request
      <4>2. [NoCall EXCEPT !.kind = kind, !.step = "send", !.token = cached]
                \in Made(kind, "send", cached, FALSE, None)
            BY CallStarts
      <4> QED BY <4>1, <4>2
    <3>2. CASE cached = None
      <4>1. Set(c, [NoCall EXCEPT !.kind = kind, !.step = "token"])
            BY <2>2, <3>2 DEF Request
      <4>2. [NoCall EXCEPT !.kind = kind, !.step = "token"] \in Made(kind, "token", None, FALSE, None)
            BY CallStarts
      <4> QED BY <4>1, <4>2
    <3> QED BY <3>1, <3>2
  <2>5. IsCall(k) /\ k.step \in {"send", "token"}
    <3>1. k.step \in {"send", "token"}
          BY <2>3 DEF Made
    <3> QED BY <2>3, <3>1 DEF IsCall
  <2>6. ~Unaware(c) /\ ~Unaware(c)' /\ call[c].kind # "merge"
        BY <1>1, <2>1, <2>3, <2>5, SetShape, NoCallIsCall DEF Unaware, NoCall
  <2> QED BY <1>2, <2>1, <2>3, <2>5, <2>6, AwareCall
<1> QED BY <1>3, <1>4, <1>5, <1>6

(* A change of session that meets no other one: its answer is on the way. *)
LEMMA SessionShown ==
    ASSUME TokenInv, ShownInv, NEW c \in Call, LoggedIn(c) \/ LoggedOut(c)
    PROVE  ShownInv'
<1> SUFFICES ASSUME ~disturbed' PROVE Told' /\ Coming'
    BY DEF ShownInv
<1>1. ShapeInv /\ IsCall(call[c])
      BY DEF TokenInv, ShapeInv
<1>2. PICK y : /\ Answer(c, y) /\ SetAccess(c, y)
               /\ \/ call[c].kind = "login" /\ y \in Session
                  \/ call[c].kind = "logout" /\ y = Cleared
  <2>1. ASSUME LoggedIn(c) PROVE FreshSession \in Session
        BY <2>1 DEF LoggedIn, FreshSession
  <2> QED BY <2>1 DEF LoggedIn, LoggedOut
<1>3. \A d \in Call \ {c} : call[d].kind \notin {"login", "merge", "logout"}
      BY <1>2 DEF SetAccess, Overlaps
<1>4. PICK k : k = [call[c] EXCEPT !.step = "page", !.reply = y]
      OBVIOUS
<1>5. Set(c, k) /\ access' = y
      BY <1>2, <1>4 DEF Answer, SetAccess
<1>6. IsCall(k) /\ k.kind = call[c].kind /\ k.step = "page" /\ k.reply = y
  <2>1. IsCall(k)
        BY <1>1, <1>4, CallsStay
  <2>2. PICK n, s, t, v, z : call[c] \in Made(n, s, t, v, z)
        BY <1>1 DEF IsCall
  <2>3. k \in Made(n, "page", t, v, y)
        BY <1>4, <2>2, CallFields
  <2> QED BY <2>1, <2>2, <2>3, FieldsOfCall
<1>7. call'[c] = k /\ \A d \in Call \ {c} : call'[d] = call[d]
      BY <1>1, <1>5, <1>6, SetShape
<1>8. Told' /\ Unaware(c)'
      BY <1>2, <1>3, <1>5, <1>6, <1>7 DEF Told, Unaware, Cleared
<1> QED BY <1>8 DEF Coming

(* The page goes on after a login, or after a logout. *)
LEMMA AwareShown ==
    ASSUME TokenInv, ShownInv, NEW c \in Call, LoginGoesOn(c) \/ LogoutGoesOn(c)
    PROVE  ShownInv'
<1>1. ShapeInv
      BY DEF TokenInv
<1>2. CASE LoginGoesOn(c) /\ call[c].reply \in Session
  <2>1. PICK k : Set(c, k) /\ k \in Made("merge", "token", None, FALSE, None)
    <3>1. Set(c, [NoCall EXCEPT !.kind = "merge", !.step = "token"])
          BY <1>2 DEF LoginGoesOn
    <3>2. [NoCall EXCEPT !.kind = "merge", !.step = "token"] \in Made("merge", "token", None, FALSE, None)
          BY CallStarts
    <3> QED BY <3>1, <3>2
  <2>2. UNCHANGED <<access, shown, overtaken, disturbed, profile>>
        BY <1>2 DEF LoginGoesOn
  <2>3. IsCall(k) /\ k.kind = "merge" /\ k.step = "token"
    <3>1. k.kind = "merge" /\ k.step = "token"
          BY <2>1 DEF Made
    <3> QED BY <2>1, <3>1 DEF IsCall
  <2>4. call'[c] = k /\ \A d \in Call \ {c} : call'[d] = call[d]
        BY <1>1, <2>1, <2>3, SetShape
  <2>5. ~Unaware(c)' /\ \A d \in Call \ {c} : Unaware(d)' <=> Unaware(d)
        BY <2>3, <2>4 DEF Unaware, Cleared
  <2> QED BY <2>2, <2>3, <2>4, <2>5, ShownKept
<1>3. CASE LoginGoesOn(c) /\ call[c].reply \notin Session
  <2>1. Set(c, NoCall) /\ UNCHANGED <<access, shown, overtaken, disturbed, profile>> /\ ~Unaware(c)
        BY <1>3 DEF LoginGoesOn, Unaware
  <2>2. ~Unaware(c)' /\ call[c].kind # "merge"
        BY <1>1, <1>3, <2>1, SetShape, NoCallIsCall DEF Unaware, LoginGoesOn
  <2> QED BY <2>1, <2>2, NoCallIsCall, AwareCall
<1>4. CASE LogoutGoesOn(c)
  <2> SUFFICES ASSUME ~disturbed' PROVE Told' /\ Coming'
      BY DEF ShownInv
  <2>1. Set(c, NoCall) /\ shown' = None /\ UNCHANGED access
        BY <1>4 DEF LogoutGoesOn
  <2>2. ~disturbed /\ call[c].reply = Cleared
        BY <1>4, Zenon DEF LogoutGoesOn
  <2>3. Told /\ Unaware(c)
        BY <1>4, <2>2 DEF ShownInv, LogoutGoesOn, Unaware
  <2>4. access = Blank
        BY <2>2, <2>3 DEF Told, Cleared
  <2>5. shown' = UserOf(access)'
        BY <2>1, <2>4, SessionAssumption DEF UserOf
  <2>6. call'[c].step = "idle" /\ \A d \in Call \ {c} : call'[d] = call[d]
        BY <1>1, <2>1, SetShape, NoCallIsCall
  <2>7. Told'
        BY <2>1, <2>3, <2>6 DEF Told, Unaware, Cleared
  <2> QED BY <2>5, <2>7 DEF Coming
<1> QED BY <1>2, <1>3, <1>4

LEMMA NextShown == TokenInv /\ ShownInv /\ [Next]_vars => ShownInv'
<1> SUFFICES ASSUME TokenInv, ShownInv, [Next]_vars PROVE ShownInv'
    OBVIOUS
<1>1. CASE TokenIssued \/ UNCHANGED vars
  <2>1. UNCHANGED <<access, shown, overtaken, disturbed, profile, call>>
        BY <1>1 DEF TokenIssued, vars
  <2> QED BY <2>1 DEF ShownInv, Told, Coming, Unaware, Cleared, UserOf
<1>2. CASE TokenCached
  <2>1. UNCHANGED <<access, shown, overtaken, disturbed, profile>>
        BY <1>2 DEF TokenCached
  <2>2. PICK t : call' = [c \in Call |-> IF c \in Waiting
                                         THEN [call[c] EXCEPT !.step = "send", !.token = t]
                                         ELSE call[c]]
        BY <1>2 DEF TokenCached
  <2>3. ASSUME NEW c \in Call
        PROVE  \/ call'[c] = call[c]
               \/ call[c].step = "token" /\ call'[c].step = "send" /\ call'[c].kind = call[c].kind
    <3>1. IsCall(call[c])
          BY DEF TokenInv, ShapeInv
    <3>2. CASE c \in Waiting
      <4>1. call'[c] = [call[c] EXCEPT !.step = "send", !.token = t] /\ call[c].step = "token"
            BY <2>2, <3>2 DEF Waiting
      <4>2. PICK n, s, u, v, z : call[c] \in Made(n, s, u, v, z)
            BY <3>1 DEF IsCall
      <4>3. [call[c] EXCEPT !.step = "send", !.token = t] \in Made(n, "send", t, v, z)
            BY <4>2, CallFields
      <4>4. call'[c] \in Made(n, "send", t, v, z)
            BY <4>1, <4>3
      <4> QED BY <4>1, <4>2, <4>4, FieldsOfCall
    <3>3. CASE c \notin Waiting
          BY <2>2, <3>3
    <3> QED BY <3>2, <3>3
  <2>4. \A c \in Call : (Unaware(c)' <=> Unaware(c)) /\ (Unaware(c) => call'[c] = call[c])
        BY <2>3 DEF Unaware, Cleared
  <2> QED BY <2>1, <2>3, <2>4, ShownKept
<1>3. CASE FetchFails \/ Elsewhere \/ \E a \in profile : ProfileFails(a)
      BY <1>3 DEF FetchFails, Elsewhere, ProfileFails, ShownInv
<1>4. ASSUME NEW a \in profile, ProfileAnswered(a) PROVE ShownInv'
  <2>1. /\ shown' = UserOf(a) /\ overtaken' = (a # access)
        /\ UNCHANGED <<access, call, disturbed>>
        BY <1>4 DEF ProfileAnswered
  <2>2. Told => Told'
        BY <2>1 DEF Told, Unaware, Cleared
  <2>3. Coming'
    <3>1. CASE a = access
          BY <2>1, <3>1 DEF Coming, UserOf
    <3>2. CASE a # access
      <4>1. overtaken'
            BY <2>1, <3>2, Zenon
      <4> QED BY <4>1 DEF Coming
    <3> QED BY <3>1, <3>2
  <2> QED BY <2>1, <2>2, <2>3 DEF ShownInv
<1>5. CASE Reload
  <2>1. access \in profile' /\ UNCHANGED <<access, call>>
        BY <1>5 DEF Reload, Refresh
  <2>2. \A c \in Call : call[c].step = "idle"
        BY <1>5, NoCallIsCall DEF Reload, Quiet
  <2> QED BY <2>1, <2>2 DEF ShownInv, Told, Coming, Unaware
<1> QED BY <1>1, <1>2, <1>3, <1>4, <1>5, CallShown, SessionShown, AwareShown DEF Next

(* For any number of calls under way, sessions and profiles: once an         *)
(* undisturbed tab is quiet, it shows who is signed in, unless the profile   *)
(* it took last was asked for an earlier session.                           *)
THEOREM ShownSettles == Spec => []SettledShowsSession
<1>1. Init => TokenInv /\ ShownInv
  <2> SUFFICES ASSUME Init PROVE ShownInv
      BY InitTokenInv
  <2>1. access \in profile /\ \A c \in Call : call[c].step = "idle"
        BY NoCallIsCall DEF Init
  <2> QED BY <2>1 DEF ShownInv, Told, Coming, Unaware
<1>2. TokenInv /\ ShownInv => SettledShowsSession
  <2> SUFFICES ASSUME ShownInv, Quiet, ~disturbed, ~overtaken PROVE shown = UserOf(access)
      BY DEF SettledShowsSession
  <2>1. ASSUME NEW c \in Call PROVE ~Unaware(c) /\ call[c].kind # "merge"
    <3>1. call[c].step = "idle" /\ call[c].kind = "none"
          BY NoCallIsCall DEF Quiet, NoCall
    <3> QED BY <3>1 DEF Unaware
  <2>2. profile = {}
        BY DEF Quiet
  <2> QED BY <2>1, <2>2 DEF ShownInv, Coming
<1> QED BY <1>1, <1>2, NextKeeps, NextShown, PTL DEF Spec
=============================================================================
