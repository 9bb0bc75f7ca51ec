------------------------------ MODULE Browser ------------------------------
(***************************************************************************)
(* The cookie realm end to end: the endpoints of views.py and the strict   *)
(* authentication class over the session ledger, the cookies they set      *)
(* through CookieTransport and issue_csrf(), and one browser whose tabs    *)
(* run docs/examples/client.js over one cookie jar.                        *)
(*                                                                         *)
(* A handler is one step here, as SessionRotation takes it apart, but for  *)
(* a refresh: its transaction commits first and its grace entry is written *)
(* after (autocommit; under ATOMIC_REQUESTS it is the other way round, see *)
(* SessionRotation).  What this module interleaves is the tabs: a page     *)
(* reads the CSRF cookie, the browser attaches the cookies, the server     *)
(* answers and the browser stores the answer's cookies, and between any    *)
(* two of these another tab may act.                                       *)
(***************************************************************************)

EXTENDS Naturals

CONSTANTS
    Tabs,          \* each with one call of client.js under way at most
    Families, Tokens, Users, Owner, None,
    MaxEvents,     \* bound: so often clocks, networks or people interfere
    Strict,        \* do the API views list a Strict* authentication class?
    BurnOnReuse    \* RotationPolicy.burn_family_on_reuse

ASSUME OwnerAssumption == Owner \in [Families -> Users]
ASSUME BoundAssumption == MaxEvents \in Nat
ASSUME FlagAssumption == Strict \in BOOLEAN /\ BurnOnReuse \in BOOLEAN

Reasons == {"logout", "logout_all", "reuse_detected", "admin"}

ASSUME NoneAssumption == None \notin Tokens \cup Families \cup Reasons

VARIABLES
    \* --- the server
    fam, reason, tok, sid,  \* the ledger
    expired,  \* families whose expires_at has passed
    stale,    \* pairs whose access token no longer verifies
    active,   \* users whose is_active is true
    putting,  \* putting[t]: the pair of a rotation of t that has committed, as
              \* long as its worker has not written the grace entry
    grace,    \* grace[t]: the pair that redeeming t produced
    up,       \* can the grace cache be reached?
    \* --- the browser
    jar,      \* its cookies; a pair of tokens is named by its refresh token, of
              \* the CSRF cookie it is kept only whether there is one
    pc,       \* how far a tab's call has come
    call,     \* what it calls; "renew" and "retry" are the second and third
              \* requests of api()
    hdr,      \* is the CSRF token the page read for its header the cookie's
              \* still?  Every token is new, so that one replaced stays replaced
    sent,     \* the cookies the request carries, and whether it is proved:
              \* its header equals its CSRF cookie
    resp,     \* the answer under way
    \* --- history, read by properties only
    out,      \* sessions that logout or logout-all has answered are signed out
    late,     \* did the tab's request leave when its session was one of them?
    calm,     \* has the grace window covered every retry so far?
    events    \* how often something of the environment has happened

ledger  == <<fam, reason, tok, sid>>
server  == <<ledger, expired, stale, active, putting, grace, up>>
tabs    == <<pc, call, hdr, sent, resp, late>>
vars    == <<server, jar, tabs, out, calm, events>>

L == INSTANCE SessionLedger

Refreshes == {"refresh", "renew"}
ApiCalls  == {"api", "retry"}
SignOuts  == {"logout", "logout_all"}
Chosen    == {"login", "api", "refresh", "logout", "logout_all"}
Calls     == Chosen \cup {"renew", "retry"}

Cookies  == [access : Tokens \cup {None}, refresh : Tokens \cup {None},
             csrf : BOOLEAN]
Requests == [access : Tokens \cup {None}, refresh : Tokens \cup {None},
             proved : BOOLEAN]
Answers  == [status : {0, 200, 400, 401, 403, 500},
             pair : Tokens \cup {None}, clear : BOOLEAN]

NoCookies == [access |-> None, refresh |-> None, csrf |-> FALSE]
NoRequest == [access |-> None, refresh |-> None, proved |-> FALSE]
NoAnswer  == [status |-> 0, pair |-> None, clear |-> FALSE]

\* Every variable has its type, and a call that has ended leaves nothing behind.
TypeOK ==
    /\ L!TypeOK
    /\ expired \in SUBSET Families
    /\ stale \in SUBSET Tokens
    /\ active \in SUBSET Users
    /\ putting \in [Tokens -> Tokens \cup {None}]
    /\ grace \in [Tokens -> Tokens \cup {None}]
    /\ up \in BOOLEAN
    /\ jar \in Cookies
    /\ pc \in [Tabs -> {"idle", "ready", "sent", "rotated", "answered"}]
    /\ call \in [Tabs -> Calls \cup {None}]
    /\ hdr \in [Tabs -> BOOLEAN]
    /\ sent \in [Tabs -> Requests]
    /\ resp \in [Tabs -> Answers]
    /\ out \in SUBSET Families
    /\ late \in [Tabs -> BOOLEAN]
    /\ calm \in BOOLEAN
    /\ events \in 0 .. MaxEvents
    /\ \A b \in Tabs :
          pc[b] = "idle" => sent[b] = NoRequest /\ resp[b] = NoAnswer /\ ~hdr[b]

Init ==
    /\ L!Init
    /\ expired = {} /\ stale = {}
    /\ active = Users
    /\ putting = [t \in Tokens |-> None]
    /\ grace = [t \in Tokens |-> None]
    /\ up = TRUE
    /\ jar = NoCookies
    /\ pc = [b \in Tabs |-> "idle"]
    /\ call = [b \in Tabs |-> None]
    /\ hdr = [b \in Tabs |-> FALSE]
    /\ sent = [b \in Tabs |-> NoRequest]
    /\ resp = [b \in Tabs |-> NoAnswer]
    /\ out = {}
    /\ late = [b \in Tabs |-> FALSE]
    /\ calm = TRUE
    /\ events = 0

-----------------------------------------------------------------------------
(* The page and the browser.  Definitions whose name says Faulty are the    *)
(* ones below them with a plausible mistake; no action uses them.          *)

\* The page makes the request it is at, or one of its own choice: it reads the
\* CSRF cookie into the header and hands the request to the browser.
Fetch(b, c) ==
    /\ pc[b] = "idle"
    /\ call[b] \in {None, c}
    /\ c \in Chosen \/ call[b] = c
    /\ pc' = [pc EXCEPT ![b] = "ready"]
    /\ call' = [call EXCEPT ![b] = c]
    /\ hdr' = [hdr EXCEPT ![b] = c # "login" /\ jar.csrf]
    /\ UNCHANGED <<server, jar, sent, resp, late, out, calm>>

\* The tokens a request to the endpoint of c carries and the endpoint reads:
\* the refresh cookie's path is that of the auth endpoints.
Attached(c) ==
    [access  |-> IF c \in ApiCalls THEN jar.access ELSE None,
     refresh |-> IF c \in Refreshes \cup SignOuts THEN jar.refresh ELSE None]

\* The browser attaches the cookies of the moment, and validate_csrf() will
\* find the header equal to the CSRF cookie, or not.
Send(b) ==
    LET carried == Attached(call[b])
    IN  /\ pc[b] = "ready"
        /\ pc' = [pc EXCEPT ![b] = "sent"]
        /\ sent' = [sent EXCEPT ![b] =
                      [access |-> carried.access, refresh |-> carried.refresh,
                       proved |-> hdr[b]]]
        /\ hdr' = [hdr EXCEPT ![b] = FALSE]
        /\ late' = [late EXCEPT ![b] =
                      \E t \in {carried.access, carried.refresh} \ {None} :
                         sid[t] \in out]
        /\ UNCHANGED <<server, jar, call, resp, out, calm>>

\* What api() does when its request or its refresh() has been answered.
Following(b) ==
    IF call[b] = "api" /\ resp[b].status = 401 THEN "renew"
    ELSE IF call[b] = "renew" /\ resp[b].status = 200 THEN "retry" ELSE None

\* The browser's cookies become j.  A CSRF cookie that is set or deleted is
\* no longer the one that was read for a header.
Store(j, csrfToo) ==
    /\ jar' = j
    /\ hdr' = [b \in Tabs |-> hdr[b] /\ ~csrfToo]

\* A call that goes on without forgetting the answer it goes on from.
FaultyReturn(b, c) ==
    /\ pc' = [pc EXCEPT ![b] = "idle"]
    /\ call' = [call EXCEPT ![b] = c]
    /\ sent' = [sent EXCEPT ![b] = NoRequest]
    /\ resp' = IF c = None THEN [resp EXCEPT ![b] = NoAnswer] ELSE resp
    /\ late' = [late EXCEPT ![b] = FALSE]

\* The tab's call is over, or goes on with c.
Return(b, c) ==
    /\ pc' = [pc EXCEPT ![b] = "idle"]
    /\ call' = [call EXCEPT ![b] = c]
    /\ sent' = [sent EXCEPT ![b] = NoRequest]
    /\ resp' = [resp EXCEPT ![b] = NoAnswer]
    /\ late' = [late EXCEPT ![b] = FALSE]

\* CookieTransport.clear() without the cookie at another path.
FaultyCleared == [jar EXCEPT !.access = None, !.csrf = FALSE]

\* CookieTransport.clear() deletes all three cookies.
Cleared == NoCookies

\* The answer arrives, in any order with those of other tabs, and its cookies
\* replace the browser's.
Deliver(b) ==
    /\ pc[b] = "answered"
    /\ IF resp[b].clear THEN Store(Cleared, TRUE)
       ELSE IF resp[b].pair = None THEN Store(jar, FALSE)
       ELSE Store([access |-> resp[b].pair, refresh |-> resp[b].pair,
                   csrf |-> TRUE], TRUE)
    /\ Return(b, Following(b))
    /\ UNCHANGED <<server, out, calm>>

\* A request is lost on its way, or its answer is, and the call fails.  The
\* worker that had committed a rotation for it may write the grace entry still,
\* or have died.
Lose(b) ==
    /\ pc[b] \in {"sent", "rotated", "answered"}
    /\ Return(b, None)
    /\ UNCHANGED <<server, jar, hdr, out, calm>>

\* A CSRF cookie with no Expires.
FaultyKeptOverRestart == [jar EXCEPT !.csrf = FALSE]

\* All three cookies are set with an expiry, so none of them dies with the
\* browser.
KeptOverRestart == jar

\* The browser is closed, with the calls of its pages, and opened again.
Restart ==
    /\ jar' = KeptOverRestart
    /\ pc' = [b \in Tabs |-> "idle"]
    /\ call' = [b \in Tabs |-> None]
    /\ hdr' = [b \in Tabs |-> FALSE]
    /\ sent' = [b \in Tabs |-> NoRequest]
    /\ resp' = [b \in Tabs |-> NoAnswer]
    /\ late' = [b \in Tabs |-> FALSE]
    /\ UNCHANGED <<server, out, calm>>

\* Cookies reach their expiry: the access cookie its own, the other two that
\* of the refresh token.  The browser's clock need not be the server's.
Lapse ==
    /\ \/ jar.access # None /\ Store([jar EXCEPT !.access = None], FALSE)
       \/ /\ jar.refresh # None
          /\ Store([jar EXCEPT !.refresh = None, !.csrf = FALSE], TRUE)
    /\ UNCHANGED <<server, pc, call, sent, resp, late, out, calm>>

-----------------------------------------------------------------------------
(* The views.                                                              *)

Live(f) == fam[f] = "stored" /\ reason[f] = None /\ f \notin expired

\* The rows of a user's families that revoke_all_for_user() selects.
LiveFamilies(u) ==
    {f \in Families : Owner[f] = u /\ fam[f] = "stored" /\ reason[f] = None}

\* What a request to one of the refresh-credential endpoints presents.
Credential(b) == sent[b].refresh
Session(b)    == sid[Credential(b)]

\* origin_proven: a credential was presented and has passed the CSRF check.
OriginProven(b) == Credential(b) # None /\ sent[b].proved

\* The answer is on its way.
Reply(b, status, pair, clear) ==
    /\ pc' = [pc EXCEPT ![b] = "answered"]
    /\ resp' = [resp EXCEPT ![b] =
                  [status |-> status, pair |-> pair, clear |-> clear]]
    /\ UNCHANGED <<jar, call, hdr, sent, late>>

\* failure() and signed_out(): the cookies are cleared if origin_proven.
Answer(b, status) == Reply(b, status, None, OriginProven(b))

\* Answers that never touch a cookie: a csrf_failure(), an API view's.
Plain(b, status) == Reply(b, status, None, FALSE)

\* csrf_failure() that clears, as failure() does.
FaultyCsrfFailure(b) == Reply(b, 403, None, TRUE)

CsrfFailure(b) == Plain(b, 403)

\* set_cookies(): the pair, and a new CSRF token with it.
SetCookies(b, p) == Reply(b, 200, p, FALSE)

\* What logout answers in the cases where the others fail: a cookie client is
\* signed out by the clearing, whatever its token's state.
Refuse(b) == Answer(b, IF call[b] = "logout" THEN 200 ELSE 401)

\* The session a refusal leaves signed out, if the request was a logout.
SignedOut(b) == IF call[b] = "logout" THEN out \cup {Session(b)} ELSE out

\* TokenObtainView: a new session, or wrong credentials and a 400.
Login(b) ==
    /\ pc[b] = "sent" /\ call[b] = "login"
    /\ \/ /\ Plain(b, 400)
          /\ UNCHANGED ledger
       \/ \E f \in Families, t \in Tokens :
          /\ Owner[f] \in active
          /\ L!Open(f, t)
          /\ SetCookies(b, t)
    /\ UNCHANGED <<expired, stale, active, putting, grace, up, out, calm>>

\* read_refresh_credential() raises: there is no refresh cookie, or the CSRF
\* check fails, and the ledger is not touched.
Unread(b) ==
    /\ pc[b] = "sent" /\ call[b] \in Refreshes \cup SignOuts
    /\ \/ Credential(b) = None /\ Refuse(b)
       \/ Credential(b) # None /\ ~sent[b].proved /\ CsrfFailure(b)
    /\ UNCHANGED <<server, out, calm>>

\* A request to one of the endpoints cs whose credential has been read.
Reads(b, cs) == pc[b] = "sent" /\ call[b] \in cs /\ OriginProven(b)

\* rotate() asks whether the subject may keep a session; a logout does not.
MayRefresh(b) == call[b] \in Refreshes => Owner[Session(b)] \in active

\* rotate() refuses the subject and burns the family.
Disabled(b) ==
    /\ Reads(b, Refreshes)
    /\ ~MayRefresh(b)
    /\ L!Revoke({Session(b)} \cap LiveFamilies(Owner[Session(b)]), "admin")
    /\ Refuse(b)
    /\ UNCHANGED <<expired, stale, active, putting, grace, up, out, calm>>

\* NOT_FOUND, EXPIRED or FAMILY_REVOKED, or a refresh token whose own expiry
\* has passed with its family's.
Dead(b) ==
    /\ Reads(b, Refreshes \cup SignOuts)
    /\ ~Live(Session(b))
    /\ Refuse(b)
    /\ out' = SignedOut(b)
    /\ UNCHANGED <<server, calm>>

\* A rotation that leaves nothing for a second tab to find.
FaultyGracePut(t, n) == UNCHANGED grace

\* _grace_put(): the pair is kept for replays, if the cache can be reached.
GracePut(t, n) == grace' = IF up THEN [grace EXCEPT ![t] = n] ELSE grace

\* get_claims(), the signing or issue() raises, and the token stays unspent.
Error(b) ==
    /\ Reads(b, Refreshes)
    /\ MayRefresh(b)
    /\ Plain(b, 500)
    /\ UNCHANGED <<server, out, calm>>

\* TokenRefreshView with a LIVE token: consume() and issue() commit.
Refresh(b) ==
    /\ Reads(b, Refreshes)
    /\ MayRefresh(b)
    /\ Live(Session(b))
    /\ \E n \in Tokens :
          /\ L!Rotate(Credential(b), n)
          /\ putting' = [putting EXCEPT ![Credential(b)] = n]
    /\ pc' = [pc EXCEPT ![b] = "rotated"]
    /\ UNCHANGED <<expired, stale, active, grace, up, jar, call, hdr, sent, resp,
                   late, out, calm>>

\* The worker that rotated t goes on after its commit.
Puts(t) ==
    /\ putting[t] # None
    /\ GracePut(t, putting[t])
    /\ putting' = [putting EXCEPT ![t] = None]
    /\ UNCHANGED <<ledger, expired, stale, active, up, out, calm>>

\* It answers the request,
Grant(b) ==
    /\ pc[b] = "rotated"
    /\ Puts(Credential(b))
    /\ SetCookies(b, putting[Credential(b)])

\* or nobody waits for the answer any more.
GrantNobody(t) ==
    /\ \A b \in Tabs : pc[b] = "rotated" => Credential(b) # t
    /\ Puts(t)
    /\ UNCHANGED <<jar, tabs>>

\* A replay honoured whatever has become of the session.
FaultyGraced(b) ==
    tok[Credential(b)] = "spent" /\ up /\ grace[Credential(b)] # None

\* consume() answers ALREADY_CONSUMED and the grace window holds the pair.
Graced(b) ==
    /\ Live(Session(b))
    /\ tok[Credential(b)] = "spent"
    /\ up /\ grace[Credential(b)] # None

\* TokenRefreshView inside the grace window: the same pair once more.
Replay(b) ==
    /\ Reads(b, Refreshes)
    /\ MayRefresh(b)
    /\ Graced(b)
    /\ SetCookies(b, grace[Credential(b)])
    /\ UNCHANGED <<server, out, calm>>

\* Reuse that is refused and left at that.
FaultyBurn(b) == UNCHANGED ledger

\* _burn()
Burn(b) ==
    IF BurnOnReuse THEN L!Revoke({Session(b)}, "reuse_detected")
    ELSE UNCHANGED ledger

\* A token replayed outside the window, while the cache is unreachable, or
\* before the rotation that spent it has written its entry: the false alarm
\* that _redeem() documents and does not close.
Reuse(b) ==
    /\ Reads(b, Refreshes \cup SignOuts)
    /\ MayRefresh(b)
    /\ Live(Session(b))
    /\ tok[Credential(b)] = "spent"
    /\ ~Graced(b)
    /\ Burn(b)
    /\ Refuse(b)
    /\ out' = SignedOut(b)
    /\ calm' = (calm /\ putting[Credential(b)] = None)
    /\ UNCHANGED <<expired, stale, active, putting, grace, up>>

\* What a logout ends, and what a logout-all ends.
Ends(b) ==
    IF call[b] = "logout" THEN {Session(b)} ELSE LiveFamilies(Owner[Session(b)])

\* A logout that answers without having ended a session whose token was
\* replaced a moment ago.
FaultyLogout(b) ==
    /\ Reads(b, SignOuts)
    /\ Live(Session(b))
    /\ \/ L!SignOut(Credential(b), Ends(b), call[b])
       \/ Graced(b) /\ UNCHANGED ledger
    /\ Answer(b, 200)
    /\ out' = out \cup Ends(b)
    /\ UNCHANGED <<expired, stale, active, putting, grace, up, calm>>

\* LogoutView and LogoutAllView with a token that redeems.
Logout(b) ==
    /\ Reads(b, SignOuts)
    /\ Live(Session(b))
    /\ \/ L!SignOut(Credential(b), Ends(b), call[b])
       \/ Graced(b) /\ L!Revoke(Ends(b), call[b])
    /\ Answer(b, 200)
    /\ out' = out \cup Ends(b)
    /\ UNCHANGED <<expired, stale, active, putting, grace, up, calm>>

\* check_family() of a class that is not strict.
FaultyCheckFamily(f) == TRUE

CheckFamily(f) == Strict => Live(f)

\* An unsafe request to an API view: authenticate() verifies the access token,
\* then checks CSRF, the session and the user; no credential is a 401 too.
Api(b) ==
    LET a == sent[b].access
    IN  /\ pc[b] = "sent" /\ call[b] \in ApiCalls
        /\ Plain(b, IF a = None \/ a \in stale THEN 401
                    ELSE IF ~sent[b].proved THEN 403
                    ELSE IF ~CheckFamily(sid[a]) THEN 401
                    ELSE IF Owner[sid[a]] \notin active THEN 401
                    ELSE 200)
        /\ UNCHANGED <<server, out, calm>>

-----------------------------------------------------------------------------
(* Clocks, the purge and administrators.                                   *)

\* The access token of a pair stops verifying.
AccessExpires(t) ==
    /\ tok[t] # "absent" /\ t \notin stale
    /\ stale' = stale \cup {t}
    /\ UNCHANGED <<ledger, expired, active, putting, grace, up, jar, tabs, out, calm>>

\* A token that is held, presented or on its way to the browser, or that an
\* older grace entry can bring there.
InUse(t) ==
    \/ jar.refresh = t
    \/ \E b \in Tabs : t \in {Credential(b), resp[b].pair}
    \/ \E k \in Tokens : t \in {putting[k], grace[k]}

\* A grace entry times out, or the cache drops it.  (All entries live equally
\* long, so that the older one, which leads to this one, times out first.)
GraceExpires(t) ==
    /\ grace[t] # None
    /\ grace' = [grace EXCEPT ![t] = None]
    /\ calm' = (calm /\ ~InUse(t))
    /\ UNCHANGED <<ledger, expired, stale, active, putting, up, jar, tabs, out>>

\* The grace cache fails, or works again with what it held.
Outage ==
    /\ up' = ~up
    /\ calm' = FALSE
    /\ UNCHANGED <<ledger, expired, stale, active, putting, grace, jar, tabs, out>>

\* A session reaches its expires_at.
SessionExpires(f) ==
    /\ fam[f] = "stored" /\ f \notin expired
    /\ expired' = expired \cup {f}
    /\ UNCHANGED <<ledger, stale, active, putting, grace, up, jar, tabs, out, calm>>

\* signet_purge
Purge ==
    LET old == {f \in expired : fam[f] = "stored"}
    IN  /\ old # {}
        /\ L!Forget(old)
        /\ UNCHANGED <<expired, stale, active, putting, grace, up, jar, tabs, out, calm>>

\* An administrator disables an account, or enables it again.
SetActive(u) ==
    /\ active' = IF u \in active THEN active \ {u} ELSE active \cup {u}
    /\ UNCHANGED <<ledger, expired, stale, putting, grace, up, jar, tabs, out, calm>>

Page(b) == (\E c \in Calls : Fetch(b, c)) \/ Send(b) \/ Deliver(b)

View(b) ==
    \/ Login(b) \/ Unread(b) \/ Disabled(b) \/ Dead(b) \/ Error(b) \/ Refresh(b)
    \/ Grant(b) \/ Replay(b) \/ Reuse(b) \/ Logout(b) \/ Api(b)

Environment ==
    \/ Restart \/ Lapse \/ Outage
    \/ \E b \in Tabs : Lose(b)
    \/ \E t \in Tokens : AccessExpires(t) \/ GraceExpires(t)
    \/ \E f \in Families : SessionExpires(f)
    \/ \E u \in Users : SetActive(u)

Next ==
    \/ /\ \/ \E b \in Tabs : Page(b) \/ View(b)
          \/ \E t \in Tokens : GrantNobody(t)
          \/ Purge
       /\ UNCHANGED events
    \/ Environment /\ events < MaxEvents /\ events' = events + 1

Spec == Init /\ [][Next]_vars

-----------------------------------------------------------------------------
(* Properties                                                              *)

\* csrf.py: "The CSRF cookie has to outlive every refresh the session will
\* make."  However answers, restarts and expiries interleave, a browser that
\* still holds a refresh cookie holds a CSRF cookie, so its session is not
\* stranded behind a check that clears nothing.
NeverStrandedByCsrf == jar.refresh # None => jar.csrf

Over(f) == reason[f] # None \/ fam[f] = "purged" \/ f \in expired

\* clear_cookies() and csrf_failure(): an answer deletes the browser's cookies
\* only when the request proved its origin and the session it presented is
\* over, so no failed check is a logout of a session that still stands.  (A
\* policy that does not burn on reuse clears at reuse all the same.)
ClearedMeansOver ==
    BurnOnReuse =>
       \A b \in Tabs : resp[b].clear => OriginProven(b) /\ Over(Session(b))

\* Once a logout or logout-all has been answered, no request that leaves the
\* browser later gets a new pair for that session or passes a strict view with
\* its access token - in whatever tab, whichever cookies a late answer has put
\* back, inside the grace window or not.  (Without a burn on reuse a logout
\* with a replaced token answers that and ends nothing.)
SignedOutStaysOut ==
    BurnOnReuse =>
       \A b \in Tabs :
          late[b] /\ resp[b].status = 200 =>
             call[b] \notin Refreshes /\ ~(Strict /\ call[b] \in ApiCalls)

\* The benign races the grace window is for: tabs that refresh together, a
\* logout that races a refresh, an answer that is lost and the call repeated, a
\* late answer that puts a replaced pair back.  None of them is taken for theft
\* unless the cache failed, an entry ran out while its token was in use, or the
\* second request came between the commit of the rotation and its grace entry
\* (docs/explanation/limitations.md: "Two racing requests can raise a false
\* theft alarm"; GapAlarm.cfg shows that one).
NoFalseAlarm == calm => \A f \in Families : reason[f] # "reuse_detected"

\* The same with no exception made, which the code does not promise.
NeverTakenForTheft == \A f \in Families : reason[f] # "reuse_detected"

\* client.js, refresh(): "Resolves true once new cookies are set, false when
\* the session is over."
RefreshFalseMeansOver ==
    \A b \in Tabs :
       call[b] \in Refreshes /\ resp[b].status \in {401, 403} =>
          Credential(b) = None \/ Over(Session(b))
=============================================================================
