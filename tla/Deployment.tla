----------------------------- MODULE Deployment -----------------------------
(***************************************************************************)
(* A configuration of the cookie realm: what `manage.py check` says of it  *)
(* (the checks package), what its endpoints then do with it (CookiePolicy, *)
(* CookieTransport, get_backend(), get_store()) and which of their cookies *)
(* a browser keeps and sends back.  Deploying another configuration leaves *)
(* browsers with the cookies of the one before.                            *)
(*                                                                         *)
(* One browser makes one request at a time; the site is served over HTTPS. *)
(***************************************************************************)
EXTENDS Naturals, FiniteSets, SequencesExt

CONSTANTS
    Configurations,  \* the settings and URLconfs that are ever deployed
    Successors(_),   \* those of them that are deployed over a given one
    Sessions,
    Strings,         \* what names, paths, keys and other texts are made of
    None,            \* a setting left None, or nothing
    Wrong,           \* a value of a type the setting cannot have
    MaxRotations,    \* bound: no session is refreshed more often
    MaxDeploys       \* bound: the first deployment and the ones that follow

ASSUME BoundAssumption == MaxRotations \in Nat \ {0} /\ MaxDeploys \in Nat \ {0}

ASSUME StringsAssumption ==
    {"access", "refresh", "csrf", "SECRET_KEY"} \subseteq Strings

\* A cookie's name, its browser-enforced prefix apart; a path is the sequence
\* of its parts, each slash one of them.
CookiePrefixes == {"", "__Secure-", "__Host-"}
Names    == [pre : CookiePrefixes, base : Strings]
Stores   == {"orm", "cache", "file"}

\* The types of the settings, those that CheckTypes looks at apart.
ASSUME ConfigurationAssumption ==
    /\ Configurations \subseteq
          [debug : BOOLEAN, secure : BOOLEAN, samesite : Strings, domain : BOOLEAN,
           path : {Wrong} \cup Seq(Strings), mount : Seq(Strings),
           prefix : CookiePrefixes,
           access : {None, Wrong} \cup Names, refresh : {None, Wrong} \cup Names,
           csrf : {None, Wrong} \cup Names, algorithm : {Wrong} \cup Strings,
           signing : {None} \cup Strings, verifying : {None} \cup Strings,
           store : Stores \cup {"broken"},
           grace : {None, "shared", "keeps", "missing"}]
    /\ \A c \in Configurations : Successors(c) \subseteq Configurations

VARIABLES
    cfg,     \* the configuration in force
    deploys,
    jar,     \* the browser's cookies
    home,    \* the store a session was opened in, None before that
    live,    \* the refresh token of a session that redeems, 0 if none does
    recent,  \* sessions refreshed within the grace window
    answer,  \* the last answer
    holds,   \* the last refresh token this deployment has handed the browser
    out      \* has logout answered since, and nothing been deployed?

vars == <<cfg, deploys, jar, home, live, recent, answer, holds, out>>

Refreshes == [session : Sessions, n : 1 .. MaxRotations, key : Strings]
Access   == [session |-> None, n |-> 0, key |-> "access"]
Csrf     == [session |-> None, n |-> 0, key |-> "csrf"]
Answers  == [to : {"nothing", "login", "refresh", "logout", "logout-all"},
             status : {0, 200, 401, 403, 500, 501},
             due : BOOLEAN,            \* did the token in the browser's hands redeem?
             shown : Refreshes \cup {Access, Csrf, None}]  \* what it was refused

Silence == [to |-> "nothing", status |-> 0, due |-> FALSE, shown |-> None]

\* Every variable has its type, and the browser holds one cookie of a name,
\* path and domain at most.
TypeOK ==
    /\ cfg \in Configurations
    /\ deploys \in 1 .. MaxDeploys
    /\ \A k \in jar : k.name \in Names /\ k.val \in Refreshes \cup {Access, Csrf}
    /\ \A j, k \in jar :
          j.name = k.name /\ j.path = k.path /\ j.domain = k.domain => j = k
    /\ home \in [Sessions -> Stores \cup {None}]
    /\ live \in [Sessions -> 0 .. MaxRotations]
    /\ recent \in SUBSET Sessions
    /\ answer \in Answers
    /\ holds \in Refreshes \cup {None}
    /\ out \in BOOLEAN

Init ==
    /\ cfg \in Configurations
    /\ deploys = 1
    /\ jar = {}
    /\ home = [s \in Sessions |-> None]
    /\ live = [s \in Sessions |-> 0]
    /\ recent = {}
    /\ answer = Silence
    /\ holds = None
    /\ out = FALSE

-----------------------------------------------------------------------------
(* CookiePolicy, get_backend() and get_store() under a configuration c.     *)
(* Definitions whose name says Faulty are the ones below them with a        *)
(* plausible mistake; no action uses them.                                 *)

\* resolved_name(): the strictest prefix the cookie's attributes satisfy.  An
\* insecure cookie gets none but what COOKIE_PREFIX itself begins with.
ResolvedName(c, base, rootPath) ==
    [pre |-> IF ~c.secure THEN c.prefix
             ELSE IF rootPath /\ ~c.domain THEN "__Host-" ELSE "__Secure-",
     base |-> base]

Explicit(c, name, derived) == IF c[name] = None THEN derived ELSE c[name]

AccessName(c)  == Explicit(c, "access", ResolvedName(c, "access", TRUE))
RefreshName(c) == Explicit(c, "refresh", ResolvedName(c, "refresh", FALSE))
CsrfName(c)    == Explicit(c, "csrf", ResolvedName(c, "csrf", TRUE))

HMAC == {"HS256", "HS384", "HS512"}
RSA  == {"RS256", "RS384", "RS512"}

\* get_backend() and what it raises; SECRET_KEY stands in for an HMAC key only.
BackendBuilds(c) == \/ c.algorithm \in HMAC
                    \/ c.algorithm \in RSA /\ c.verifying # None
CanSign(c)       == /\ BackendBuilds(c)
                    /\ c.algorithm \in RSA => c.signing # None

\* A signing key that SECRET_KEY does not stand in for.
FaultySigningKey(c) == c.signing

SigningKey(c) == IF c.signing = None THEN "SECRET_KEY" ELSE c.signing

\* The verifier forgets that SIGNING_KEY replaces SECRET_KEY.
FaultyVerifyingKey(c) == IF c.algorithm \in RSA THEN c.verifying ELSE "SECRET_KEY"

VerifyingKey(c) == IF c.algorithm \in RSA THEN c.verifying ELSE SigningKey(c)

\* get_store(), supports_revoke_all_for_user and the grace cache.
StoreBuilds(c)  == c.store # "broken"
CanRevokeAll(c) == c.store = "orm"
GraceWorks(c)   == c.grace \in {"shared", "keeps"}

-----------------------------------------------------------------------------
(* The checks, each the set of the messages it reports.                    *)

FaultyPathCovers(path, url) == IsPrefix(path, url)

\* _cookie_path_covers()
CookiePathCovers(path, url) ==
    /\ IsPrefix(path, url)
    /\ \/ Len(url) = Len(path)
       \/ path # <<>> /\ Last(path) = "/"
       \/ url[Len(path) + 1] = "/"

RefreshEndpoints == {"refresh", "logout", "logout-all"}

Url(c, endpoint) == Append(c.mount, endpoint)

CheckTypes(c) ==
    IF Wrong \in {c.algorithm, c.path, c.access, c.refresh, c.csrf}
        THEN {"E006"} ELSE {}

CheckSecurity(c) == IF ~c.debug /\ ~c.secure THEN {"E001"} ELSE {}
CheckSameSite(c) == IF c.samesite = "None" /\ ~c.secure THEN {"W012"} ELSE {}

\* _prefix_violations()
PrefixViolated(c, name, path) ==
    \/ name.pre # "" /\ ~c.secure
    \/ name.pre = "__Host-" /\ (path # <<"/">> \/ c.domain)

\* Only explicit names are looked at; a wrong-typed path counts as the default.
CheckPrefix(c) ==
    LET paths == [access |-> <<"/">>, csrf |-> <<"/">>,
                  refresh |-> IF c.path = Wrong THEN <<"/", "api", "/", "auth", "/">>
                              ELSE c.path]
    IN  IF \E which \in {"access", "refresh", "csrf"} :
              c[which] \notin {None, Wrong} /\ PrefixViolated(c, c[which], paths[which])
          THEN {"E002"} ELSE {}

CheckGraceCache(c) ==
    CASE c.grace = "missing" -> {"W003"} [] c.grace = "keeps" -> {"W013"}
      [] OTHER -> {}

CheckSigningKey(c) ==
    {m \in {"E004", "W011"} :
        /\ c.algorithm \in RSA
        /\ (IF m = "E004" THEN c.verifying ELSE c.signing) = None}

CheckTokenStore(c) ==
    IF ~StoreBuilds(c) THEN {"E010"}
    ELSE (IF c.store = "file" THEN {"W014"} ELSE {})
         \cup (IF CanRevokeAll(c) THEN {} ELSE {"W007"})

CheckRefreshCookiePath(c) ==
    IF c.path # Wrong
       /\ \E e \in RefreshEndpoints : ~CookiePathCovers(c.path, Url(c, e))
    THEN {"E008"} ELSE {}

\* What `manage.py check` prints: ALL_CHECKS.
Messages(c) ==
    CheckTypes(c) \cup CheckSecurity(c) \cup CheckSameSite(c) \cup CheckPrefix(c)
    \cup CheckGraceCache(c) \cup CheckSigningKey(c) \cup CheckTokenStore(c)
    \cup CheckRefreshCookiePath(c)

Errors(c) == Messages(c) \cap {"E001", "E002", "E004", "E006", "E008", "E010"}

-----------------------------------------------------------------------------
(* The browser (RFC 6265, 5.1.4 to 5.4, and the prefixes of 6265bis).       *)

StartsAtRoot(path) == path # Wrong /\ path # <<>> /\ path[1] = "/"

\* A Path attribute that does not begin with a slash counts as none, and the
\* directory of the endpoint that answered, the mount point, is taken.
CookiePath(c, path) ==
    IF StartsAtRoot(path) THEN path
    ELSE IF Len(c.mount) > 1 THEN Front(c.mount) ELSE c.mount

Matches(path, url) ==
    path = url \/ /\ IsPrefix(path, url)
                  /\ Last(path) = "/" \/ url[Len(path) + 1] = "/"

Keeps(c, cookie) ==
    /\ cookie.name.pre # "" => c.secure
    /\ cookie.name.pre = "__Host-" => cookie.path = <<"/">> /\ ~c.domain
    /\ c.samesite = "None" => c.secure

\* A response holds one cookie of a name, the one set last.
Headers(cookies) ==
    {cookies[i] : i \in {i \in DOMAIN cookies :
        \A j \in DOMAIN cookies : cookies[j].name = cookies[i].name => j <= i}}

Replaced(kept) ==
    {k \in jar : \E h \in kept :
        k.name = h.name /\ k.path = h.path /\ k.domain = h.domain}

\* The cookies of attach() and issue_csrf(), or of clear(), in their order.
Cookies(c, access, refresh, csrf) ==
    << [name |-> AccessName(c), path |-> <<"/">>, domain |-> c.domain,
        val |-> access],
       [name |-> RefreshName(c), path |-> CookiePath(c, c.path),
        domain |-> c.domain, val |-> refresh],
       [name |-> CsrfName(c), path |-> <<"/">>, domain |-> c.domain,
        val |-> csrf] >>

Kept(c, cookies) == {h \in Headers(cookies) : Keeps(c, h)}

SetCookies(token) ==
    LET kept == Kept(cfg, Cookies(cfg, Access, token, Csrf))
    IN  jar' = (jar \ Replaced(kept)) \cup kept

\* clear() without the CSRF cookie.
FaultyClearCookies ==
    jar' = jar \ Replaced(Kept(cfg, SubSeq(Cookies(cfg, None, None, None), 1, 2)))

\* clear() at the root path only.
FaultyClearPath ==
    jar' = jar \ Replaced({[h EXCEPT !.path = <<"/">>] :
                              h \in Kept(cfg, Cookies(cfg, None, None, None))})

ClearCookies == jar' = jar \ Replaced(Kept(cfg, Cookies(cfg, None, None, None)))

\* The refresh cookies a request to the endpoint carries, and the ones Django
\* may take for it: it keeps the last of a name, browsers send longer paths
\* first, and of two equal paths either may come last.
Sent(endpoint) == {k \in jar : /\ k.name = RefreshName(cfg)
                               /\ Matches(k.path, Url(cfg, endpoint))}

Read(endpoint) ==
    {k.val : k \in {k \in Sent(endpoint) :
                       \A j \in Sent(endpoint) : Len(k.path) <= Len(j.path)}}

\* The page sees every CSRF cookie of the name and echoes the first; the server
\* compares the last.
Proved == Cardinality({k \in jar : k.name = CsrfName(cfg)}) = 1

-----------------------------------------------------------------------------
(* The endpoints.                                                          *)

Verifies(v) == v \in Refreshes /\ v.key = VerifyingKey(cfg)
Known(v)    == home[v.session] = cfg.store
Current(v)  == Known(v) /\ live[v.session] = v.n

\* Spent, but within the grace window.
Replays(v)  == Known(v) /\ v.session \in recent /\ live[v.session] = v.n + 1

Redeems(v)  == Current(v) \/ (GraceWorks(cfg) /\ Replays(v))

Answer(endpoint, status, shown) ==
    /\ answer' = [to |-> endpoint, status |-> status, shown |-> shown,
                  due |-> holds # None /\ (Current(holds) \/ Replays(holds))]
    /\ UNCHANGED <<cfg, deploys>>

\* set_cookie() raises for a name that is no string, and for a SameSite, whatever
\* its case, that it does not know.
SameSites      == {"", "Lax", "None", "Strict"}
CookiesWork(c) == Wrong \notin {c.access, c.refresh, c.csrf} /\ c.samesite \in SameSites

\* clear_cookies(), which sets cookies too, and the response that carries them.
AnswerCleared(endpoint, status, shown) ==
    \/ /\ CookiesWork(cfg)
       /\ Answer(endpoint, status, shown)
       /\ ClearCookies
    \/ /\ ~CookiesWork(cfg)
       /\ Answer(endpoint, 500, None)
       /\ UNCHANGED jar

\* TokenObtainView: open_session(), then the cookies.
Login(s) ==
    /\ home[s] = None
    /\ \/ /\ ~(CanSign(cfg) /\ StoreBuilds(cfg))
          /\ Answer("login", 500, None)
          /\ UNCHANGED <<jar, home, live, holds>>
       \/ /\ CanSign(cfg) /\ StoreBuilds(cfg)
          /\ home' = [home EXCEPT ![s] = cfg.store]
          /\ live' = [live EXCEPT ![s] = 1]
          /\ IF CookiesWork(cfg)
                THEN /\ Answer("login", 200, None)
                     /\ SetCookies([session |-> s, n |-> 1, key |-> SigningKey(cfg)])
                     /\ holds' = [session |-> s, n |-> 1, key |-> SigningKey(cfg)]
                ELSE Answer("login", 500, None) /\ UNCHANGED <<jar, holds>>
    /\ out' = FALSE
    /\ UNCHANGED recent

\* read_refresh_credential() raises: nothing was presented, or not by our page.
NotPresented(endpoint, status) ==
    /\ Read(endpoint) = {}
    /\ Answer(endpoint, status, None)
    /\ UNCHANGED <<jar, home, live, recent, holds>>

NotProved(endpoint) ==
    /\ Read(endpoint) # {} /\ ~Proved
    /\ Answer(endpoint, 403, None)
    /\ UNCHANGED <<jar, home, live, recent, holds>>

Crash(endpoint) ==
    /\ Answer(endpoint, 500, None)
    /\ UNCHANGED <<jar, home, live, recent, holds>>

\* A token is turned away; a spent one burns its session.
Refused(v) ==
    live' = IF Verifies(v) /\ Known(v) THEN [live EXCEPT ![v.session] = 0] ELSE live

\* TokenRefreshView.  The answer may be lost, the page asks again.
Refresh(v) ==
    \/ /\ ~BackendBuilds(cfg) \/ (Verifies(v) /\ ~(CanSign(cfg) /\ StoreBuilds(cfg)))
       /\ Crash("refresh")
    \/ /\ CanSign(cfg) /\ StoreBuilds(cfg) /\ Verifies(v)
       /\ Redeems(v) /\ v.n < MaxRotations
       /\ LET w == [v EXCEPT !.n = @ + 1, !.key = SigningKey(cfg)]
          IN  /\ live' = [live EXCEPT ![v.session] = w.n]
              /\ \/ /\ CookiesWork(cfg)
                    /\ Answer("refresh", 200, None)
                    /\ SetCookies(w)
                    /\ holds' = w
                 \/ /\ Answer("refresh", IF CookiesWork(cfg) THEN 0 ELSE 500, None)
                    /\ UNCHANGED <<jar, holds>>
       /\ recent' = recent \cup {v.session}
       /\ UNCHANGED home
    \/ /\ BackendBuilds(cfg)
       /\ Verifies(v) => CanSign(cfg) /\ StoreBuilds(cfg) /\ ~Redeems(v)
       /\ Refused(v)
       /\ AnswerCleared("refresh", 401, v)
       /\ UNCHANGED <<home, recent, holds>>

\* LogoutView: whatever became of the token, its cookies are cleared.
Logout(v) ==
    \/ /\ ~BackendBuilds(cfg) \/ (Verifies(v) /\ ~StoreBuilds(cfg))
       /\ Crash("logout")
    \/ /\ BackendBuilds(cfg) /\ (Verifies(v) => StoreBuilds(cfg))
       /\ Refused(v)
       /\ AnswerCleared("logout", 200, None)
       /\ UNCHANGED <<home, recent, holds>>

\* LogoutAllView: every session of the user is one of this browser's.
LogoutAll(v) ==
    \/ /\ ~BackendBuilds(cfg) \/ (Verifies(v) /\ ~StoreBuilds(cfg))
       /\ Crash("logout-all")
    \/ /\ BackendBuilds(cfg) /\ StoreBuilds(cfg) /\ Verifies(v) /\ ~CanRevokeAll(cfg)
       /\ Answer("logout-all", 501, None)
       /\ UNCHANGED <<jar, home, live, recent, holds>>
    \/ /\ BackendBuilds(cfg) /\ CanRevokeAll(cfg) /\ Verifies(v)
       /\ Redeems(v)
       /\ live' = [s \in Sessions |-> IF home[s] = cfg.store THEN 0 ELSE live[s]]
       /\ AnswerCleared("logout-all", 200, None)
       /\ UNCHANGED <<home, recent, holds>>
    \/ /\ BackendBuilds(cfg)
       /\ Verifies(v) => CanRevokeAll(cfg) /\ ~Redeems(v)
       /\ Refused(v)
       /\ AnswerCleared("logout-all", 401, v)
       /\ UNCHANGED <<home, recent, holds>>

Request ==
    \/ /\ \/ NotPresented("refresh", 401) \/ NotProved("refresh")
          \/ Proved /\ \E v \in Read("refresh") : Refresh(v)
       /\ UNCHANGED out
    \/ /\ \/ NotPresented("logout", 200) \/ NotProved("logout")
          \/ Proved /\ \E v \in Read("logout") : Logout(v)
       /\ out' = (out \/ answer'.status = 200)
    \/ /\ \/ NotPresented("logout-all", 401) \/ NotProved("logout-all")
          \/ Proved /\ \E v \in Read("logout-all") : LogoutAll(v)
       /\ out' = (out \/ answer'.status = 200)

\* The grace window of a rotation ends.
Elapse ==
    /\ recent # {}
    /\ recent' = {}
    /\ answer' = Silence
    /\ UNCHANGED <<cfg, deploys, jar, home, live, holds, out>>

\* Another configuration is deployed, which takes longer than the grace window.
Deploy(c) ==
    /\ deploys < MaxDeploys
    /\ cfg' = c
    /\ deploys' = deploys + 1
    /\ answer' = Silence
    /\ holds' = None
    /\ out' = FALSE
    /\ recent' = {}
    /\ UNCHANGED <<jar, home, live>>

Next ==
    \/ \E s \in Sessions : Login(s)
    \/ Request
    \/ Elapse
    \/ \E c \in Successors(cfg) : Deploy(c)

Spec == Init /\ [][Next]_vars

-----------------------------------------------------------------------------

\* A cookie where this deployment puts, and clears, the one of its name; and a
\* browser that holds none of an earlier deployment under a name still in use.
InPlace(k) == k \in Replaced(Headers(Cookies(cfg, None, None, None)))
Tidy == \A k \in jar :
           k.name \in {AccessName(cfg), RefreshName(cfg), CsrfName(cfg)} => InPlace(k)

\* What the checks do not look at: a SameSite that set_cookie() knows, an
\* algorithm get_backend() knows, the two keys of an RSA pair, a prefix under
\* which an insecure cookie would be dropped, two cookies under one name, and a
\* mount point that is a directory.
WellFormed(c) ==
    /\ c.samesite \in SameSites
    /\ c.algorithm \in HMAC \cup RSA \cup {Wrong}
    /\ c.algorithm \in RSA /\ None \notin {c.signing, c.verifying}
          => c.signing = c.verifying
    /\ c.prefix # "" => c.secure
    /\ RefreshName(c) # CsrfName(c)
    /\ c.mount # <<>> /\ c.mount[1] = "/" /\ Last(c.mount) = "/"

\* When the checks have nothing to say, no endpoint fails, and a browser that was
\* signed in since the configuration was deployed is served: its cookies are
\* kept, reach the endpoints, name a token that verifies and redeem it, a retry
\* of a refresh whose answer was lost included.
SilenceMeansServed ==
    Messages(cfg) = {} =>
        /\ answer.status < 500
        /\ Tidy /\ cfg.grace # None /\ answer.due => answer.status \in {0, 200}

\* With no more than warnings (but of a SameSite the browser refuses), a logout
\* answered "Signed out." has ended the session of the browser that asked.
LogoutReachesTheSession ==
    /\ Errors(cfg) = {} /\ "W012" \notin Messages(cfg) /\ Tidy
    /\ answer.to \in {"logout", "logout-all"} /\ answer.status = 200 /\ answer.due
    => live[holds.session] = 0

\* Whatever is deployed over something marks its cookies Secure: a browser does
\* not let a response without Secure expire a cookie of a prefixed name.
StaysSecure == \A c \in Configurations : \A d \in Successors(c) : d.secure

CookiePaths == {<<"/">>} \cup {CookiePath(c, c.path) : c \in Configurations}

\* No cookie is sent to one of the endpoints that read it and not to another.
EvenHanded ==
    \A p \in CookiePaths, m \in {c.mount : c \in Configurations} :
        \A e \in RefreshEndpoints :
            Matches(p, Append(m, e)) <=> Matches(p, Append(m, "refresh"))

\* A refresh cookie that was refused is not presented again, unless it is one
\* that an earlier deployment put elsewhere.
LoopBroken == answer.shown # None => \A k \in jar : k.val = answer.shown => ~InPlace(k)

\* After a logout no cookie the browser still holds, an earlier deployment's
\* included, is served before the next login: its page can prove nothing, unless
\* a CSRF cookie of that name is left where this deployment does not clear it.
SignedOutAnswersNothing ==
    /\ out /\ answer.to = "refresh"
    /\ \A k \in jar : k.name = CsrfName(cfg) => InPlace(k)
    => answer.status # 200

\* "An invalid credential our own page sent is cleared".
RefusedIsCleared == answer.shown # None => \A k \in jar : k.val # answer.shown
=============================================================================
