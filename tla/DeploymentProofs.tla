-------------------------- MODULE DeploymentProofs --------------------------
(***************************************************************************)
(* What a deployment of the cookie realm promises, for every set of        *)
(* configurations and every number of sessions, refreshes and changes of   *)
(* configuration.                                                          *)
(***************************************************************************)
EXTENDS Deployment, FiniteSetTheorems, SequenceTheorems, TLAPS

-----------------------------------------------------------------------------
(* The cookies of a configuration.                                         *)

\* Two cookies that a browser keeps in one place.
SamePlace(j, k) == j.name = k.name /\ j.path = k.path /\ j.domain = k.domain

AccessCookie(c, v) ==
    [name |-> AccessName(c), path |-> <<"/">>, domain |-> c.domain, val |-> v]
RefreshCookie(c, v) ==
    [name |-> RefreshName(c), path |-> CookiePath(c, c.path),
     domain |-> c.domain, val |-> v]
CsrfCookie(c, v) ==
    [name |-> CsrfName(c), path |-> <<"/">>, domain |-> c.domain, val |-> v]

\* Of three cookies, those that no later one takes the name of.
LEMMA HeadersOfThree ==
    ASSUME NEW x, NEW y, NEW z
    PROVE  \A h : h \in Headers(<<x, y, z>>) <=>
              \/ h = x /\ x.name # y.name /\ x.name # z.name
              \/ h = y /\ y.name # z.name
              \/ h = z
<1> DEFINE s == <<x, y, z>>
<1>1. DOMAIN s = {1, 2, 3} /\ s[1] = x /\ s[2] = y /\ s[3] = z
  OBVIOUS
<1> HIDE DEF s
<1>2. ASSUME NEW h
      PROVE  h \in Headers(s) <=>
                \/ h = x /\ x.name # y.name /\ x.name # z.name
                \/ h = y /\ y.name # z.name
                \/ h = z
  BY <1>1 DEF Headers
<1> QED
  BY <1>2 DEF s

LEMMA CookiesAre ==
    ASSUME NEW c, NEW a, NEW r, NEW x
    PROVE  \A h : h \in Headers(Cookies(c, a, r, x)) <=>
              \/ /\ h = AccessCookie(c, a)
                 /\ AccessName(c) # RefreshName(c) /\ AccessName(c) # CsrfName(c)
              \/ h = RefreshCookie(c, r) /\ RefreshName(c) # CsrfName(c)
              \/ h = CsrfCookie(c, x)
BY HeadersOfThree DEF Cookies, AccessCookie, RefreshCookie, CsrfCookie

\* What attach() sets and what clear() expires are in the same places.
LEMMA SetAndCleared ==
    ASSUME NEW c, NEW a, NEW r, NEW x, NEW b, NEW q, NEW y,
           NEW h \in Headers(Cookies(c, a, r, x))
    PROVE  \E g \in Headers(Cookies(c, b, q, y)) : SamePlace(g, h)
<1>1. CASE /\ h = AccessCookie(c, a)
           /\ AccessName(c) # RefreshName(c) /\ AccessName(c) # CsrfName(c)
  <2>1. AccessCookie(c, b) \in Headers(Cookies(c, b, q, y))
    BY <1>1, CookiesAre
  <2> QED
    BY <1>1, <2>1 DEF AccessCookie, SamePlace
<1>2. CASE h = RefreshCookie(c, r) /\ RefreshName(c) # CsrfName(c)
  <2>1. RefreshCookie(c, q) \in Headers(Cookies(c, b, q, y))
    BY <1>2, CookiesAre
  <2> QED
    BY <1>2, <2>1 DEF RefreshCookie, SamePlace
<1>3. CASE h = CsrfCookie(c, x)
  <2>1. CsrfCookie(c, y) \in Headers(Cookies(c, b, q, y))
    BY CookiesAre
  <2> QED
    BY <1>3, <2>1 DEF CsrfCookie, SamePlace
<1> QED
  BY <1>1, <1>2, <1>3, CookiesAre

\* A browser judges a cookie by its place.
LEMMA KeepsPlaces ==
    ASSUME NEW c, NEW g, NEW h, SamePlace(g, h), Keeps(c, g)
    PROVE  Keeps(c, h)
BY DEF Keeps, SamePlace

-----------------------------------------------------------------------------
(* Types.                                                                  *)

LEMMA NamesTyped ==
    ASSUME NEW c \in Configurations, CookiesWork(c)
    PROVE  AccessName(c) \in Names /\ RefreshName(c) \in Names /\ CsrfName(c) \in Names
<1> DEFINE D(base, root) == ResolvedName(c, base, root)
<1>1. /\ c.access \in {None, Wrong} \cup Names
      /\ c.refresh \in {None, Wrong} \cup Names
      /\ c.csrf \in {None, Wrong} \cup Names
      /\ c.prefix \in CookiePrefixes
  BY ConfigurationAssumption
<1>2. D("access", TRUE) \in Names /\ D("refresh", FALSE) \in Names
      /\ D("csrf", TRUE) \in Names
  BY <1>1, StringsAssumption DEF ResolvedName, Names, CookiePrefixes
<1> HIDE DEF D
<1>3. /\ AccessName(c) = IF c.access = None THEN D("access", TRUE) ELSE c.access
      /\ RefreshName(c) = IF c.refresh = None THEN D("refresh", FALSE) ELSE c.refresh
      /\ CsrfName(c) = IF c.csrf = None THEN D("csrf", TRUE) ELSE c.csrf
  BY DEF AccessName, RefreshName, CsrfName, Explicit, D
<1> QED
  BY <1>1, <1>2, <1>3 DEF CookiesWork

\* What a browser puts in its jar is named, and holds what it was sent.
LEMMA KeptTyped ==
    ASSUME NEW c \in Configurations, CookiesWork(c), NEW r \in Refreshes,
           NEW h \in Kept(c, Cookies(c, Access, r, Csrf))
    PROVE  h.name \in Names /\ h.val \in Refreshes \cup {Access, Csrf}
BY NamesTyped, CookiesAre DEF Kept, AccessCookie, RefreshCookie, CsrfCookie

LEMMA KeptApart ==
    ASSUME NEW c, NEW a, NEW r, NEW x,
           NEW g \in Kept(c, Cookies(c, a, r, x)),
           NEW h \in Kept(c, Cookies(c, a, r, x)),
           g.name = h.name
    PROVE  g = h
BY CookiesAre DEF Kept, AccessCookie, RefreshCookie, CsrfCookie

SigningKeyTyped == \A c \in Configurations : SigningKey(c) \in Strings

LEMMA KeysTyped == SigningKeyTyped
<1> SUFFICES ASSUME NEW c \in Configurations PROVE SigningKey(c) \in Strings
  BY DEF SigningKeyTyped
<1>1. c.signing \in {None} \cup Strings
  BY ConfigurationAssumption
<1> QED
  BY <1>1, StringsAssumption DEF SigningKey

\* What there is of the jar after a set or a clear.
JarTyped ==
    /\ \A k \in jar : k.name \in Names /\ k.val \in Refreshes \cup {Access, Csrf}
    /\ \A j, k \in jar : SamePlace(j, k) => j = k

LEMMA SetTyped ==
    ASSUME cfg \in Configurations, CookiesWork(cfg), JarTyped, NEW r \in Refreshes,
           SetCookies(r)
    PROVE  JarTyped'
<1> DEFINE kept == Kept(cfg, Cookies(cfg, Access, r, Csrf))
<1>1. jar' = (jar \ Replaced(kept)) \cup kept
  BY DEF SetCookies
<1>2. \A h \in kept : h.name \in Names /\ h.val \in Refreshes \cup {Access, Csrf}
  BY KeptTyped
<1>3. \A g, h \in kept : g.name = h.name => g = h
  BY KeptApart
<1> HIDE DEF kept
<1>4. \A k \in jar \ Replaced(kept) : \A h \in kept : ~SamePlace(k, h)
  BY DEF Replaced, SamePlace
<1> QED
  BY <1>1, <1>2, <1>3, <1>4 DEF JarTyped, SamePlace

LEMMA ClearTyped ==
    ASSUME JarTyped, ClearCookies PROVE JarTyped'
BY DEF ClearCookies, JarTyped, Replaced, SamePlace

\* What a step leaves typed, whichever request it answers.
Served ==
    /\ UNCHANGED <<cfg, deploys>>
    /\ JarTyped'
    /\ home' \in [Sessions -> Stores \cup {None}]
    /\ live' \in [Sessions -> 0 .. MaxRotations]
    /\ recent' \in SUBSET Sessions
    /\ answer' \in Answers
    /\ holds' \in Refreshes \cup {None}

Endpoints == {"login", "refresh", "logout", "logout-all"}

LEMMA AnswerTyped ==
    ASSUME NEW e \in Endpoints, NEW st \in {0, 200, 401, 403, 500, 501},
           NEW sh \in Refreshes \cup {Access, Csrf, None}, Answer(e, st, sh)
    PROVE  answer' \in Answers /\ UNCHANGED <<cfg, deploys>>
BY DEF Answer, Answers, Endpoints, Current, Known, Replays

\* An endpoint that changes nothing types nothing anew.
LEMMA FailureTyped ==
    ASSUME TypeOK, NEW e \in RefreshEndpoints,
           NotPresented(e, 401) \/ NotPresented(e, 200) \/ NotProved(e) \/ Crash(e)
    PROVE  Served
<1>1. e \in Endpoints
  BY DEF RefreshEndpoints, Endpoints
<1>2. UNCHANGED <<jar, home, live, recent, holds>>
  BY DEF NotPresented, NotProved, Crash
<1>3. answer' \in Answers /\ UNCHANGED <<cfg, deploys>>
  BY <1>1, AnswerTyped DEF NotPresented, NotProved, Crash
<1> QED
  BY <1>2, <1>3 DEF Served, TypeOK, JarTyped, SamePlace

LEMMA LoginTyped ==
    ASSUME TypeOK, NEW s \in Sessions, Login(s) PROVE Served /\ out' = FALSE
<1> JarTyped /\ cfg \in Configurations /\ MaxRotations \in Nat \ {0}
  BY BoundAssumption DEF TypeOK, JarTyped, SamePlace
<1> DEFINE n == [session |-> s, n |-> 1, key |-> SigningKey(cfg)]
<1>1. n \in Refreshes
  BY KeysTyped DEF SigningKeyTyped, Refreshes
<1>2. answer' \in Answers /\ UNCHANGED <<cfg, deploys>>
  BY AnswerTyped DEF Login, Endpoints
<1>3. CASE UNCHANGED <<jar, home, live, holds>>
  BY <1>2, <1>3 DEF Login, Served, TypeOK, JarTyped, SamePlace
<1>4. CASE CanSign(cfg) /\ StoreBuilds(cfg) /\ home' = [home EXCEPT ![s] = cfg.store]
           /\ live' = [live EXCEPT ![s] = 1]
           /\ \/ CookiesWork(cfg) /\ SetCookies(n) /\ holds' = n
              \/ UNCHANGED <<jar, holds>>
  <2>1. cfg.store \in Stores
    BY <1>4, ConfigurationAssumption DEF StoreBuilds
  <2>2. home' \in [Sessions -> Stores \cup {None}]
        /\ live' \in [Sessions -> 0 .. MaxRotations]
    BY <1>4, <2>1 DEF TypeOK
  <2>3. JarTyped' /\ holds' \in Refreshes \cup {None}
    <3>1. CASE CookiesWork(cfg) /\ SetCookies(n) /\ holds' = n
      BY <1>1, <3>1, SetTyped
    <3>2. CASE UNCHANGED <<jar, holds>>
      BY <3>2 DEF TypeOK, JarTyped, SamePlace
    <3> QED
      BY <1>4, <3>1, <3>2
  <2> QED
    BY <1>2, <2>2, <2>3 DEF Login, Served, TypeOK
<1> QED
  BY <1>3, <1>4 DEF Login

\* Only what verifies is looked up, and only a lookup revokes.
LEMMA RefusedTyped ==
    ASSUME TypeOK, NEW v, Refused(v)
    PROVE  /\ live' \in [Sessions -> 0 .. MaxRotations]
           /\ \A s \in Sessions : live'[s] \in {0, live[s]}
<1>1. MaxRotations \in Nat
  BY BoundAssumption
<1>2. CASE live' = live
  BY <1>2 DEF TypeOK
<1>3. CASE v \in Refreshes /\ live' = [live EXCEPT ![v.session] = 0]
  BY <1>1, <1>3 DEF TypeOK, Refreshes
<1> QED
  BY <1>2, <1>3 DEF Refused, Verifies

LEMMA ReadTyped ==
    ASSUME TypeOK, NEW e, NEW v \in Read(e)
    PROVE  v \in Refreshes \cup {Access, Csrf}
BY DEF TypeOK, Read, Sent

\* A refusal, or a sign-out, types nothing anew but the jar it clears.
LEMMA ClearedTyped ==
    ASSUME TypeOK, NEW e \in RefreshEndpoints, NEW st \in {200, 401},
           NEW sh \in Refreshes \cup {Access, Csrf, None},
           AnswerCleared(e, st, sh), UNCHANGED <<home, recent, holds>>,
           live' \in [Sessions -> 0 .. MaxRotations]
    PROVE  Served
<1>1. e \in Endpoints
  BY DEF RefreshEndpoints, Endpoints
<1>2. answer' \in Answers /\ UNCHANGED <<cfg, deploys>>
  BY <1>1, AnswerTyped DEF AnswerCleared
<1>3. JarTyped'
  BY ClearTyped DEF AnswerCleared, TypeOK, JarTyped, SamePlace
<1> QED
  BY <1>2, <1>3 DEF Served, TypeOK

\* The token that takes the place of v.
Successor(v) == [v EXCEPT !.n = @ + 1, !.key = SigningKey(cfg)]

LEMMA SuccessorTyped ==
    ASSUME TypeOK, NEW v \in Refreshes, v.n < MaxRotations
    PROVE  /\ Successor(v) \in Refreshes
           /\ Successor(v).session = v.session /\ Successor(v).n = v.n + 1
           /\ Successor(v).key = SigningKey(cfg)
<1>1. SigningKey(cfg) \in Strings /\ MaxRotations \in Nat
  BY KeysTyped, BoundAssumption DEF SigningKeyTyped, TypeOK
<1>2. v.n + 1 \in 1 .. MaxRotations
  BY <1>1 DEF Refreshes
<1> QED
  BY <1>1, <1>2 DEF Successor, Refreshes

\* How a refresh ends: it fails, it rotates or it is refused.
LEMMA RefreshCases ==
    ASSUME NEW v, Refresh(v)
    PROVE  \/ /\ Crash("refresh")
              /\ ~BackendBuilds(cfg) \/ ~CanSign(cfg) \/ ~StoreBuilds(cfg)
           \/ /\ Verifies(v) /\ Redeems(v) /\ v.n < MaxRotations
              /\ CanSign(cfg) /\ StoreBuilds(cfg)
              /\ live' = [live EXCEPT ![v.session] = Successor(v).n]
              /\ recent' = recent \cup {v.session}
              /\ home' = home
              /\ \/ /\ CookiesWork(cfg) /\ Answer("refresh", 200, None)
                    /\ SetCookies(Successor(v)) /\ holds' = Successor(v)
                 \/ /\ Answer("refresh", 0, None) \/ Answer("refresh", 500, None)
                    /\ CookiesWork(cfg) => Answer("refresh", 0, None)
                    /\ UNCHANGED <<jar, holds>>
           \/ /\ Verifies(v) => CanSign(cfg) /\ StoreBuilds(cfg) /\ ~Redeems(v)
              /\ Refused(v) /\ AnswerCleared("refresh", 401, v)
              /\ UNCHANGED <<home, recent, holds>>
BY DEF Refresh, Successor

LEMMA RefreshTyped ==
    ASSUME TypeOK, NEW v \in Read("refresh"), Refresh(v) PROVE Served
<1> JarTyped /\ cfg \in Configurations /\ MaxRotations \in Nat \ {0}
  BY BoundAssumption DEF TypeOK, JarTyped, SamePlace
<1> DEFINE e == "refresh"
<1>1. CASE Crash(e)
  BY <1>1, FailureTyped DEF RefreshEndpoints
<1>2. CASE /\ Verifies(v) /\ v.n < MaxRotations
           /\ live' = [live EXCEPT ![v.session] = Successor(v).n]
           /\ recent' = recent \cup {v.session}
           /\ home' = home
           /\ \/ /\ CookiesWork(cfg) /\ Answer(e, 200, None)
                 /\ SetCookies(Successor(v)) /\ holds' = Successor(v)
              \/ /\ Answer(e, 0, None) \/ Answer(e, 500, None)
                 /\ UNCHANGED <<jar, holds>>
  <2>1. v \in Refreshes /\ v.session \in Sessions
    BY <1>2 DEF Verifies, Refreshes
  <2>2. Successor(v) \in Refreshes /\ Successor(v).n \in 0 .. MaxRotations
    BY <1>2, <2>1, SuccessorTyped DEF Refreshes
  <2>3. answer' \in Answers /\ UNCHANGED <<cfg, deploys>>
    BY <1>2, AnswerTyped DEF Endpoints
  <2>4. JarTyped' /\ holds' \in Refreshes \cup {None}
    <3>1. CASE CookiesWork(cfg) /\ SetCookies(Successor(v)) /\ holds' = Successor(v)
      BY <2>2, <3>1, SetTyped
    <3>2. CASE UNCHANGED <<jar, holds>>
      BY <3>2 DEF TypeOK, JarTyped, SamePlace
    <3> QED
      BY <1>2, <3>1, <3>2
  <2>5. live' \in [Sessions -> 0 .. MaxRotations]
    BY <1>2, <2>1, <2>2 DEF TypeOK
  <2> QED
    BY <1>2, <2>1, <2>3, <2>4, <2>5 DEF Served, TypeOK
<1>3. CASE /\ Refused(v) /\ AnswerCleared(e, 401, v)
           /\ UNCHANGED <<home, recent, holds>>
  BY <1>3, ClearedTyped, RefusedTyped, ReadTyped DEF RefreshEndpoints
<1> QED
  BY <1>1, <1>2, <1>3, RefreshCases

LEMMA LogoutTyped ==
    ASSUME TypeOK, NEW v \in Read("logout"), Logout(v) PROVE Served
<1>1. CASE Crash("logout")
  BY <1>1, FailureTyped DEF RefreshEndpoints
<1>2. CASE /\ Refused(v) /\ AnswerCleared("logout", 200, None)
           /\ UNCHANGED <<home, recent, holds>>
  BY <1>2, ClearedTyped, RefusedTyped DEF RefreshEndpoints
<1> QED
  BY <1>1, <1>2 DEF Logout

LEMMA LogoutAllTyped ==
    ASSUME TypeOK, NEW v \in Read("logout-all"), LogoutAll(v) PROVE Served
<1> DEFINE e == "logout-all"
<1>1. CASE Crash(e)
  BY <1>1, FailureTyped DEF RefreshEndpoints
<1>2. CASE Answer(e, 501, None) /\ UNCHANGED <<jar, home, live, recent, holds>>
  <2>1. answer' \in Answers /\ UNCHANGED <<cfg, deploys>>
    BY <1>2, AnswerTyped DEF Endpoints
  <2> QED
    BY <1>2, <2>1 DEF Served, TypeOK, JarTyped, SamePlace
<1>3. CASE /\ live' = [s \in Sessions |-> IF home[s] = cfg.store THEN 0 ELSE live[s]]
           /\ AnswerCleared(e, 200, None)
           /\ UNCHANGED <<home, recent, holds>>
  <2>1. live' \in [Sessions -> 0 .. MaxRotations]
    BY <1>3, BoundAssumption DEF TypeOK
  <2> QED
    BY <1>3, <2>1, ClearedTyped DEF RefreshEndpoints
<1>4. CASE /\ Refused(v) /\ AnswerCleared(e, 401, v)
           /\ UNCHANGED <<home, recent, holds>>
  BY <1>4, ClearedTyped, RefusedTyped, ReadTyped DEF RefreshEndpoints
<1> QED
  BY <1>1, <1>2, <1>3, <1>4 DEF LogoutAll

LEMMA TypesNext == TypeOK /\ [Next]_vars => TypeOK'
<1> SUFFICES ASSUME TypeOK, [Next]_vars PROVE TypeOK'
  OBVIOUS
<1>1. ASSUME Served, out' \in BOOLEAN PROVE TypeOK'
  BY <1>1 DEF Served, TypeOK, JarTyped, SamePlace
<1>2. CASE UNCHANGED vars
  BY <1>2 DEF vars, TypeOK
<1>3. CASE \E s \in Sessions : Login(s)
  BY <1>1, <1>3, LoginTyped
<1>4. CASE Request
  <2>1. Served
    BY <1>4, FailureTyped, RefreshTyped, LogoutTyped, LogoutAllTyped
       DEF Request, RefreshEndpoints
  <2>2. out' \in BOOLEAN
    BY <1>4 DEF Request, TypeOK
  <2> QED
    BY <1>1, <2>1, <2>2
<1>5. CASE Elapse
  BY <1>5 DEF Elapse, TypeOK, Silence, Answers
<1>6. CASE \E c \in Successors(cfg) : Deploy(c)
  <2>1. PICK c \in Successors(cfg) : Deploy(c)
    BY <1>6
  <2>2. c \in Configurations
    BY ConfigurationAssumption DEF TypeOK
  <2>3. deploys' \in 1 .. MaxDeploys
    BY <2>1, BoundAssumption DEF Deploy, TypeOK
  <2> QED
    BY <2>1, <2>2, <2>3 DEF Deploy, TypeOK, Silence, Answers
<1> QED
  BY <1>2, <1>3, <1>4, <1>5, <1>6 DEF Next

LEMMA TypesInit == Init => TypeOK
<1> SUFFICES ASSUME Init PROVE TypeOK
  OBVIOUS
<1>1. answer \in Answers
  BY DEF Init, Silence, Answers
<1>2. live \in [Sessions -> 0 .. MaxRotations] /\ deploys \in 1 .. MaxDeploys
  BY BoundAssumption DEF Init
<1>3. home \in [Sessions -> Stores \cup {None}]
  BY DEF Init
<1> QED
  BY <1>1, <1>2, <1>3 DEF Init, TypeOK

\* Every variable keeps its type, and a browser holds one cookie of a name, path
\* and domain, whatever is deployed over what.
THEOREM DeploymentTyped == Spec => []TypeOK
BY TypesInit, TypesNext, PTL DEF Spec

-----------------------------------------------------------------------------
(* What is in the jar, and what a clear leaves there.                      *)

\* k is where this deployment puts, and clears, a cookie of its.
PlaceOf(k) ==
    \E h \in Headers(Cookies(cfg, None, None, None)) : SamePlace(k, h)

LEMMA InPlaceIs == \A k : InPlace(k) <=> k \in jar /\ PlaceOf(k)
BY DEF InPlace, Replaced, PlaceOf, SamePlace

\* What is in the jar the browser keeps under today's configuration too, as far
\* as it can be cleared.
JarKept ==
    \A k \in jar :
        /\ k.path \in CookiePaths
        /\ k.name.pre = "__Host-" => k.path = <<"/">> /\ ~k.domain
        /\ cfg.secure \/ (k.name.pre = "" /\ cfg.samesite # "None")

\* How a step changes the jar.
LEMMA JarSteps ==
    ASSUME Next
    PROVE  \/ UNCHANGED <<cfg, jar>>
           \/ UNCHANGED cfg /\ \E r : SetCookies(r)
           \/ UNCHANGED cfg /\ ClearCookies
           \/ (\E c \in Successors(cfg) : cfg' = c) /\ UNCHANGED jar
<1> USE DEF Answer, AnswerCleared
<1>1. CASE \E s \in Sessions : Login(s)
  BY <1>1 DEF Login
<1>2. ASSUME NEW e, NEW st, NotPresented(e, st) \/ NotProved(e) \/ Crash(e)
      PROVE  UNCHANGED <<cfg, jar>>
  BY <1>2 DEF NotPresented, NotProved, Crash
<1>3. ASSUME NEW v, Refresh(v)
      PROVE  UNCHANGED cfg
             /\ (UNCHANGED jar \/ ClearCookies \/ \E r : SetCookies(r))
  BY <1>2, <1>3 DEF Refresh
<1>4. ASSUME NEW v, Logout(v) \/ LogoutAll(v)
      PROVE  UNCHANGED cfg /\ (UNCHANGED jar \/ ClearCookies)
  BY <1>2, <1>4 DEF Logout, LogoutAll
<1>5. CASE Request
  BY <1>2, <1>3, <1>4, <1>5 DEF Request
<1>6. CASE Elapse
  BY <1>6 DEF Elapse
<1>7. CASE \E c \in Successors(cfg) : Deploy(c)
  BY <1>7 DEF Deploy
<1> QED
  BY <1>1, <1>5, <1>6, <1>7 DEF Next

LEMMA JarKeptNext ==
    ASSUME StaysSecure, TypeOK, JarKept, [Next]_vars PROVE JarKept'
<1>1. CASE UNCHANGED vars
  BY <1>1 DEF vars, JarKept
<1>2. CASE UNCHANGED <<cfg, jar>>
  BY <1>2 DEF JarKept
<1>3. ASSUME NEW r, UNCHANGED cfg, SetCookies(r) PROVE JarKept'
  <2> DEFINE kept == Kept(cfg, Cookies(cfg, Access, r, Csrf))
  <2>1. jar' \subseteq jar \cup kept
    BY <1>3 DEF SetCookies
  <2>2. ASSUME NEW h \in kept
        PROVE  /\ h.path \in CookiePaths /\ h.domain = cfg.domain /\ Keeps(cfg, h)
    <3>1. h \in Headers(Cookies(cfg, Access, r, Csrf)) /\ Keeps(cfg, h)
      BY <2>2 DEF Kept
    <3>2. /\ h.path \in {<<"/">>, CookiePath(cfg, cfg.path)}
          /\ h.domain = cfg.domain
      BY <3>1, CookiesAre DEF AccessCookie, RefreshCookie, CsrfCookie
    <3> QED
      BY <3>1, <3>2 DEF CookiePaths, TypeOK
  <2> HIDE DEF kept
  <2>3. \A h \in kept : cfg.secure \/ (h.name.pre = "" /\ cfg.samesite # "None")
    BY <2>2 DEF Keeps
  <2>4. \A h \in kept : h.name.pre = "__Host-" => h.path = <<"/">> /\ ~h.domain
    BY <2>2 DEF Keeps
  <2> QED
    BY <1>3, <2>1, <2>2, <2>3, <2>4 DEF JarKept
<1>4. CASE UNCHANGED cfg /\ ClearCookies
  BY <1>4 DEF ClearCookies, JarKept
<1>5. CASE (\E c \in Successors(cfg) : cfg' = c) /\ UNCHANGED jar
  <2>1. cfg'.secure
    BY <1>5 DEF StaysSecure, TypeOK
  <2> QED
    BY <1>5, <2>1 DEF JarKept
<1> QED
  BY <1>1, <1>2, <1>3, <1>4, <1>5, JarSteps

\* A browser takes the clear of a cookie in place.
LEMMA ClearIsKept ==
    ASSUME JarKept, NEW k \in jar, PlaceOf(k)
    PROVE  k \in Replaced(Kept(cfg, Cookies(cfg, None, None, None)))
<1>1. PICK h \in Headers(Cookies(cfg, None, None, None)) : SamePlace(k, h)
  BY DEF PlaceOf
<1>2. h.domain = cfg.domain
  BY CookiesAre DEF AccessCookie, RefreshCookie, CsrfCookie
<1>3. Keeps(cfg, h)
  BY <1>1, <1>2 DEF JarKept, Keeps, SamePlace
<1> QED
  BY <1>1, <1>3 DEF Kept, Replaced, SamePlace

\* clear() takes everything in place and nothing else.
LEMMA ClearTakesPlaces ==
    ASSUME JarKept, ClearCookies, UNCHANGED cfg
    PROVE  /\ \A k : ~InPlace(k)'
           /\ \A k \in jar : ~InPlace(k) <=> k \in jar'
           /\ jar' \subseteq jar
<1>1. jar' = jar \ Replaced(Kept(cfg, Cookies(cfg, None, None, None)))
  BY DEF ClearCookies
<1>2. \A k : PlaceOf(k)' <=> PlaceOf(k)
  BY DEF PlaceOf
<1>3. \A k \in jar : PlaceOf(k) <=>
         k \in Replaced(Kept(cfg, Cookies(cfg, None, None, None)))
  BY ClearIsKept DEF Replaced, Kept, PlaceOf, SamePlace
<1>4. \A k : InPlace(k)' <=> k \in jar' /\ PlaceOf(k)'
  BY DEF InPlace, Replaced, PlaceOf, SamePlace
<1> QED
  BY <1>1, <1>2, <1>3, <1>4, InPlaceIs

\* attach() leaves alone what is elsewhere.
LEMMA SetLeavesOthers ==
    ASSUME NEW r, SetCookies(r), UNCHANGED cfg, NEW k \in jar, ~InPlace(k)
    PROVE  k \in jar' /\ ~InPlace(k)'
<1> DEFINE kept == Kept(cfg, Cookies(cfg, Access, r, Csrf))
<1>1. jar' = (jar \ Replaced(kept)) \cup kept
  BY DEF SetCookies
<1>2. ~PlaceOf(k)
  BY InPlaceIs
<1>3. ASSUME NEW h \in kept PROVE ~SamePlace(k, h)
  <2>1. PICK g \in Headers(Cookies(cfg, None, None, None)) : SamePlace(g, h)
    BY <1>3, SetAndCleared DEF Kept
  <2> QED
    BY <1>2, <2>1 DEF PlaceOf, SamePlace
<1> HIDE DEF kept
<1>4. k \in jar'
  BY <1>1, <1>3 DEF Replaced, SamePlace
<1>5. ~InPlace(k)'
  BY <1>2 DEF InPlace, Replaced, PlaceOf, SamePlace
<1> QED
  BY <1>4, <1>5

-----------------------------------------------------------------------------
(* Refused once, refused for good.                                         *)

LEMMA ShownSteps ==
    ASSUME Next
    PROVE  answer'.shown = None \/ (UNCHANGED cfg /\ ClearCookies)
<1>1. \A e, st : Answer(e, st, None) => answer'.shown = None
  BY DEF Answer
<1>2. \A e, st, sh : Answer(e, st, sh) => UNCHANGED cfg
  BY DEF Answer
<1>3. CASE \E s \in Sessions : Login(s)
  BY <1>1, <1>3 DEF Login
<1>4. \A e, st : NotPresented(e, st) \/ NotProved(e) \/ Crash(e) => answer'.shown = None
  BY <1>1 DEF NotPresented, NotProved, Crash
<1>5. CASE Request
  <2>1. ASSUME NEW v, Refresh(v) \/ Logout(v) \/ LogoutAll(v)
        PROVE  answer'.shown = None \/ (UNCHANGED cfg /\ ClearCookies)
    BY <1>1, <1>2, <1>4, <2>1 DEF Refresh, Logout, LogoutAll, AnswerCleared
  <2> QED
    BY <1>4, <1>5, <2>1 DEF Request
<1>6. CASE Elapse \/ \E c \in Successors(cfg) : Deploy(c)
  BY <1>6 DEF Elapse, Deploy, Silence
<1> QED
  BY <1>3, <1>5, <1>6 DEF Next

LEMMA LoopNext ==
    ASSUME JarKept, LoopBroken, [Next]_vars PROVE LoopBroken'
<1>1. CASE UNCHANGED vars
  BY <1>1 DEF vars, LoopBroken, InPlace, Replaced
<1>2. CASE answer'.shown = None
  BY <1>2 DEF LoopBroken
<1>3. CASE UNCHANGED cfg /\ ClearCookies
  BY <1>3, ClearTakesPlaces DEF LoopBroken
<1> QED
  BY <1>1, <1>2, <1>3, ShownSteps

\* CookieTransport.clear() ends the loop of a refused cookie: whatever was
\* deployed over what, as long as its cookies are Secure, none that clear()
\* aims at is left.
THEOREM NoRefusedCookieInPlace == ASSUME StaysSecure PROVE Spec => []LoopBroken
<1>1. Init => TypeOK /\ JarKept /\ LoopBroken
  <2>1. Init => TypeOK
    BY TypesInit
  <2> QED
    BY <2>1 DEF Init, Silence, JarKept, LoopBroken
<1>2. TypeOK /\ JarKept /\ LoopBroken /\ [Next]_vars => (TypeOK /\ JarKept /\ LoopBroken)'
  BY TypesNext, JarKeptNext, LoopNext
<1> QED
  BY <1>1, <1>2, PTL DEF Spec

-----------------------------------------------------------------------------
(* Signed out.                                                             *)

\* Since the last logout, the page can prove nothing until it logs in: a CSRF
\* cookie is in the jar that is not in place, or none, or there is nothing to
\* prove.
OutKept ==
    out => \/ \E k \in jar : k.name = CsrfName(cfg) /\ ~InPlace(k)
           \/ \A k \in jar : k.name # CsrfName(cfg)
           \/ Read("refresh") = {}

LEMMA ProvedByCookie ==
    Proved => \E k \in jar : k.name = CsrfName(cfg)
<1>1. (\A k \in jar : k.name # CsrfName(cfg)) => {k \in jar : k.name = CsrfName(cfg)} = {}
  OBVIOUS
<1> QED
  BY <1>1, FS_EmptySet DEF Proved

\* A request is turned away, has its cookies cleared, or is a refresh that rotates.
LEMMA RequestCases ==
    ASSUME TypeOK, Request
    PROVE  \/ UNCHANGED <<cfg, jar, out>> /\ answer'.status # 200
           \/ /\ UNCHANGED <<cfg, jar>> /\ answer'.to = "logout"
              /\ Read("logout") = {}
           \/ UNCHANGED cfg /\ ClearCookies
              /\ (answer'.to = "refresh" => answer'.status # 200)
           \/ /\ UNCHANGED <<cfg, out>> /\ \E r : SetCookies(r)
              /\ Proved /\ Read("refresh") # {}
<1>1. \A e, st, sh : Answer(e, st, sh) =>
         UNCHANGED cfg /\ answer'.to = e /\ answer'.status = st
  BY DEF Answer
<1>0. out \in BOOLEAN
  BY DEF TypeOK
<1>2. CASE \/ /\ NotPresented("refresh", 401) \/ NotProved("refresh")
              /\ UNCHANGED out
           \/ /\ \/ NotProved("logout") \/ NotPresented("logout-all", 401)
                 \/ NotProved("logout-all")
              /\ out' = (out \/ answer'.status = 200)
  <2>1. UNCHANGED <<cfg, jar>> /\ answer'.status \in {401, 403}
    BY <1>1, <1>2 DEF NotPresented, NotProved
  <2>2. ~(answer'.status = 200)
    BY <2>1
  <2>3. out' = out
    BY <1>0, <1>2, <2>2
  <2> QED
    BY <2>1, <2>2, <2>3
<1>3. CASE NotPresented("logout", 200)
  BY <1>1, <1>3 DEF NotPresented
<1>4. CASE UNCHANGED out /\ Proved /\ \E v \in Read("refresh") : Refresh(v)
  BY <1>1, <1>4 DEF Refresh, Crash, AnswerCleared
<1>5. CASE out' = (out \/ answer'.status = 200) /\ \E v \in Read("logout") : Logout(v)
  <2>1. UNCHANGED cfg /\ answer'.to = "logout"
        /\ (ClearCookies \/ (UNCHANGED jar /\ answer'.status \in {500, 501}))
    BY <1>1, <1>5 DEF Logout, Crash, AnswerCleared
  <2>2. answer'.status \in {500, 501} => out' = out
    BY <1>0, <1>5
  <2> QED
    BY <2>1, <2>2
<1>6. CASE out' = (out \/ answer'.status = 200)
           /\ \E v \in Read("logout-all") : LogoutAll(v)
  <2>1. UNCHANGED cfg /\ answer'.to = "logout-all"
        /\ (ClearCookies \/ (UNCHANGED jar /\ answer'.status \in {500, 501}))
    BY <1>1, <1>6 DEF LogoutAll, Crash, AnswerCleared
  <2>2. answer'.status \in {500, 501} => out' = out
    BY <1>0, <1>6
  <2> QED
    BY <2>1, <2>2
<1> QED
  BY <1>2, <1>3, <1>4, <1>5, <1>6 DEF Request

\* What is read does not depend on the endpoint.
LEMMA ReadEverywhere ==
    ASSUME EvenHanded, TypeOK, JarKept, NEW e \in RefreshEndpoints
    PROVE  Read(e) = Read("refresh")
<1>1. \A k \in jar : Matches(k.path, Url(cfg, e)) <=> Matches(k.path, Url(cfg, "refresh"))
  BY DEF EvenHanded, TypeOK, JarKept, Url
<1>2. Sent(e) = Sent("refresh")
  BY <1>1 DEF Sent
<1> QED
  BY <1>2 DEF Read

LEMMA OutNext ==
    ASSUME EvenHanded, TypeOK, JarKept, OutKept, SignedOutAnswersNothing,
           [Next]_vars
    PROVE  (OutKept /\ SignedOutAnswersNothing)'
<1>1. ASSUME UNCHANGED <<cfg, jar, out>> PROVE OutKept'
  BY <1>1 DEF OutKept, InPlace, Replaced, Read, Sent
<1>2. ASSUME ~out' \/ answer'.to # "refresh" \/ answer'.status # 200
      PROVE  SignedOutAnswersNothing'
  BY <1>2 DEF SignedOutAnswersNothing
<1>3. CASE UNCHANGED vars
  BY <1>1, <1>3 DEF vars, SignedOutAnswersNothing, InPlace, Replaced
<1>4. CASE (\E s \in Sessions : Login(s)) \/ \E c \in Successors(cfg) : Deploy(c)
  <2>1. out' = FALSE
    BY <1>4 DEF Login, Deploy
  <2> QED
    BY <1>2, <2>1 DEF OutKept
<1>5. CASE Elapse
  <2>1. UNCHANGED <<cfg, jar, out>> /\ answer'.to = "nothing"
    BY <1>5 DEF Elapse, Silence
  <2> QED
    BY <1>1, <1>2, <2>1
<1>6. CASE UNCHANGED <<cfg, jar, out>> /\ answer'.status # 200
  BY <1>1, <1>2, <1>6
<1>7. CASE UNCHANGED <<cfg, jar>> /\ answer'.to = "logout" /\ Read("logout") = {}
  <2>1. Read("refresh") = {}
    BY <1>7, ReadEverywhere DEF RefreshEndpoints
  <2>2. Read("refresh")' = Read("refresh")
    BY <1>7 DEF Read, Sent
  <2> QED
    BY <1>2, <1>7, <2>1, <2>2 DEF OutKept
<1>8. CASE UNCHANGED cfg /\ ClearCookies
           /\ (answer'.to = "refresh" => answer'.status # 200)
  <2>1. CASE \E k \in jar : k.name = CsrfName(cfg) /\ ~InPlace(k)
    <3>1. PICK k \in jar : k.name = CsrfName(cfg) /\ ~InPlace(k)
      BY <2>1
    <3>2. k \in jar' /\ ~InPlace(k)'
      BY <1>8, <3>1, ClearTakesPlaces
    <3> QED
      BY <1>2, <1>8, <3>1, <3>2 DEF OutKept
  <2>2. CASE \A k \in jar : k.name = CsrfName(cfg) => InPlace(k)
    <3>1. \A k \in jar' : k.name # CsrfName(cfg)
      BY <1>8, <2>2, ClearTakesPlaces
    <3> QED
      BY <1>2, <1>8, <3>1 DEF OutKept
  <2> QED
    BY <2>1, <2>2
<1>9. CASE /\ UNCHANGED <<cfg, out>> /\ \E r : SetCookies(r)
           /\ Proved /\ Read("refresh") # {}
  <2>1. CASE ~out
    BY <1>2, <1>9, <2>1 DEF OutKept
  <2>2. CASE out
    <3>1. PICK k \in jar : k.name = CsrfName(cfg) /\ ~InPlace(k)
      BY <1>9, <2>2, ProvedByCookie DEF OutKept
    <3>2. k \in jar' /\ ~InPlace(k)'
      BY <1>9, <3>1, SetLeavesOthers
    <3> QED
      BY <1>9, <3>1, <3>2 DEF OutKept, SignedOutAnswersNothing
  <2> QED
    BY <2>1, <2>2
<1> QED
  BY <1>3, <1>4, <1>5, <1>6, <1>7, <1>8, <1>9, RequestCases DEF Next

\* LogoutView and LogoutAllView clear the CSRF cookie with the credential: until
\* the next login, a page that double-submits has nothing to submit, and what
\* earlier deployments left in the browser signs nobody in.
THEOREM SignedOutIsOut ==
    ASSUME StaysSecure, EvenHanded PROVE Spec => []SignedOutAnswersNothing
<1> DEFINE I == TypeOK /\ JarKept /\ OutKept /\ SignedOutAnswersNothing
<1>1. Init => I
  <2>1. Init => TypeOK
    BY TypesInit
  <2> QED
    BY <2>1 DEF Init, JarKept, OutKept, SignedOutAnswersNothing
<1>2. I /\ [Next]_vars => I'
  BY TypesNext, JarKeptNext, OutNext
<1>3. I => SignedOutAnswersNothing
  OBVIOUS
<1> QED
  BY <1>1, <1>2, <1>3, PTL DEF Spec

-----------------------------------------------------------------------------
(* Paths.                                                                  *)

LEMMA PrefixElements ==
    ASSUME NEW S, NEW s \in Seq(S), NEW t \in Seq(S)
    PROVE  IsPrefix(s, t) <=>
              Len(s) <= Len(t) /\ \A i \in 1 .. Len(s) : s[i] = t[i]
<1>1. CASE ~(Len(s) <= Len(t))
  BY <1>1 DEF IsPrefix
<1>2. CASE Len(s) <= Len(t)
  <2> DEFINE a == SubSeq(s, 1, Len(s))
             b == SubSeq(t, 1, Len(s))
  <2>1. a \in Seq(S) /\ Len(a) = Len(s) /\ \A i \in 1 .. Len(s) : a[i] = s[i]
    <3>1. \A i \in 1 .. Len(s) : s[i] \in S
      OBVIOUS
    <3> QED
      BY <3>1, SubSeqProperties
  <2>2. b \in Seq(S) /\ Len(b) = Len(s) /\ \A i \in 1 .. Len(s) : b[i] = t[i]
    <3>1. \A i \in 1 .. Len(s) : t[i] \in S
      BY <1>2
    <3> QED
      BY <3>1, SubSeqProperties
  <2>3. IsPrefix(s, t) <=> a = b
    BY <1>2 DEF IsPrefix
  <2> HIDE DEF a, b
  <2>4. a = b <=> \A i \in 1 .. Len(s) : a[i] = b[i]
    BY <2>1, <2>2, SeqEqual
  <2> QED
    BY <1>2, <2>1, <2>2, <2>3, <2>4
<1> QED
  BY <1>1, <1>2

\* What the parts of a path, or of a URL, are.
Parts == Strings \cup RefreshEndpoints

LEMMA PathsTyped ==
    ASSUME NEW c \in Configurations
    PROVE  /\ c.mount \in Seq(Parts)
           /\ c.path # Wrong => c.path \in Seq(Parts)
           /\ \A e \in RefreshEndpoints :
                 /\ Url(c, e) \in Seq(Parts) /\ Len(Url(c, e)) = Len(c.mount) + 1
                 /\ \A i \in 1 .. Len(c.mount) : Url(c, e)[i] = c.mount[i]
<1>1. c.mount \in Seq(Strings) /\ c.path \in {Wrong} \cup Seq(Strings)
  BY ConfigurationAssumption
<1>2. c.mount \in Seq(Parts) /\ (c.path # Wrong => c.path \in Seq(Parts))
  BY <1>1 DEF Parts
<1>3. ASSUME NEW e \in RefreshEndpoints
      PROVE  /\ Url(c, e) \in Seq(Parts) /\ Len(Url(c, e)) = Len(c.mount) + 1
             /\ \A i \in 1 .. Len(c.mount) : Url(c, e)[i] = c.mount[i]
  <2>1. e \in Parts
    BY <1>3 DEF Parts
  <2> QED
    BY <1>2, <2>1, AppendProperties DEF Url
<1> QED
  BY <1>2, <1>3

\* Errors, and the SameSite that browsers refuse, apart.
Sound(c) == Errors(c) = {} /\ "W012" \notin Messages(c)

LEMMA SoundMeans ==
    ASSUME NEW c \in Configurations, WellFormed(c), Sound(c)
    PROVE  /\ c.path # Wrong /\ CookiesWork(c)
           /\ c.algorithm \in HMAC \cup RSA
           /\ BackendBuilds(c) /\ StoreBuilds(c)
           /\ c.samesite = "None" => c.secure
           /\ \A e \in RefreshEndpoints : CookiePathCovers(c.path, Url(c, e))
           /\ c.refresh # None => ~PrefixViolated(c, c.refresh, c.path)
           /\ c.csrf # None => ~PrefixViolated(c, c.csrf, <<"/">>)
<1>1. CheckTypes(c) = {}
  BY DEF Sound, Errors, Messages, CheckTypes
<1>2. c.path # Wrong /\ CookiesWork(c) /\ c.algorithm # Wrong
  BY <1>1 DEF CheckTypes, CookiesWork, WellFormed
<1>3. c.algorithm \in HMAC \cup RSA
  BY <1>2 DEF WellFormed
<1>4. c.algorithm \in RSA => c.verifying # None
  <2>1. "E004" \notin CheckSigningKey(c)
    BY DEF Sound, Errors, Messages
  <2> QED
    BY <2>1 DEF CheckSigningKey
<1>5. StoreBuilds(c)
  BY DEF Sound, Errors, Messages, CheckTokenStore
<1>6. c.samesite = "None" => c.secure
  BY DEF Sound, Messages, CheckSameSite
<1>7. \A e \in RefreshEndpoints : CookiePathCovers(c.path, Url(c, e))
  BY <1>2 DEF Sound, Errors, Messages, CheckRefreshCookiePath
<1>8. \A which \in {"access", "refresh", "csrf"} :
         c[which] \notin {None, Wrong} =>
            ~PrefixViolated(c, c[which],
               [access |-> <<"/">>, csrf |-> <<"/">>,
                refresh |-> IF c.path = Wrong THEN <<"/", "api", "/", "auth", "/">>
                            ELSE c.path][which])
  BY DEF Sound, Errors, Messages, CheckPrefix
<1>9. c.refresh # None => ~PrefixViolated(c, c.refresh, c.path)
  BY <1>2, <1>8 DEF CookiesWork
<1>10. c.csrf # None => ~PrefixViolated(c, c.csrf, <<"/">>)
  BY <1>2, <1>8 DEF CookiesWork
<1> QED
  BY <1>2, <1>3, <1>4, <1>5, <1>6, <1>7, <1>9, <1>10 DEF BackendBuilds

\* Where a cookie of the refresh path is kept, it is sent to every endpoint.
LEMMA PathReaches ==
    ASSUME NEW c \in Configurations, WellFormed(c), Sound(c)
    PROVE  /\ Len(CookiePath(c, c.path)) \in Nat
           /\ \A e \in RefreshEndpoints : Matches(CookiePath(c, c.path), Url(c, e))
<1> DEFINE p == c.path
           m == c.mount
<1>1. /\ p \in Seq(Parts) /\ m \in Seq(Parts) /\ m # <<>>
      /\ m[1] = "/" /\ m[Len(m)] = "/"
  BY SoundMeans, PathsTyped DEF WellFormed, Last
<1>2. \A e \in RefreshEndpoints :
         /\ Url(c, e) \in Seq(Parts) /\ Len(Url(c, e)) = Len(m) + 1
         /\ \A i \in 1 .. Len(m) : Url(c, e)[i] = m[i]
  BY PathsTyped
<1>3. \A e \in RefreshEndpoints : CookiePathCovers(p, Url(c, e))
  BY SoundMeans
<1>4. CASE StartsAtRoot(p)
  <2>1. CookiePath(c, p) = p
    BY <1>4 DEF CookiePath
  <2>2. ASSUME NEW e \in RefreshEndpoints PROVE Matches(p, Url(c, e))
    <3>1. IsPrefix(p, Url(c, e)) /\ p # <<>>
      BY <1>3, <1>4 DEF CookiePathCovers, StartsAtRoot
    <3>2. CASE Len(Url(c, e)) = Len(p)
      <4>1. \A i \in 1 .. Len(p) : p[i] = Url(c, e)[i]
        BY <1>1, <1>2, <3>1, PrefixElements
      <4>2. p = Url(c, e)
        BY <1>1, <1>2, <3>2, <4>1, SeqEqual
      <4> QED
        BY <4>2 DEF Matches
    <3>3. CASE Last(p) = "/" \/ Url(c, e)[Len(p) + 1] = "/"
      BY <3>1, <3>3 DEF Matches
    <3> QED
      BY <1>3, <3>2, <3>3 DEF CookiePathCovers
  <2> QED
    BY <1>1, <2>1, <2>2
<1>5. CASE ~StartsAtRoot(p)
  <2>1. p = <<>>
    <3>1. SUFFICES ASSUME p # <<>> PROVE FALSE
      OBVIOUS
    <3>2. "refresh" \in RefreshEndpoints
      BY DEF RefreshEndpoints
    <3>3. \A i \in 1 .. Len(p) : p[i] = Url(c, "refresh")[i]
      BY <1>1, <1>2, <1>3, <3>2, PrefixElements DEF CookiePathCovers
    <3>4. p[1] = m[1]
      BY <1>1, <1>2, <3>1, <3>2, <3>3
    <3>5. p # Wrong
      BY SoundMeans
    <3> QED
      BY <1>1, <1>5, <3>1, <3>4, <3>5 DEF StartsAtRoot
  <2>2. CASE Len(m) > 1
    <3> DEFINE f == SubSeq(m, 1, Len(m) - 1)
    <3>1. CookiePath(c, p) = f
      BY <1>5, <2>2 DEF CookiePath, Front
    <3>2. f \in Seq(Parts) /\ Len(f) = Len(m) - 1
          /\ \A i \in 1 .. Len(m) - 1 : f[i] = m[i]
      <4>1. \A i \in 1 .. Len(m) - 1 : m[i] \in Parts
        BY <1>1
      <4> QED
        BY <1>1, <2>2, <4>1, SubSeqProperties
    <3> HIDE DEF f
    <3>3. ASSUME NEW e \in RefreshEndpoints PROVE Matches(f, Url(c, e))
      <4>1. IsPrefix(f, Url(c, e))
        <5>1. Len(m) \in Nat /\ Len(f) \in Nat
          BY <1>1, <3>2
        <5>2. Len(f) <= Len(Url(c, e))
          BY <1>2, <3>2, <5>1
        <5>3. \A i \in 1 .. Len(f) : f[i] = Url(c, e)[i]
          BY <1>2, <3>2, <5>1
        <5> QED
          BY <1>2, <3>2, <5>2, <5>3, PrefixElements
      <4>2. Url(c, e)[Len(f) + 1] = "/"
        BY <1>1, <1>2, <3>2
      <4> QED
        BY <4>1, <4>2 DEF Matches
    <3> QED
      BY <3>1, <3>2, <3>3
  <2>3. CASE ~(Len(m) > 1)
    <3>1. CookiePath(c, p) = m /\ Len(m) = 1
      <4>1. CookiePath(c, p) = m
        BY <1>5, <2>3 DEF CookiePath
      <4>2. Len(m) \in Nat /\ Len(m) # 0
        BY <1>1
      <4> QED
        BY <2>3, <4>1, <4>2
    <3>2. ASSUME NEW e \in RefreshEndpoints PROVE Matches(m, Url(c, e))
      <4>1. IsPrefix(m, Url(c, e))
        BY <1>1, <1>2, <3>1, PrefixElements
      <4>2. Last(m) = "/"
        BY <1>1 DEF Last
      <4> QED
        BY <4>1, <4>2 DEF Matches
    <3> QED
      BY <3>1, <3>2
  <2> QED
    BY <2>2, <2>3
<1> QED
  BY <1>4, <1>5

\* Of a configuration without errors a browser keeps the refresh and the CSRF cookie.
LEMMA SoundKeeps ==
    ASSUME NEW c \in Configurations, WellFormed(c), Sound(c), NEW v
    PROVE  Keeps(c, RefreshCookie(c, v)) /\ Keeps(c, CsrfCookie(c, v))
<1>1. c.samesite = "None" => c.secure
  BY SoundMeans
<1>2. c.prefix # "" => c.secure
  BY DEF WellFormed
<1> DEFINE r == RefreshName(c)
           x == CsrfName(c)
<1>3. /\ r.pre # "" => c.secure
      /\ r.pre = "__Host-" => c.path = <<"/">> /\ ~c.domain
  <2>1. CASE c.refresh = None
    BY <1>2, <2>1 DEF RefreshName, Explicit, ResolvedName
  <2>2. CASE c.refresh # None
    <3>1. r = c.refresh /\ ~PrefixViolated(c, r, c.path)
      BY <2>2, SoundMeans DEF RefreshName, Explicit
    <3> QED
      BY <3>1 DEF PrefixViolated
  <2> QED
    BY <2>1, <2>2
<1>4. /\ x.pre # "" => c.secure
      /\ x.pre = "__Host-" => ~c.domain
  <2>1. CASE c.csrf = None
    BY <1>2, <2>1 DEF CsrfName, Explicit, ResolvedName
  <2>2. CASE c.csrf # None
    <3>1. x = c.csrf /\ ~PrefixViolated(c, x, <<"/">>)
      BY <2>2, SoundMeans DEF CsrfName, Explicit
    <3> QED
      BY <3>1 DEF PrefixViolated
  <2> QED
    BY <2>1, <2>2
<1>5. c.path = <<"/">> => CookiePath(c, c.path) = <<"/">>
  <2>1. c.path = <<"/">> => c.path # <<>> /\ c.path[1] = "/"
    OBVIOUS
  <2> QED
    BY <2>1, SoundMeans DEF CookiePath, StartsAtRoot
<1> QED
  BY <1>1, <1>3, <1>4, <1>5 DEF Keeps, RefreshCookie, CsrfCookie

-----------------------------------------------------------------------------
(* What a browser that has signed in sends, and how it is answered.        *)

\* The token in the browser's hands redeems, or would in the grace window.
Due == holds # None /\ (Current(holds) \/ Replays(holds))

\* The cookies of today's names are where today's cookies are put.
OnePlace(n, p) ==
    \A k \in jar : k.name = n => k.path = p /\ k.domain = cfg.domain

LEMMA TidyPlaces ==
    ASSUME Tidy, RefreshName(cfg) # CsrfName(cfg)
    PROVE  /\ OnePlace(RefreshName(cfg), CookiePath(cfg, cfg.path))
           /\ OnePlace(CsrfName(cfg), <<"/">>)
<1>1. ASSUME NEW k \in jar, k.name \in {RefreshName(cfg), CsrfName(cfg)}
      PROVE  \E h \in Headers(Cookies(cfg, None, None, None)) : SamePlace(k, h)
  BY <1>1, InPlaceIs DEF Tidy, PlaceOf
<1>2. ASSUME NEW k \in jar, k.name = RefreshName(cfg)
      PROVE  k.path = CookiePath(cfg, cfg.path) /\ k.domain = cfg.domain
  BY <1>1, <1>2, CookiesAre
     DEF SamePlace, AccessCookie, RefreshCookie, CsrfCookie
<1>3. ASSUME NEW k \in jar, k.name = CsrfName(cfg)
      PROVE  k.path = <<"/">> /\ k.domain = cfg.domain
  BY <1>1, <1>3, CookiesAre
     DEF SamePlace, AccessCookie, RefreshCookie, CsrfCookie
<1> QED
  BY <1>2, <1>3 DEF OnePlace

\* The pair that a browser which signed in under this configuration holds.
Ready == /\ CanSign(cfg) /\ StoreBuilds(cfg) /\ CookiesWork(cfg)
         /\ holds \in Refreshes /\ holds.key = SigningKey(cfg)
         /\ home[holds.session] = cfg.store
         /\ live[holds.session] = 0 \/ live[holds.session] >= holds.n
InJar == RefreshCookie(cfg, holds) \in jar /\ CsrfCookie(cfg, Csrf) \in jar

SignedIn ==
    Sound(cfg) /\ holds # None => Ready /\ (Tidy /\ Due => InJar)

AllWellFormed == \A c \in Configurations : WellFormed(c)

\* A tidy browser whose token is due presents that token and proves its origin,
\* whatever the endpoint, and the token verifies.
LEMMA Presents ==
    ASSUME AllWellFormed, TypeOK, SignedIn, Sound(cfg), Tidy, Due
    PROVE  /\ Proved
           /\ \A e \in RefreshEndpoints : Read(e) = {holds}
           /\ Verifies(holds) /\ Known(holds)
<1>1. /\ cfg \in Configurations /\ WellFormed(cfg)
      /\ \A j, k \in jar : SamePlace(j, k) => j = k
      /\ Ready /\ InJar
  BY DEF AllWellFormed, TypeOK, SamePlace, SignedIn, Due
<1>2. /\ OnePlace(RefreshName(cfg), CookiePath(cfg, cfg.path))
      /\ OnePlace(CsrfName(cfg), <<"/">>)
  BY <1>1, TidyPlaces DEF WellFormed
<1>3. {k \in jar : k.name = CsrfName(cfg)} = {CsrfCookie(cfg, Csrf)}
  <2>1. \A k \in jar : k.name = CsrfName(cfg) => SamePlace(k, CsrfCookie(cfg, Csrf))
    BY <1>2 DEF OnePlace, SamePlace, CsrfCookie
  <2>2. CsrfCookie(cfg, Csrf) \in jar /\ CsrfCookie(cfg, Csrf).name = CsrfName(cfg)
    BY <1>1 DEF InJar, CsrfCookie
  <2> QED
    BY <1>1, <2>1, <2>2
<1>4. Proved
  BY <1>3, FS_Singleton DEF Proved
<1>5. ASSUME NEW e \in RefreshEndpoints PROVE Read(e) = {holds}
  <2> DEFINE r == RefreshCookie(cfg, holds)
  <2>1. r \in jar /\ r.name = RefreshName(cfg) /\ r.path = CookiePath(cfg, cfg.path)
        /\ r.val = holds
    BY <1>1 DEF InJar, RefreshCookie
  <2>2. \A k \in jar : k.name = RefreshName(cfg) => SamePlace(k, r)
    BY <1>2 DEF OnePlace, SamePlace, RefreshCookie
  <2>3. Matches(r.path, Url(cfg, e)) /\ Len(r.path) \in Nat
    BY <1>1, <2>1, PathReaches
  <2> HIDE DEF r
  <2>4. Sent(e) = {r}
    BY <1>1, <2>1, <2>2, <2>3 DEF Sent
  <2> QED
    BY <2>1, <2>3, <2>4 DEF Read
<1>6. Verifies(holds)
  <2>1. VerifyingKey(cfg) = SigningKey(cfg)
    BY <1>1 DEF Ready, CanSign, BackendBuilds, VerifyingKey, SigningKey, WellFormed,
                  HMAC, RSA
  <2> QED
    BY <1>1, <2>1 DEF Ready, Verifies
<1> QED
  BY <1>1, <1>4, <1>5, <1>6 DEF Ready, Known

\* No step but a deployment tidies the jar up.
LEMMA TidyStays ==
    ASSUME Next, UNCHANGED cfg, Tidy' PROVE Tidy
<1> SUFFICES ASSUME NEW k \in jar, ~InPlace(k) PROVE k \in jar' /\ ~InPlace(k)'
  BY DEF Tidy
<1>1. ~PlaceOf(k) /\ ~PlaceOf(k)'
  BY InPlaceIs DEF PlaceOf
<1>2. ~InPlace(k)'
  BY <1>1 DEF InPlace, Replaced, PlaceOf, SamePlace
<1>3. CASE UNCHANGED jar
  BY <1>2, <1>3
<1>4. ASSUME NEW r, SetCookies(r) PROVE k \in jar' /\ ~InPlace(k)'
  BY <1>4, SetLeavesOthers
<1>5. CASE ClearCookies
  <2>1. k \notin Replaced(Kept(cfg, Cookies(cfg, None, None, None)))
    BY <1>1 DEF Replaced, Kept, PlaceOf, SamePlace
  <2> QED
    BY <1>2, <1>5, <2>1 DEF ClearCookies
<1> QED
  BY <1>3, <1>4, <1>5, JarSteps

\* Nothing that SignedIn speaks of has changed.
LEMMA NothingNew ==
    ASSUME SignedIn, UNCHANGED <<cfg, jar, home, live, recent, holds>>
    PROVE  SignedIn'
BY DEF SignedIn, Ready, InJar, Due, Current, Replays, Known, Tidy, InPlace, Replaced

\* A pair is handed out.
LEMMA HandedOut ==
    ASSUME AllWellFormed, TypeOK, NEW w \in Refreshes, SetCookies(w), UNCHANGED cfg,
           holds' = w, w.key = SigningKey(cfg), CanSign(cfg), StoreBuilds(cfg),
           CookiesWork(cfg), home'[w.session] = cfg.store, live'[w.session] = w.n
    PROVE  SignedIn'
<1>1. Ready'
  <2>1. w.n \in Nat
    BY BoundAssumption DEF Refreshes
  <2> QED
    BY <2>1 DEF Ready
<1>2. ASSUME Sound(cfg) PROVE InJar'
  <2>1. cfg \in Configurations /\ WellFormed(cfg)
    BY DEF TypeOK, AllWellFormed
  <2>2. RefreshCookie(cfg, w) \in Kept(cfg, Cookies(cfg, Access, w, Csrf))
    BY <1>2, <2>1, SoundKeeps, CookiesAre DEF Kept, WellFormed
  <2>3. CsrfCookie(cfg, Csrf) \in Kept(cfg, Cookies(cfg, Access, w, Csrf))
    BY <1>2, <2>1, SoundKeeps, CookiesAre DEF Kept
  <2> QED
    BY <2>2, <2>3 DEF SetCookies, InJar
<1> QED
  BY <1>1, <1>2 DEF SignedIn

\* A rotation whose answer is lost: the token that was presented replays.
LEMMA AnswerLost ==
    ASSUME TypeOK, SignedIn, NEW v, Verifies(v), Redeems(v), v.n < MaxRotations,
           live' = [live EXCEPT ![v.session] = Successor(v).n],
           recent' = recent \cup {v.session}, UNCHANGED <<cfg, jar, home, holds>>
    PROVE  SignedIn'
<1> SUFFICES ASSUME Sound(cfg), holds # None
             PROVE  Ready' /\ (Tidy' /\ Due' => InJar')
  BY DEF SignedIn
<1>1. Ready /\ (Tidy /\ Due => InJar)
  BY DEF SignedIn
<1> DEFINE s == holds.session
<1>2. /\ v \in Refreshes /\ v.session \in Sessions /\ v.n \in 1 .. MaxRotations
      /\ holds \in Refreshes /\ s \in Sessions /\ holds.n \in 1 .. MaxRotations
      /\ MaxRotations \in Nat /\ live[s] \in 0 .. MaxRotations
      /\ Successor(v).n = v.n + 1
  BY <1>1, SuccessorTyped, BoundAssumption DEF Ready, Verifies, Refreshes, TypeOK
<1>3. live[v.session] = v.n \/ (live[v.session] = v.n + 1 /\ v.session \in recent)
  BY DEF Redeems, Current, Replays
<1>4. live'[s] = IF v.session = s THEN v.n + 1 ELSE live[s]
  BY <1>2 DEF TypeOK
<1>5. live[s] = 0 \/ live[s] >= holds.n
  BY <1>1 DEF Ready
<1>6. live'[s] = 0 \/ live'[s] >= holds.n
  <2>1. CASE v.session = s
    BY <1>2, <1>3, <1>4, <1>5, <2>1
  <2>2. CASE v.session # s
    BY <1>4, <1>5, <2>2
  <2> QED
    BY <2>1, <2>2
<1>7. ASSUME live'[s] = holds.n \/ (s \in recent' /\ live'[s] = holds.n + 1)
      PROVE  live[s] = holds.n \/ (s \in recent /\ live[s] = holds.n + 1)
  <2>1. CASE v.session = s
    BY <1>2, <1>3, <1>4, <1>5, <1>7, <2>1
  <2>2. CASE v.session # s
    BY <1>4, <1>7, <2>2
  <2> QED
    BY <2>1, <2>2
<1>8. Ready'
  BY <1>1, <1>6 DEF Ready
<1>9. Due' => Due
  BY <1>1, <1>7 DEF Due, Current, Replays, Known, Ready
<1>10. Tidy' => Tidy
  BY DEF Tidy, InPlace, Replaced
<1> QED
  BY <1>1, <1>8, <1>9, <1>10 DEF InJar

\* An endpoint clears the cookies of a request that has presented v, or fails to;
\* its session is over then, and perhaps others.
Cleared(v) ==
    /\ ClearCookies \/ UNCHANGED jar
    /\ UNCHANGED <<cfg, home, recent, holds>>
    /\ \A s \in Sessions : live'[s] \in {0, live[s]}
    /\ Verifies(v) /\ Known(v) => live'[v.session] = 0

LEMMA RefusedClears ==
    ASSUME TypeOK, NEW v, Refused(v), ClearCookies \/ UNCHANGED jar,
           UNCHANGED <<cfg, home, recent, holds>>
    PROVE  Cleared(v)
<1>1. \A s \in Sessions : live'[s] \in {0, live[s]}
  BY RefusedTyped
<1>2. ASSUME Verifies(v), Known(v) PROVE live'[v.session] = 0
  BY <1>2 DEF Refused, Verifies, Refreshes, TypeOK
<1> QED
  BY <1>1, <1>2 DEF Cleared

LEMMA NoLongerDue ==
    ASSUME TypeOK, NEW v, Cleared(v), holds \in Refreshes
    PROVE  /\ live'[holds.session] = 0 => ~Due'
           /\ Due' => Due
<1>1. /\ holds.session \in Sessions /\ holds.n \in 1 .. MaxRotations
      /\ MaxRotations \in Nat
      /\ live'[holds.session] = 0 \/ live'[holds.session] = live[holds.session]
  BY BoundAssumption DEF Refreshes, Cleared
<1>2. live'[holds.session] = 0 =>
         live'[holds.session] # holds.n /\ live'[holds.session] # holds.n + 1
  BY <1>1
<1>3. live'[holds.session] = 0 => ~Due'
  BY <1>2 DEF Due, Current, Replays, Cleared
<1>4. ASSUME live'[holds.session] = live[holds.session], Due' PROVE Due
  BY <1>4 DEF Due, Current, Replays, Known, Cleared
<1> QED
  BY <1>1, <1>3, <1>4

LEMMA SignedOutClears ==
    ASSUME AllWellFormed, TypeOK, SignedIn, Next, NEW e \in RefreshEndpoints,
           NEW v \in Read(e), Cleared(v)
    PROVE  SignedIn'
<1> SUFFICES ASSUME Sound(cfg), holds # None
             PROVE  Ready' /\ (Tidy' /\ Due' => InJar')
  BY DEF SignedIn, Cleared
<1>1. Ready /\ holds \in Refreshes /\ holds.session \in Sessions
  BY DEF SignedIn, Ready, Refreshes
<1>2. Ready'
  <2>1. live'[holds.session] = 0 \/ live'[holds.session] = live[holds.session]
    BY <1>1 DEF Cleared
  <2> QED
    BY <1>1, <2>1 DEF Ready, Cleared
<1>3. ASSUME Tidy', Due' PROVE FALSE
  <2>1. Tidy /\ Due
    BY <1>1, <1>3, TidyStays, NoLongerDue DEF Cleared
  <2>2. v = holds /\ Verifies(v) /\ Known(v)
    BY <2>1, Presents
  <2>3. live'[holds.session] = 0
    BY <2>2 DEF Cleared
  <2> QED
    BY <1>1, <1>3, <2>3, NoLongerDue
<1> QED
  BY <1>2, <1>3

\* How a request to one of the endpoints that read the refresh cookie ends.
LEMMA EndpointCases ==
    ASSUME TypeOK, Request
    PROVE  \/ UNCHANGED <<cfg, jar, home, live, recent, holds>>
           \/ \E v \in Read("refresh") :
                 /\ Verifies(v) /\ Redeems(v) /\ v.n < MaxRotations
                 /\ CanSign(cfg) /\ StoreBuilds(cfg)
                 /\ live' = [live EXCEPT ![v.session] = Successor(v).n]
                 /\ recent' = recent \cup {v.session}
                 /\ UNCHANGED <<cfg, home>>
                 /\ \/ /\ CookiesWork(cfg) /\ SetCookies(Successor(v))
                       /\ holds' = Successor(v)
                    \/ UNCHANGED <<jar, holds>>
           \/ \E e \in RefreshEndpoints : \E v \in Read(e) : Cleared(v)
<1>1. \A e, st, sh : Answer(e, st, sh) => UNCHANGED cfg
  BY DEF Answer
<1>2. CASE \E e, st : NotPresented(e, st) \/ NotProved(e) \/ Crash(e)
  BY <1>1, <1>2 DEF NotPresented, NotProved, Crash
<1>3. ASSUME NEW v \in Read("refresh"), Refresh(v)
      PROVE  \/ Crash("refresh")
             \/ /\ Verifies(v) /\ Redeems(v) /\ v.n < MaxRotations
                /\ CanSign(cfg) /\ StoreBuilds(cfg)
                /\ live' = [live EXCEPT ![v.session] = Successor(v).n]
                /\ recent' = recent \cup {v.session}
                /\ UNCHANGED <<cfg, home>>
                /\ \/ /\ CookiesWork(cfg) /\ SetCookies(Successor(v))
                      /\ holds' = Successor(v)
                   \/ UNCHANGED <<jar, holds>>
             \/ Cleared(v)
  BY <1>1, <1>3, RefreshCases, RefusedClears DEF AnswerCleared
<1>4. ASSUME NEW v, Logout(v) PROVE Crash("logout") \/ Cleared(v)
  BY <1>1, <1>4, RefusedClears DEF Logout, AnswerCleared
<1>5. ASSUME NEW v, LogoutAll(v)
      PROVE  \/ UNCHANGED <<cfg, jar, home, live, recent, holds>>
             \/ Cleared(v)
  <2>1. CASE Crash("logout-all")
    BY <1>1, <2>1 DEF Crash
  <2>2. CASE /\ live' = [s \in Sessions |-> IF home[s] = cfg.store THEN 0 ELSE live[s]]
             /\ ClearCookies \/ UNCHANGED jar
             /\ UNCHANGED <<cfg, home, recent, holds>>
    BY <2>2 DEF Cleared, Verifies, Known, Refreshes
  <2>3. CASE /\ Refused(v) /\ (ClearCookies \/ UNCHANGED jar)
             /\ UNCHANGED <<cfg, home, recent, holds>>
    BY <2>3, RefusedClears
  <2> QED
    BY <1>1, <1>5, <2>1, <2>2, <2>3 DEF LogoutAll, AnswerCleared
<1> QED
  BY <1>2, <1>3, <1>4, <1>5 DEF Request, RefreshEndpoints

LEMMA SignedInNext ==
    ASSUME AllWellFormed, TypeOK, SignedIn, [Next]_vars PROVE SignedIn'
<1>1. CASE UNCHANGED <<cfg, jar, home, live, recent, holds>>
  BY <1>1, NothingNew
<1>2. ASSUME NEW s \in Sessions, Login(s) PROVE SignedIn'
  <2> DEFINE w == [session |-> s, n |-> 1, key |-> SigningKey(cfg)]
  <2>0. UNCHANGED cfg /\ UNCHANGED recent
    BY <1>2 DEF Login, Answer
  <2>1. CASE UNCHANGED <<jar, home, live, holds>>
    BY <1>1, <2>0, <2>1
  <2>2. CASE CanSign(cfg) /\ StoreBuilds(cfg) /\ home' = [home EXCEPT ![s] = cfg.store]
             /\ live' = [live EXCEPT ![s] = 1] /\ CookiesWork(cfg)
             /\ SetCookies(w) /\ holds' = w
    <3>1. w \in Refreshes
      BY KeysTyped, BoundAssumption DEF SigningKeyTyped, Refreshes, TypeOK
    <3>2. home'[w.session] = cfg.store /\ live'[w.session] = w.n
      BY <2>2 DEF TypeOK
    <3> QED
      BY <2>0, <2>2, <3>1, <3>2, HandedOut
  <2>3. CASE ~CookiesWork(cfg) /\ holds' = holds
    BY <2>0, <2>3 DEF SignedIn, Ready
  <2> QED
    BY <1>2, <2>1, <2>2, <2>3 DEF Login
<1>3. CASE Request
  <2>1. ASSUME NEW v \in Read("refresh"), Verifies(v), Redeems(v), v.n < MaxRotations,
               CanSign(cfg), StoreBuilds(cfg),
               live' = [live EXCEPT ![v.session] = Successor(v).n],
               UNCHANGED <<cfg, home>>, CookiesWork(cfg), SetCookies(Successor(v)),
               holds' = Successor(v)
        PROVE  SignedIn'
    <3>1. v \in Refreshes /\ v.session \in Sessions
      BY <2>1 DEF Verifies, Refreshes
    <3>2. /\ Successor(v) \in Refreshes /\ Successor(v).session = v.session
          /\ Successor(v).key = SigningKey(cfg)
      BY <2>1, <3>1, SuccessorTyped
    <3>3. home'[v.session] = cfg.store /\ live'[v.session] = Successor(v).n
      BY <2>1, <3>1 DEF Redeems, Current, Replays, Known, TypeOK
    <3> QED
      BY <2>1, <3>2, <3>3, HandedOut
  <2>2. ASSUME NEW e \in RefreshEndpoints, NEW v \in Read(e), Cleared(v)
        PROVE  SignedIn'
    BY <1>3, <2>2, SignedOutClears DEF Next
  <2> QED
    BY <1>1, <1>3, <2>1, <2>2, EndpointCases, AnswerLost
<1>4. CASE Elapse
  <2>1. UNCHANGED <<cfg, jar, home, live, holds>> /\ recent' = {}
    BY <1>4 DEF Elapse
  <2> QED
    BY <2>1 DEF SignedIn, Ready, InJar, Due, Current, Replays, Known, Tidy,
                InPlace, Replaced
<1>5. CASE \E c \in Successors(cfg) : Deploy(c)
  BY <1>5 DEF Deploy, SignedIn
<1>6. CASE UNCHANGED vars
  BY <1>1, <1>6 DEF vars
<1> QED
  BY <1>2, <1>3, <1>4, <1>5, <1>6 DEF Next

\* Where nobody has signed in there is nothing to say.
LEMMA SignedInFirst == Init => SignedIn
BY DEF Init, SignedIn

\* What the token in the browser's hands is answered.
LEMMA DueAnswered ==
    ASSUME NEW e, NEW st, NEW sh, Answer(e, st, sh)
    PROVE  /\ UNCHANGED cfg /\ answer'.to = e /\ answer'.status = st
           /\ answer'.due <=> Due
BY DEF Answer, Due

-----------------------------------------------------------------------------
(* The checks keep silent.                                                 *)

LEMMA SilenceMeans ==
    ASSUME NEW c \in Configurations, WellFormed(c), Messages(c) = {}
    PROVE  /\ Sound(c) /\ CookiesWork(c) /\ BackendBuilds(c) /\ CanSign(c)
           /\ StoreBuilds(c) /\ CanRevokeAll(c)
           /\ c.grace # None => GraceWorks(c)
<1>1. Sound(c)
  BY DEF Sound, Errors
<1>2. CookiesWork(c) /\ BackendBuilds(c) /\ StoreBuilds(c)
  BY <1>1, SoundMeans
<1>3. CanSign(c)
  <2>1. "W011" \notin CheckSigningKey(c)
    BY DEF Messages
  <2> QED
    BY <1>2, <2>1 DEF CheckSigningKey, CanSign
<1>4. CanRevokeAll(c)
  BY <1>2 DEF Messages, CheckTokenStore
<1>5. c.grace # None => GraceWorks(c)
  <2>1. CheckGraceCache(c) = {}
    BY DEF Messages
  <2>2. c.grace \in {None, "shared", "keeps", "missing"}
    BY ConfigurationAssumption
  <2>3. c.grace # "missing" /\ c.grace # "keeps"
    BY <2>1 DEF CheckGraceCache
  <2> QED
    BY <2>2, <2>3 DEF GraceWorks
<1> QED
  BY <1>1, <1>2, <1>3, <1>4, <1>5

LEMMA SilenceNext ==
    ASSUME AllWellFormed, TypeOK, SignedIn, SilenceMeansServed, [Next]_vars
    PROVE  SilenceMeansServed'
<1>1. CASE UNCHANGED vars
  BY <1>1 DEF vars, SilenceMeansServed, Tidy, InPlace, Replaced
<1>2. CASE Elapse \/ \E c \in Successors(cfg) : Deploy(c)
  BY <1>2 DEF Elapse, Deploy, Silence, SilenceMeansServed
<1>3. ASSUME UNCHANGED cfg, Next, Messages(cfg) = {},
             \/ answer'.status \in {0, 200}
             \/ answer'.status \in {401, 403} /\ answer'.due = FALSE
             \/ answer'.status \in {401, 403} /\ ~Tidy
             \/ answer'.status \in {401, 403} /\ cfg.grace = None
      PROVE  SilenceMeansServed'
  BY <1>3, TidyStays DEF SilenceMeansServed
<1>4. CASE cfg' = cfg /\ Messages(cfg) # {}
  BY <1>4 DEF SilenceMeansServed
<1>5. ASSUME Messages(cfg) = {}
      PROVE  /\ Sound(cfg) /\ CookiesWork(cfg) /\ BackendBuilds(cfg) /\ CanSign(cfg)
             /\ StoreBuilds(cfg) /\ CanRevokeAll(cfg)
             /\ cfg.grace # None => GraceWorks(cfg)
  BY <1>5, SilenceMeans DEF AllWellFormed, TypeOK
<1>6. ASSUME NEW s \in Sessions, Login(s), Messages(cfg) = {}
      PROVE  answer'.status = 200 /\ UNCHANGED cfg
  BY <1>5, <1>6, DueAnswered DEF Login
<1>7. ASSUME Request, Messages(cfg) = {}
      PROVE  /\ UNCHANGED cfg
             /\ \/ answer'.status \in {0, 200}
                \/ /\ answer'.status \in {401, 403}
                   /\ answer'.due = FALSE \/ ~Tidy \/ cfg.grace = None
  <2> DEFINE Fine == answer'.status \in {0, 200}
             Refusal == answer'.status \in {401, 403}
             Excused == answer'.due = FALSE \/ ~Tidy \/ cfg.grace = None
  <2>1. Due /\ Tidy =>
           /\ Proved /\ \A e \in RefreshEndpoints : Read(e) = {holds}
           /\ Verifies(holds) /\ Known(holds)
    BY <1>5, <1>7, Presents
  <2>2. Due => Redeems(holds) \/ ~GraceWorks(cfg)
    BY DEF Due, Redeems
  <2>3. \A e, st, sh : Answer(e, st, sh) =>
           UNCHANGED cfg /\ answer'.status = st /\ (answer'.due = FALSE \/ Due)
    BY DueAnswered DEF Answer, Due
  <2>4. ASSUME NEW e \in RefreshEndpoints, NEW st \in {200, 401},
               NotPresented(e, st) \/ NotProved(e)
        PROVE  UNCHANGED cfg /\ (Fine \/ (Refusal /\ Excused))
    BY <2>1, <2>3, <2>4 DEF NotPresented, NotProved
  <2>5. ASSUME NEW v \in Read("refresh"), Refresh(v)
        PROVE  UNCHANGED cfg /\ (Fine \/ (Refusal /\ Excused))
    <3>1. \/ Answer("refresh", 200, None) \/ Answer("refresh", 0, None)
          \/ Answer("refresh", 401, v) /\ (Verifies(v) => ~Redeems(v))
      BY <1>5, <1>7, <2>5, RefreshCases DEF AnswerCleared
    <3>2. CASE Answer("refresh", 200, None) \/ Answer("refresh", 0, None)
      BY <2>3, <3>2
    <3>3. CASE Answer("refresh", 401, v) /\ (Verifies(v) => ~Redeems(v))
      <4>1. Due /\ Tidy => ~GraceWorks(cfg)
        BY <2>1, <2>2, <2>5, <3>3 DEF RefreshEndpoints
      <4> QED
        BY <1>5, <1>7, <2>3, <3>3, <4>1
    <3> QED
      BY <3>1, <3>2, <3>3
  <2>6. ASSUME NEW v, Logout(v) PROVE UNCHANGED cfg /\ Fine
    BY <1>5, <1>7, <2>3, <2>6 DEF Logout, AnswerCleared
  <2>7. ASSUME NEW v \in Read("logout-all"), LogoutAll(v)
        PROVE  UNCHANGED cfg /\ (Fine \/ (Refusal /\ Excused))
    <3>1. CASE Answer("logout-all", 200, None)
      BY <2>3, <3>1
    <3>2. CASE Answer("logout-all", 401, v) /\ (Verifies(v) => ~Redeems(v))
      <4>1. Due /\ Tidy => ~GraceWorks(cfg)
        BY <2>1, <2>2, <2>7, <3>2 DEF RefreshEndpoints
      <4> QED
        BY <1>5, <1>7, <2>3, <3>2, <4>1
    <3> QED
      BY <1>5, <1>7, <2>7, <3>1, <3>2 DEF LogoutAll, AnswerCleared
  <2> DEFINE Goal == UNCHANGED cfg /\ (Fine \/ (Refusal /\ Excused))
  <2>8. /\ \A e \in RefreshEndpoints, st \in {200, 401} :
              NotPresented(e, st) \/ NotProved(e) => Goal
        /\ \A v \in Read("refresh") : Refresh(v) => Goal
        /\ \A v \in Read("logout") : Logout(v) => Goal
        /\ \A v \in Read("logout-all") : LogoutAll(v) => Goal
    BY <2>4, <2>5, <2>6, <2>7
  <2> HIDE DEF Goal
  <2>9. Goal
    BY <1>7, <2>8 DEF Request, RefreshEndpoints
  <2> QED
    BY <2>9 DEF Goal
<1>8. CASE \E s \in Sessions : Login(s)
  <2>1. UNCHANGED cfg
    BY <1>8 DEF Login, Answer
  <2>2. Next
    BY <1>8 DEF Next
  <2> QED
    BY <1>3, <1>4, <1>6, <1>8, <2>1, <2>2
<1>9. CASE Request
  <2>1. UNCHANGED cfg
    BY <1>9, EndpointCases DEF Cleared
  <2>2. Next
    BY <1>9 DEF Next
  <2> QED
    BY <1>3, <1>4, <1>7, <1>9, <2>1, <2>2
<1> QED
  BY <1>1, <1>2, <1>8, <1>9 DEF Next

\* ALL_CHECKS: when `manage.py check` has nothing to say of settings that are
\* well formed, no endpoint fails, and a browser that has signed in under them
\* is served, also when it repeats a refresh whose answer was lost.
THEOREM SilentSettingsServe ==
    ASSUME \A c \in Configurations : WellFormed(c)
    PROVE  Spec => []SilenceMeansServed
<1> DEFINE I == TypeOK /\ SignedIn /\ SilenceMeansServed
<1>0. AllWellFormed
  BY DEF AllWellFormed
<1>1. Init => I
  <2>1. Init => TypeOK /\ SignedIn
    BY TypesInit, SignedInFirst
  <2> QED
    BY <2>1 DEF Init, Silence, SilenceMeansServed
<1>2. I /\ [Next]_vars => I'
  BY <1>0, TypesNext, SignedInNext, SilenceNext
<1>3. I => SilenceMeansServed
  OBVIOUS
<1> QED
  BY <1>1, <1>2, <1>3, PTL DEF Spec

-----------------------------------------------------------------------------
(* A sign-out reaches the session.                                         *)

LEMMA LogoutNext ==
    ASSUME AllWellFormed, TypeOK, SignedIn, LogoutReachesTheSession, [Next]_vars
    PROVE  LogoutReachesTheSession'
<1>1. CASE UNCHANGED vars
  BY <1>1 DEF vars, LogoutReachesTheSession, Tidy, InPlace, Replaced
<1>2. CASE Elapse \/ \E c \in Successors(cfg) : Deploy(c)
  BY <1>2 DEF Elapse, Deploy, Silence, LogoutReachesTheSession
<1>3. CASE \E s \in Sessions : Login(s)
  BY <1>3 DEF Login, Answer, LogoutReachesTheSession
<1>4. CASE Request
  <2> SUFFICES ASSUME Sound(cfg), Tidy', answer'.to \in {"logout", "logout-all"},
                      answer'.status = 200, answer'.due
               PROVE  live'[holds'.session] = 0
    <3>1. UNCHANGED cfg
      BY <1>4, EndpointCases DEF Cleared
    <3> QED
      BY <3>1 DEF LogoutReachesTheSession, Sound
  <2>1. \A e, st, sh : Answer(e, st, sh) =>
           UNCHANGED cfg /\ answer'.to = e /\ answer'.status = st /\ Due
    BY DueAnswered
  <2>2. UNCHANGED cfg
    BY <1>4, EndpointCases DEF Cleared
  <2>3. Tidy
    BY <1>4, <2>2, TidyStays DEF Next
  <2>4. Due => /\ \A e \in RefreshEndpoints : Read(e) = {holds}
               /\ Verifies(holds) /\ Known(holds)
    BY <2>3, Presents
  <2>5. ASSUME NEW e \in {"logout", "logout-all"},
               NotPresented(e, 200) \/ NotPresented(e, 401) \/ NotProved(e)
        PROVE  FALSE
    BY <2>1, <2>4, <2>5 DEF NotPresented, NotProved, RefreshEndpoints
  <2>6. ASSUME NEW e \in {"logout", "logout-all"}, NEW v \in Read(e), Cleared(v), Due
        PROVE  live'[holds'.session] = 0
    BY <2>4, <2>6 DEF Cleared, RefreshEndpoints
  <2>7. ASSUME NEW v \in Read("logout"), Logout(v) PROVE live'[holds'.session] = 0
    BY <2>1, <2>6, <2>7, RefusedClears DEF Logout, Crash, AnswerCleared
  <2>8. ASSUME NEW v \in Read("logout-all"), LogoutAll(v)
        PROVE  live'[holds'.session] = 0
    <3>1. CASE /\ live' = [s \in Sessions |-> IF home[s] = cfg.store THEN 0 ELSE live[s]]
               /\ Answer("logout-all", 200, None) /\ ClearCookies
               /\ UNCHANGED <<home, recent, holds>>
      <4>1. Cleared(v)
        BY <2>2, <3>1 DEF Cleared, Verifies, Known, Refreshes
      <4> QED
        BY <2>1, <2>6, <3>1, <4>1
    <3>2. CASE Answer("logout-all", 501, None) \/ Answer("logout-all", 401, v)
               \/ Answer("logout-all", 500, None)
      BY <2>1, <3>2
    <3> QED
      BY <2>8, <3>1, <3>2 DEF LogoutAll, AnswerCleared, Crash
  <2>9. CASE \E v \in Read("refresh") : Refresh(v)
    BY <2>1, <2>9 DEF Refresh, Crash, AnswerCleared
  <2>10. CASE NotPresented("refresh", 401) \/ NotProved("refresh")
    BY <2>1, <2>10 DEF NotPresented, NotProved
  <2> QED
    BY <1>4, <2>5, <2>7, <2>8, <2>9, <2>10 DEF Request
<1> QED
  BY <1>1, <1>2, <1>3, <1>4 DEF Next

\* LogoutView and LogoutAllView, under settings without errors: when the browser
\* is told that it is signed out, the session whose token it held is over, and not
\* only its cookies gone.
THEOREM LogoutIsHeard ==
    ASSUME \A c \in Configurations : WellFormed(c)
    PROVE  Spec => []LogoutReachesTheSession
<1> DEFINE I == TypeOK /\ SignedIn /\ LogoutReachesTheSession
<1>0. AllWellFormed
  BY DEF AllWellFormed
<1>1. Init => I
  <2>1. Init => TypeOK /\ SignedIn
    BY TypesInit, SignedInFirst
  <2> QED
    BY <2>1 DEF Init, Silence, LogoutReachesTheSession
<1>2. I /\ [Next]_vars => I'
  BY <1>0, TypesNext, SignedInNext, LogoutNext
<1>3. I => LogoutReachesTheSession
  OBVIOUS
<1> QED
  BY <1>1, <1>2, <1>3, PTL DEF Spec
=============================================================================
