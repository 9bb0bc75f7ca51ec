------------------------------- MODULE Realms -------------------------------
(***************************************************************************)
(* Several realms on one site: cookie realms with names of their own, a    *)
(* header realm, a hybrid one, and realms that bind their sessions with a  *)
(* claim as docs/examples/realm_binding_urls.py does.  They share one      *)
(* signing key, one token store and one grace cache, and a token carries   *)
(* no record of the realm that issued it.                                  *)
(*                                                                         *)
(* The people at one device use them from pages and from an app; a token   *)
(* may be copied from any place it is held in to any other; and a page of  *)
(* another site may post forms to the endpoints.  A handler is one step:   *)
(* SessionRotation takes it apart.                                         *)
(***************************************************************************)
EXTENDS Naturals, Sequences

CONSTANTS
    Realms,        \* what a SignetViewMixin subclass and its views declare
    Policies,      \* the cookie names in use, one set of them per CookiePolicy
    Sessions, Users, Owner, None,
    Pocket,        \* where an app keeps the tokens of a response body
    CrossSite,     \* is SameSite=None, so that foreign forms carry cookies?
    Strict,        \* do the views list Strict* authentication classes?
    MaxRefreshes,  \* bound: no session mints more pairs
    MaxEvents      \* bound: so often networks, clocks or people interfere

\* The transport of a realm reads the cookies of a policy, or the Authorization
\* header, or (HybridTransport) either.  A realm that is bound stamps its tokens
\* in get_claims() and asks for the stamp in get_user() and validate_claims().
ASSUME RealmAssumption ==
    /\ Realms \subseteq [cookies : Policies \cup {None}, header : BOOLEAN,
                         bound : BOOLEAN]
    /\ \A r \in Realms : r.cookies # None \/ r.header
ASSUME OwnerAssumption == Owner \in [Sessions -> Users]
ASSUME PlaceAssumption == None \notin Policies \cup Realms /\ Pocket \notin Policies
ASSUME FlagAssumption  == CrossSite \in BOOLEAN /\ Strict \in BOOLEAN
ASSUME BoundAssumption == MaxRefreshes \in Nat \ {0} /\ MaxEvents \in Nat

VARIABLES
    began,   \* the realm a session was opened at, None before that
    claims,  \* claims[s][n]: does the n-th pair of the session bear the stamp?
    over,    \* the sessions that are revoked
    window,  \* the refresh tokens whose successors the grace cache holds
    aged,    \* the pairs whose access token no longer verifies
    held,    \* the pairs in the cookies of each policy, and in the pocket
    answer,  \* the last answer
    events

ledger == <<began, claims, over>>
vars   == <<ledger, window, aged, held, answer, events>>

Places == Policies \cup {Pocket}
Tokens == [session : Sessions, n : 1 .. MaxRefreshes]
Pairs  == [access : Tokens \cup {None}, refresh : Tokens \cup {None}]
Nobody == [access |-> None, refresh |-> None]

\* A request: of a page, whose scripts can set both headers; of an app, which
\* has no cookies; or of a form on another site, which can set neither, and which
\* the browser may let carry the cookies.  A header that the realm does not look
\* at is left out.
Requests(r) ==
    [who : {"page"}, carries : {TRUE}, bearer : {FALSE, r.header},
     proved : {FALSE, r.cookies # None}]
    \cup [who : {"app"}, carries : {FALSE}, bearer : {r.header}, proved : {FALSE}]
    \cup [who : {"elsewhere"}, carries : {FALSE, CrossSite}, bearer : {FALSE},
          proved : {FALSE}]

SignOuts  == {"logout", "logout-all"}
Refreshing == {"refresh"} \cup SignOuts
Views     == {"read", "write", "verify"}
Endpoints == {"login"} \cup Refreshing \cup Views
Answers   == [to : Endpoints, who : {"page", "app", "elsewhere"}, realm : Realms,
              status : {200, 401, 403, 415}, shown : Tokens \cup {None}]

Minted(t) == t.n \in 1 .. Len(claims[t.session])

\* Every variable has its type, and only tokens that were minted are held.
TypeOK ==
    /\ began \in [Sessions -> Realms \cup {None}]
    /\ claims \in [Sessions -> Seq(BOOLEAN)]
    /\ \A s \in Sessions : Len(claims[s]) <= MaxRefreshes
    /\ over \in SUBSET Sessions
    /\ window \in SUBSET Tokens
    /\ aged \in SUBSET Tokens
    /\ held \in [Places -> Pairs]
    /\ \A p \in Places : \A t \in {held[p].access, held[p].refresh} \ {None} :
          Minted(t)
    /\ answer \in Answers \cup {None}
    /\ events \in 0 .. MaxEvents

Init ==
    /\ began = [s \in Sessions |-> None]
    /\ claims = [s \in Sessions |-> <<>>]
    /\ over = {} /\ window = {} /\ aged = {}
    /\ held = [p \in Places |-> Nobody]
    /\ answer = None
    /\ events = 0

-----------------------------------------------------------------------------
(* The transports.  Definitions whose name says Faulty are the ones below   *)
(* them with a plausible mistake; no action uses them.                     *)

\* The cookies the browser attaches to a request, as r's policy names them.
Cookie(q, r, kind) ==
    IF r.cookies # None /\ q.carries THEN held[r.cookies][kind] ELSE None

Bearer(q, r, kind) == IF r.header /\ q.bearer THEN held[Pocket][kind] ELSE None

\* extract_access() and extract_refresh(): the cookie, or else the header.
Extract(q, r, kind) ==
    IF Cookie(q, r, kind) # None THEN Cookie(q, r, kind) ELSE Bearer(q, r, kind)

\* used_cookie() for the refresh token too: a hybrid request is ambient if it
\* carries the access cookie.
FaultyAmbient(q, r, kind) ==
    r.cookies # None /\ (r.header => Cookie(q, r, "access") # None)

\* should_enforce_csrf() and refresh_is_ambient(): a cookie transport always is,
\* a hybrid one if the token in question came as a cookie.
Ambient(q, r, kind) ==
    r.cookies # None /\ (r.header => Cookie(q, r, kind) # None)

\* Where a response puts a pair: in cookies, or else in its body.
PlaceOf(r) == IF r.cookies # None THEN r.cookies ELSE Pocket

\* An app does not read Set-Cookie.
Stores(q, r, pair) ==
    IF q.who = "app" /\ r.cookies # None THEN held
    ELSE [held EXCEPT ![PlaceOf(r)] = pair]

\* clear_cookies(): only if a credential was read, and nothing in a header realm.
Cleared(q, r) ==
    IF r.cookies = None \/ Extract(q, r, "refresh") = None THEN held
    ELSE Stores(q, r, Nobody)

Answer(q, r, to, status, shown) ==
    answer' = [to |-> to, who |-> q.who, realm |-> r, status |-> status,
               shown |-> shown]

Event == events < MaxEvents /\ events' = events + 1

\* The client takes what the response hands out or clears, or it is lost.
Respond(new) ==
    \/ held' = new /\ UNCHANGED events
    \/ new # held /\ Event /\ UNCHANGED held

-----------------------------------------------------------------------------
(* The store, and the policy of a realm.                                   *)

Stamped(t)  == claims[t.session][t.n]
Standing(t) == t.session \notin over

\* A redemption that does not look whether the token is spent.
FaultyCurrent(t) == Standing(t)

Current(t)  == Standing(t) /\ t.n = Len(claims[t.session])
Replayed(t) == Standing(t) /\ t.n < Len(claims[t.session]) /\ t \in window
Redeems(t)  == Current(t) \/ Replayed(t)
Reused(t)   == Standing(t) /\ ~Redeems(t)

\* The bound realm forgets to ask at a refresh.
FaultyMayKeep(r, t) == TRUE

\* get_user() of the realm's rotation policy: is the subject let through?
MayKeep(r, t) == r.bound => Stamped(t)

\* A refused subject whose session is left alone.
FaultyRefused(r, t) == IF Reused(t) THEN over \cup {t.session} ELSE over

\* What a token that is turned away at a refresh does to the store: a subject
\* that is refused ends its session, and so does a replay outside the window.
Refused(r, t) ==
    IF ~MayKeep(r, t) \/ Reused(t) THEN over \cup {t.session} ELSE over

Burnt(t) == IF Reused(t) THEN over \cup {t.session} ELSE over

-----------------------------------------------------------------------------
(* The endpoints of a realm.                                               *)

\* TokenObtainView: parser_classes lets no form of another site in.
Login(q, r) ==
    \/ /\ q.who = "elsewhere"
       /\ Answer(q, r, "login", 415, None)
       /\ UNCHANGED <<ledger, window, held, events>>
    \/ /\ q.who # "elsewhere"
       /\ \E s \in Sessions :
             /\ began[s] = None
             /\ began' = [began EXCEPT ![s] = r]
             /\ claims' = [claims EXCEPT ![s] = <<r.bound>>]
             /\ LET t == [session |-> s, n |-> 1]
                IN  /\ Answer(q, r, "login", 200, t)
                    /\ Respond(Stores(q, r, [access |-> t, refresh |-> t]))
       /\ UNCHANGED <<over, window>>

\* read_refresh_credential() raises.  With nothing presented, logout answers a
\* realm that sets cookies "Signed out." all the same.
Unread(q, r, to) ==
    LET t == Extract(q, r, "refresh")
    IN  /\ \/ /\ t = None
              /\ Answer(q, r, to,
                        IF to = "logout" /\ r.cookies # None THEN 200 ELSE 401, None)
              /\ Respond(Cleared(q, r))
           \/ /\ t # None /\ Ambient(q, r, "refresh") /\ ~q.proved
              /\ Answer(q, r, to, 403, t)
              /\ UNCHANGED <<held, events>>
        /\ UNCHANGED <<ledger, window>>

\* read_refresh_credential() returns t: the origin is proven.
Reads(q, r, t) ==
    /\ t = Extract(q, r, "refresh") /\ t # None
    /\ Ambient(q, r, "refresh") => q.proved

\* TokenRefreshView: rotate(), and in the window the pair it made before.
Refresh(q, r, t) ==
    /\ Reads(q, r, t)
    /\ \/ /\ MayKeep(r, t) /\ Redeems(t) /\ t.n < MaxRefreshes
          /\ IF Current(t)
               THEN /\ claims' = [claims EXCEPT ![t.session] = Append(@, r.bound)]
                    /\ window' = window \cup {t}
               ELSE UNCHANGED <<claims, window>>
          /\ LET next == [t EXCEPT !.n = @ + 1]
             IN  /\ Answer(q, r, "refresh", 200, next)
                 /\ Respond(Stores(q, r, [access |-> next, refresh |-> next]))
          /\ UNCHANGED over
       \/ /\ ~MayKeep(r, t) \/ ~Redeems(t)
          /\ over' = Refused(r, t)
          /\ Answer(q, r, "refresh", 401, t)
          /\ Respond(Cleared(q, r))
          /\ UNCHANGED <<claims, window>>
    /\ UNCHANGED began

\* A logout that takes every client for one with cookies to clear.
FaultyRefusal(q, r) == 200

\* What logout answers to a token that revoked nothing.
Refusal(q, r) == IF Ambient(q, r, "refresh") THEN 200 ELSE 401

\* LogoutView and LogoutAllView: neither asks get_user().
SignOut(q, r, t, to) ==
    /\ Reads(q, r, t)
    /\ \/ /\ Redeems(t)
          /\ over' = over \cup
                IF to = "logout" THEN {t.session}
                ELSE {s \in Sessions : began[s] # None /\ Owner[s] = Owner[t.session]}
          /\ Answer(q, r, to, 200, t)
       \/ /\ ~Redeems(t)
          /\ over' = Burnt(t)
          /\ Answer(q, r, to, IF to = "logout" THEN Refusal(q, r) ELSE 401, t)
    /\ Respond(Cleared(q, r))
    /\ UNCHANGED <<began, claims, window>>

-----------------------------------------------------------------------------
(* The views, and TokenVerifyView.                                         *)

\* get_authenticators() binds the realm's transport.
Verifier(r) == r

\* authenticate(): extract, verify, CSRF of an unsafe method, the session of a
\* strict class, and the claims of a bound realm's own views.
Status(q, r, to, t) ==
    CASE t = None \/ t \in aged                                  -> 401
      [] to = "write" /\ Ambient(q, r, "access") /\ ~q.proved    -> 403
      [] to # "verify" /\ Strict /\ ~Standing(t)                 -> 401
      [] to # "verify" /\ r.bound /\ ~Stamped(t)                 -> 401
      [] OTHER                                                   -> 200

View(q, r, to) ==
    LET t == Extract(q, IF to = "verify" THEN Verifier(r) ELSE r, "access")
    IN  /\ Answer(q, r, to, Status(q, r, to, t), t)
        /\ UNCHANGED <<ledger, window, held, events>>

Request(q, r) ==
    /\ \/ Login(q, r)
       \/ \E to \in Refreshing : Unread(q, r, to)
       \/ \E t \in Tokens : Refresh(q, r, t)
       \/ \E t \in Tokens, to \in SignOuts : SignOut(q, r, t, to)
       \/ \E to \in Views : View(q, r, to)
    /\ UNCHANGED aged

-----------------------------------------------------------------------------
(* The environment.                                                        *)

\* A script or a person copies the tokens of one place to another.
Carry(a, b) ==
    /\ a # b /\ held[a].refresh # None
    /\ Event
    /\ held' = [held EXCEPT ![b] = held[a]]
    /\ UNCHANGED <<ledger, window, aged>>
    /\ answer' = None

\* An access token's lifetime passes, and its cookie goes with it.
Age ==
    /\ Event
    /\ aged' = {t \in Tokens : Minted(t)}
    /\ held' = [p \in Places |->
                  IF p = Pocket THEN held[p] ELSE [held[p] EXCEPT !.access = None]]
    /\ UNCHANGED <<ledger, window>>
    /\ answer' = None

\* A grace entry runs out, or the cache loses it.
Elapse(t) ==
    /\ t \in window
    /\ Event
    /\ window' = window \ {t}
    /\ UNCHANGED <<ledger, aged, held>>
    /\ answer' = None

Next ==
    \/ \E r \in Realms : \E q \in Requests(r) : Request(q, r)
    \/ \E a, b \in Places : Carry(a, b)
    \/ Age
    \/ \E t \in Tokens : Elapse(t)

Spec == Init /\ [][Next]_vars

-----------------------------------------------------------------------------

\* A bound realm's views serve only sessions that were opened at a bound realm:
\* not ones refreshed there, replayed there in another's grace window, or copied.
BoundViews ==
    answer # None /\ answer.to \in {"read", "write"} /\ answer.status = 200
    /\ answer.realm.bound
        => began[answer.shown.session].bound

\* A refresh token that a realm answers 401 to no longer works, there or at any
\* other realm.
RefusedIsDead ==
    answer # None /\ answer.to \in Refreshing /\ answer.status = 401
    /\ answer.shown # None
        => ~Redeems(answer.shown)

\* A form of another site changes nothing: it opens, refreshes, burns or ends no
\* session, leaves the cookies alone, and is not served by an unsafe method.
NothingFromElsewhere ==
    [][answer' # None /\ answer'.who = "elsewhere" =>
          /\ UNCHANGED <<ledger, window, held>>
          /\ answer'.to = "write" => answer'.status # 200]_vars

\* A client that presents its token in a header is told "Signed out." only when
\* that very request has ended the session.
HeaderSignOutIsReal ==
    [][answer' # None /\ answer'.to \in SignOuts /\ answer'.status = 200
       /\ answer'.shown # None /\ answer'.who = "app"
          => /\ answer'.shown.session \notin over
             /\ answer'.shown.session \in over']_vars

\* verify speaks of the session that the same client's refresh at that realm
\* would renew.  (A hybrid realm reads either of two places, token by token.)
OneCredential ==
    answer # None /\ answer.to = "verify" /\ answer.status = 200
    /\ ~(answer.realm.header /\ answer.realm.cookies # None)
        => held[PlaceOf(answer.realm)].refresh # None
           /\ held[PlaceOf(answer.realm)].refresh.session = answer.shown.session

\* "get_claims puts {"realm": "staff"} in both tokens, at login and at every
\* refresh at this realm."
StampedAtEveryRefresh ==
    answer # None /\ answer.to \in {"login", "refresh"} /\ answer.status = 200
    /\ answer.realm.bound
        => Stamped(answer.shown)
=============================================================================
