---------------------------- MODULE RealmsProofs ----------------------------
(***************************************************************************)
(* What Realms promises for every set of realms, bound or not, whatever    *)
(* their transports and cookies, for every number of sessions and users,   *)
(* and however tokens are copied.                                          *)
(***************************************************************************)
EXTENDS Realms, TLAPS

\* Only a session opened at a bound realm ever bears the stamp; a session that
\* has a token was opened; and the two tokens of a place are of one session.
Stamps   == \A s \in Sessions : \A n \in 1 .. Len(claims[s]) :
               claims[s][n] => began[s] # None /\ began[s].bound
Opened   == \A s \in Sessions : Len(claims[s]) > 0 => began[s] # None
Together == \A p \in Places : held[p].access # None =>
               /\ held[p].refresh # None
               /\ held[p].refresh.session = held[p].access.session

IInv == TypeOK /\ Stamps /\ Opened /\ Together

\* What TypeOK says of the places, of a given state of them.
HeldMinted(h) == \A p \in Places : \A t \in {h[p].access, h[p].refresh} \ {None} :
                    Minted(t)
HeldTogether(h) == \A p \in Places : h[p].access # None =>
                      h[p].refresh # None /\ h[p].refresh.session = h[p].access.session

-----------------------------------------------------------------------------
(* The transports.                                                         *)

\* What a request presents is a token that was minted.
LEMMA Presented ==
    ASSUME TypeOK, NEW r \in Realms, NEW q, NEW kind \in {"access", "refresh"},
           Extract(q, r, kind) # None
    PROVE  Extract(q, r, kind) \in Tokens /\ Minted(Extract(q, r, kind))
<1>1. \A p \in Places : held[p][kind] # None =>
         held[p][kind] \in Tokens /\ Minted(held[p][kind])
  <2> SUFFICES ASSUME NEW p \in Places, held[p][kind] # None
               PROVE  held[p][kind] \in Tokens /\ Minted(held[p][kind])
    OBVIOUS
  <2>1. held[p] \in Pairs
    BY DEF TypeOK
  <2>2. held[p][kind] \in Tokens \cup {None}
    BY <2>1 DEF Pairs
  <2>3. held[p][kind] \in {held[p].access, held[p].refresh} \ {None}
    OBVIOUS
  <2> QED BY <2>2, <2>3 DEF TypeOK
<1>2. Pocket \in Places /\ (r.cookies # None => r.cookies \in Places)
  BY RealmAssumption DEF Places
<1> QED BY <1>1, <1>2 DEF Extract, Cookie, Bearer

\* A response changes one place at most, and to the pair it hands out.
LEMMA StoresOne ==
    ASSUME TypeOK, NEW r \in Realms, NEW q, NEW pair \in Pairs
    PROVE  /\ Stores(q, r, pair) \in [Places -> Pairs]
           /\ \A p \in Places : Stores(q, r, pair)[p] \in {held[p], pair}
<1>1. PlaceOf(r) \in Places
  BY RealmAssumption DEF PlaceOf, Places
<1> QED BY <1>1 DEF TypeOK, Stores

LEMMA NobodyPair == Nobody \in Pairs /\ Nobody.access = None /\ Nobody.refresh = None
  BY DEF Nobody, Pairs

\* Clearing leaves a place as it is or empties it.
LEMMA ClearedOne ==
    ASSUME TypeOK, NEW r \in Realms, NEW q
    PROVE  /\ Cleared(q, r) \in [Places -> Pairs]
           /\ \A p \in Places : Cleared(q, r)[p] \in {held[p], Nobody}
  BY StoresOne, NobodyPair DEF Cleared, TypeOK

\* The client takes the response or it does not.
LEMMA Taken ==
    ASSUME TypeOK, NEW new \in [Places -> Pairs], Respond(new)
    PROVE  held' \in {held, new} /\ held' \in [Places -> Pairs] /\ events' \in 0 .. MaxEvents
  BY BoundAssumption DEF TypeOK, Respond, Event

\* A form of another site has no bearer token, and what it presents is ambient.
LEMMA FormIsAmbient ==
    ASSUME NEW r, NEW q \in Requests(r), q.who = "elsewhere", NEW kind,
           Extract(q, r, kind) # None
    PROVE  Ambient(q, r, kind) /\ ~q.proved
<1>1. q \notin [who : {"page"}, carries : {TRUE}, bearer : {FALSE, r.header},
                 proved : {FALSE, r.cookies # None}]
  OBVIOUS
<1>2. q \notin [who : {"app"}, carries : {FALSE}, bearer : {r.header},
                 proved : {FALSE}]
  OBVIOUS
<1>3. q \in [who : {"elsewhere"}, carries : {FALSE, CrossSite}, bearer : {FALSE},
               proved : {FALSE}]
  BY <1>1, <1>2, Zenon DEF Requests
<1>4. q.bearer = FALSE /\ q.proved = FALSE
  BY <1>3
<1> QED BY <1>4 DEF Extract, Cookie, Bearer, Ambient

\* A form of another site is never read as a refresh credential.
LEMMA FormUnread ==
    ASSUME NEW r, NEW q \in Requests(r), q.who = "elsewhere", NEW t
    PROVE  ~Reads(q, r, t)
  BY FormIsAmbient DEF Reads

-----------------------------------------------------------------------------
(* A form of another site changes nothing.                                 *)

\* One request from elsewhere: it is never read, it clears nothing, and an
\* unsafe view refuses it.
LEMMA FormStep ==
    ASSUME NEW r, NEW q \in Requests(r), Request(q, r), answer'.who = "elsewhere"
    PROVE  /\ UNCHANGED <<ledger, window, held>>
           /\ answer'.to = "write" => answer'.status # 200
<1>1. q.who = "elsewhere"
  <2>1. \A to, status, shown : Answer(q, r, to, status, shown) => answer'.who = q.who
    BY DEF Answer
  <2>2. CASE Login(q, r)
    BY <2>1, <2>2 DEF Login
  <2>3. ASSUME NEW to \in Refreshing, Unread(q, r, to) PROVE answer'.who = q.who
    BY <2>1, <2>3 DEF Unread
  <2>4. ASSUME NEW t \in Tokens, Refresh(q, r, t) PROVE answer'.who = q.who
    BY <2>1, <2>4 DEF Refresh
  <2>5. ASSUME NEW t \in Tokens, NEW to \in SignOuts, SignOut(q, r, t, to)
        PROVE  answer'.who = q.who
    BY <2>1, <2>5 DEF SignOut
  <2>6. ASSUME NEW to \in Views, View(q, r, to) PROVE answer'.who = q.who
    BY <2>1, <2>6 DEF View
  <2> QED BY <2>2, <2>3, <2>4, <2>5, <2>6 DEF Request
<1>2. CASE Login(q, r)
  BY <1>1, <1>2 DEF Login, Answer
<1>3. ASSUME NEW to \in Refreshing, Unread(q, r, to)
      PROVE  /\ UNCHANGED <<ledger, window, held>>
             /\ answer'.to = "write" => answer'.status # 200
  <2>1. answer'.to # "write"
    BY <1>3 DEF Unread, Answer, Refreshing, SignOuts
  <2>2. Extract(q, r, "refresh") = None => Cleared(q, r) = held
    BY DEF Cleared
  <2> QED BY <1>3, <2>1, <2>2 DEF Unread, Respond
<1>4. ~ \E t \in Tokens : Refresh(q, r, t)
  BY <1>1, FormUnread DEF Refresh
<1>5. ~ \E t \in Tokens, to \in SignOuts : SignOut(q, r, t, to)
  BY <1>1, FormUnread DEF SignOut
<1>6. ASSUME NEW to \in Views, View(q, r, to)
      PROVE  /\ UNCHANGED <<ledger, window, held>>
             /\ answer'.to = "write" => answer'.status # 200
  <2>1. UNCHANGED <<ledger, window, held>> /\ answer'.to = to
    BY <1>6 DEF View, Answer
  <2>2. ASSUME to = "write" PROVE answer'.status # 200
    <3> DEFINE t == Extract(q, r, "access")
    <3>1. answer'.status = Status(q, r, to, t)
      BY <1>6, <2>2 DEF View, Answer
    <3>2. CASE t = None
      BY <3>1, <3>2 DEF Status
    <3>3. CASE t # None
      <4>1. Ambient(q, r, "access") /\ ~q.proved
        BY <1>1, <3>3, FormIsAmbient
      <4> QED BY <3>1, <4>1, <2>2 DEF Status
    <3> QED BY <3>2, <3>3
  <2> QED BY <2>1, <2>2
<1> QED BY <1>2, <1>3, <1>4, <1>5, <1>6 DEF Request

\* A form of another site changes nothing, in whatever realm and whether or not
\* the browser lets it carry cookies.
THEOREM FormsChangeNothing == Spec => NothingFromElsewhere
<1>1. ASSUME [Next]_vars
      PROVE  [answer' # None /\ answer'.who = "elsewhere" =>
                 /\ UNCHANGED <<ledger, window, held>>
                 /\ answer'.to = "write" => answer'.status # 200]_vars
  <2>1. CASE \E r \in Realms : \E q \in Requests(r) : Request(q, r)
    BY <2>1, FormStep
  <2>2. CASE \E a, b \in Places : Carry(a, b)
    BY <2>2 DEF Carry
  <2>3. CASE Age
    BY <2>3 DEF Age
  <2>4. CASE \E t \in Tokens : Elapse(t)
    BY <2>4 DEF Elapse
  <2> QED BY <1>1, <2>1, <2>2, <2>3, <2>4 DEF Next
<1> QED BY <1>1, PTL DEF Spec, NothingFromElsewhere

-----------------------------------------------------------------------------
(* The inductive invariant.                                                *)

\* The places of the next state, each as it was, emptied or given a new pair.
LEMMA PlacesNext ==
    ASSUME IInv, NEW new \in Pairs, held' \in [Places -> Pairs],
           \A p \in Places : held'[p] \in {held[p], Nobody, new},
           \A t \in Tokens : Minted(t) => Minted(t)',
           new.access # None => Minted(new.access)',
           new.refresh # None => Minted(new.refresh)',
           new.access # None =>
              new.refresh # None /\ new.refresh.session = new.access.session
    PROVE  HeldMinted(held)' /\ Together'
<1>1. ASSUME NEW p \in Places
      PROVE  /\ \A t \in {held'[p].access, held'[p].refresh} \ {None} : Minted(t)'
             /\ held'[p].access # None =>
                   /\ held'[p].refresh # None
                   /\ held'[p].refresh.session = held'[p].access.session
  <2>1. CASE held'[p] = held[p]
    <3>1. held[p].access \in Tokens \cup {None} /\ held[p].refresh \in Tokens \cup {None}
      BY DEF IInv, TypeOK, Pairs
    <3>2. \A t \in {held[p].access, held[p].refresh} \ {None} : t \in Tokens /\ Minted(t)
      BY <3>1 DEF IInv, TypeOK
    <3> QED BY <2>1, <3>2 DEF IInv, Together
  <2>2. CASE held'[p] = Nobody
    BY <2>2, NobodyPair
  <2>3. CASE held'[p] = new
    BY <2>3
  <2> QED BY <1>1, <2>1, <2>2, <2>3
<1> QED BY <1>1 DEF HeldMinted, Together

LEMMA InitInv == Init => IInv
<1> SUFFICES ASSUME Init PROVE IInv
  OBVIOUS
<1>1. \A s \in Sessions : claims[s] = <<>> /\ Len(claims[s]) = 0
  BY DEF Init
<1>2. \A p \in Places : held[p].access = None /\ held[p].refresh = None
  BY NobodyPair DEF Init
<1>3. TypeOK
  BY <1>1, <1>2, NobodyPair, BoundAssumption DEF Init, TypeOK
<1> QED BY <1>1, <1>2, <1>3 DEF Init, IInv, Stamps, Opened, Together

\* An answer of any endpoint has its type.
LEMMA Answered ==
    ASSUME NEW r \in Realms, NEW q \in Requests(r), NEW to \in Endpoints,
           NEW status \in {200, 401, 403, 415}, NEW shown \in Tokens \cup {None},
           Answer(q, r, to, status, shown)
    PROVE  answer' \in Answers
<1>1. q.who \in {"page", "app", "elsewhere"}
  <2>1. CASE q \in [who : {"page"}, carries : {TRUE}, bearer : {FALSE, r.header},
                    proved : {FALSE, r.cookies # None}]
    BY <2>1
  <2>2. CASE q \in [who : {"app"}, carries : {FALSE}, bearer : {r.header},
                    proved : {FALSE}]
    BY <2>2
  <2>3. CASE q \in [who : {"elsewhere"}, carries : {FALSE, CrossSite},
                    bearer : {FALSE}, proved : {FALSE}]
    BY <2>3
  <2> QED BY <2>1, <2>2, <2>3 DEF Requests
<1> QED BY <1>1 DEF Answer, Answers

\* A response that opens no session and mints no pair: a place may be emptied.
LEMMA Settled ==
    ASSUME IInv, NEW r \in Realms, NEW q, Respond(Cleared(q, r)),
           UNCHANGED <<began, claims, window, aged>>,
           over' \in SUBSET Sessions, answer' \in Answers
    PROVE  IInv'
<1>1. held' \in [Places -> Pairs] /\ events' \in 0 .. MaxEvents
      /\ \A p \in Places : held'[p] \in {held[p], Nobody}
  BY ClearedOne, Taken DEF IInv
<1>2. \A t \in Tokens : Minted(t) => Minted(t)'
  BY DEF Minted
<1>3. HeldMinted(held)' /\ Together'
  BY <1>1, <1>2, NobodyPair, PlacesNext
<1>4. TypeOK'
  BY <1>1, <1>3 DEF IInv, TypeOK, HeldMinted
<1> QED BY <1>3, <1>4 DEF IInv, Stamps, Opened

LEMMA LoginInv ==
    ASSUME IInv, NEW r \in Realms, NEW q \in Requests(r), Login(q, r), UNCHANGED aged
    PROVE  IInv'
<1>1. CASE q.who = "elsewhere"
  <2>1. answer' \in Answers /\ UNCHANGED <<ledger, window, held, events>>
    BY <1>1, Answered DEF Login, Endpoints, Tokens
  <2>2. TypeOK'
    BY <2>1 DEF IInv, TypeOK, ledger, Minted
  <2> QED BY <2>1, <2>2 DEF IInv, Stamps, Opened, Together, ledger
<1>2. CASE q.who # "elsewhere"
  <2> DEFINE T(s) == [session |-> s, n |-> 1]
             P(s) == [access |-> T(s), refresh |-> T(s)]
  <2>1. PICK s \in Sessions :
           /\ began[s] = None
           /\ began' = [began EXCEPT ![s] = r]
           /\ claims' = [claims EXCEPT ![s] = <<r.bound>>]
           /\ Answer(q, r, "login", 200, T(s))
           /\ Respond(Stores(q, r, P(s)))
           /\ UNCHANGED <<over, window>>
    BY <1>2 DEF Login
  <2>2. T(s) \in Tokens /\ P(s) \in Pairs
    BY BoundAssumption DEF Tokens, Pairs
  <2>3. answer' \in Answers
    BY <2>1, <2>2, Answered DEF Endpoints
  <2>4. r.bound \in BOOLEAN
    BY RealmAssumption
  <2>5. /\ began' \in [Sessions -> Realms \cup {None}]
        /\ claims' \in [Sessions -> Seq(BOOLEAN)]
        /\ began'[s] = r /\ claims'[s] = <<r.bound>> /\ Len(claims'[s]) = 1
        /\ \A u \in Sessions \ {s} : began'[u] = began[u] /\ claims'[u] = claims[u]
    BY <2>1, <2>4 DEF IInv, TypeOK
  <2>6. Len(claims[s]) = 0
    <3>1. Len(claims[s]) \in Nat /\ ~(Len(claims[s]) > 0)
      BY <2>1 DEF IInv, TypeOK, Opened
    <3> QED BY <3>1
  <2>7. \A t \in Tokens : Minted(t) => Minted(t)'
    BY <2>5, <2>6 DEF Minted, Tokens
  <2>8. Minted(T(s))'
    <3>1. T(s).n = 1 /\ T(s).session = s
      OBVIOUS
    <3>2. 1 \in 1 .. Len(claims'[s])
      BY <2>5
    <3> QED BY <3>1, <3>2 DEF Minted
  <2>9. held' \in [Places -> Pairs] /\ events' \in 0 .. MaxEvents
        /\ \A p \in Places : held'[p] \in {held[p], P(s)}
    BY <2>1, <2>2, StoresOne, Taken DEF IInv
  <2>10. HeldMinted(held)' /\ Together'
    <3> HIDE DEF T
    <3>1. P(s).access = T(s) /\ P(s).refresh = T(s)
      OBVIOUS
    <3> HIDE DEF P
    <3> QED BY <2>2, <2>7, <2>8, <2>9, <3>1, PlacesNext
  <2>11. TypeOK'
    BY <2>1, <2>3, <2>5, <2>9, <2>10, BoundAssumption
       DEF IInv, TypeOK, HeldMinted
  <2>12. Stamps'
    <3> SUFFICES ASSUME NEW u \in Sessions, NEW n \in 1 .. Len(claims'[u]), claims'[u][n]
                 PROVE  began'[u] # None /\ began'[u].bound
      BY DEF Stamps
    <3>1. CASE u = s
      <4>1. began[s] = None /\ r # None /\ n = 1
        BY <2>1, <2>5, <3>1, PlaceAssumption
      <4> QED BY <2>5, <3>1, <4>1
    <3>2. CASE u # s
      BY <2>5, <3>2 DEF IInv, Stamps
    <3> QED BY <3>1, <3>2
  <2>13. Opened'
    BY <2>5, PlaceAssumption DEF IInv, Opened
  <2> QED BY <2>10, <2>11, <2>12, <2>13 DEF IInv
<1> QED BY <1>1, <1>2

LEMMA UnreadInv ==
    ASSUME IInv, NEW r \in Realms, NEW q \in Requests(r), NEW to \in Refreshing,
           Unread(q, r, to), UNCHANGED aged
    PROVE  IInv'
<1> DEFINE t == Extract(q, r, "refresh")
<1>1. \/ UNCHANGED <<ledger, window>> /\ Respond(Cleared(q, r))
      \/ UNCHANGED <<ledger, window, held, events>>
  BY DEF Unread
<1>2. answer' \in Answers
  <2>1. to \in Endpoints
    BY DEF Endpoints
  <2>2. CASE t = None
    BY <2>1, <2>2, Answered DEF Unread
  <2>3. CASE t # None
    <3>1. t \in Tokens
      BY <2>3, Presented DEF IInv
    <3> QED BY <2>1, <2>3, <3>1, Answered DEF Unread
  <2> QED BY <2>2, <2>3
<1>3. CASE UNCHANGED ledger /\ UNCHANGED window /\ Respond(Cleared(q, r))
  BY <1>2, <1>3, Settled DEF IInv, TypeOK, ledger
<1>4. CASE UNCHANGED <<ledger, window, held, events>>
  <2>1. TypeOK'
    BY <1>2, <1>4 DEF IInv, TypeOK, ledger, Minted
  <2> QED BY <1>4, <2>1 DEF IInv, Stamps, Opened, Together, ledger
<1> QED BY <1>1, <1>3, <1>4

LEMMA ViewInv ==
    ASSUME IInv, NEW r \in Realms, NEW q \in Requests(r), NEW to \in Views,
           View(q, r, to), UNCHANGED aged
    PROVE  IInv'
<1> DEFINE t == Extract(q, r, "access")
<1>1. /\ Answer(q, r, to, Status(q, r, to, t), t)
      /\ UNCHANGED <<ledger, window, held, events>>
  BY DEF View, Verifier
<1>2. t \in Tokens \cup {None}
  BY Presented DEF IInv
<1>3. Status(q, r, to, t) \in {200, 401, 403, 415}
  BY DEF Status
<1>4. to \in Endpoints
  BY DEF Endpoints
<1>5. answer' \in Answers
  BY <1>1, <1>2, <1>3, <1>4, Answered
<1>6. TypeOK'
  BY <1>1, <1>5 DEF IInv, TypeOK, ledger, Minted
<1> QED BY <1>1, <1>6 DEF IInv, Stamps, Opened, Together, ledger

LEMMA SignOutInv ==
    ASSUME IInv, NEW r \in Realms, NEW q \in Requests(r), NEW t \in Tokens,
           NEW to \in SignOuts, SignOut(q, r, t, to), UNCHANGED aged
    PROVE  IInv'
<1>1. to \in Endpoints /\ Refusal(q, r) \in {200, 401}
  BY DEF Endpoints, Refreshing, Refusal
<1>2. answer' \in Answers
  BY <1>1, Answered DEF SignOut
<1>3. t.session \in Sessions
  BY DEF Tokens
<1>4. over' \in SUBSET Sessions
  BY <1>3 DEF SignOut, Burnt, IInv, TypeOK
<1> QED BY <1>2, <1>4, Settled DEF SignOut

LEMMA RefreshInv ==
    ASSUME IInv, NEW r \in Realms, NEW q \in Requests(r), NEW t \in Tokens,
           Refresh(q, r, t), UNCHANGED aged
    PROVE  IInv'
<1> DEFINE s    == t.session
           next == [t EXCEPT !.n = @ + 1]
           pair == [access |-> next, refresh |-> next]
<1>1. s \in Sessions /\ t.n \in 1 .. MaxRefreshes
  BY DEF Tokens
<1>2. "refresh" \in Endpoints
  BY DEF Endpoints, Refreshing
<1>3. CASE ~MayKeep(r, t) \/ ~Redeems(t)
  <2>1. answer' \in Answers
    BY <1>2, <1>3, Answered DEF Refresh
  <2>2. over' \in SUBSET Sessions
    BY <1>1, <1>3 DEF Refresh, Refused, IInv, TypeOK
  <2> QED BY <1>3, <2>1, <2>2, Settled DEF Refresh
<1>4. CASE MayKeep(r, t) /\ Redeems(t)
  <2>1. /\ t.n < MaxRefreshes
        /\ IF Current(t)
             THEN /\ claims' = [claims EXCEPT ![s] = Append(@, r.bound)]
                  /\ window' = window \cup {t}
             ELSE UNCHANGED <<claims, window>>
        /\ Answer(q, r, "refresh", 200, next)
        /\ Respond(Stores(q, r, pair))
        /\ UNCHANGED <<over, began>>
    BY <1>4 DEF Refresh
  <2>2. next.n = t.n + 1 /\ next.session = s /\ next \in Tokens
    BY <1>1, <2>1, BoundAssumption DEF Tokens
  <2>3. pair \in Pairs /\ pair.access = next /\ pair.refresh = next
    BY <2>2 DEF Pairs
  <2>4. answer' \in Answers
    BY <1>2, <2>1, <2>2, Answered
  <2>5. Minted(t)
    BY Presented DEF Refresh, Reads, IInv
  <2>6. claims[s] \in Seq(BOOLEAN) /\ r.bound \in BOOLEAN /\ Len(claims[s]) \in Nat
    BY <1>1, RealmAssumption DEF IInv, TypeOK
  <2>7. CASE Current(t)
    <3>1. /\ claims' \in [Sessions -> Seq(BOOLEAN)]
          /\ claims'[s] = Append(claims[s], r.bound)
          /\ \A u \in Sessions \ {s} : claims'[u] = claims[u]
      <4>1. claims' = [claims EXCEPT ![s] = Append(claims[s], r.bound)]
        BY <2>1, <2>7
      <4>2. Append(claims[s], r.bound) \in Seq(BOOLEAN)
        BY <2>6
      <4> QED BY <1>1, <4>1, <4>2 DEF IInv, TypeOK
    <3>2. Len(claims'[s]) = Len(claims[s]) + 1 /\ t.n = Len(claims[s])
      BY <2>6, <2>7, <3>1 DEF Current
    <3>3. \A u \in Tokens : Minted(u) => Minted(u)'
      BY <2>6, <3>1, <3>2 DEF Minted, Tokens
    <3>4. Minted(next)'
      BY <2>2, <2>6, <3>2 DEF Minted
    <3>5. held' \in [Places -> Pairs] /\ events' \in 0 .. MaxEvents
          /\ \A p \in Places : held'[p] \in {held[p], pair}
      BY <2>1, <2>3, StoresOne, Taken DEF IInv
    <3>6. HeldMinted(held)' /\ Together'
      <4> HIDE DEF next, pair
      <4> QED BY <2>2, <2>3, <3>3, <3>4, <3>5, PlacesNext
    <3>7. \A u \in Sessions : Len(claims'[u]) <= MaxRefreshes
      <4>1. Len(claims'[s]) <= MaxRefreshes
        BY <1>1, <2>1, <2>6, <3>2, BoundAssumption
      <4> QED BY <3>1, <4>1 DEF IInv, TypeOK
    <3>8. TypeOK'
      BY <2>1, <2>4, <2>7, <3>1, <3>5, <3>6, <3>7 DEF IInv, TypeOK, HeldMinted
    <3>9. Stamps'
      <4> SUFFICES ASSUME NEW u \in Sessions, NEW n \in 1 .. Len(claims'[u]),
                          claims'[u][n]
                   PROVE  began[u] # None /\ began[u].bound
        BY <2>1 DEF Stamps
      <4>1. /\ claims'[s][Len(claims[s]) + 1] = r.bound
            /\ \A m \in 1 .. Len(claims[s]) : claims'[s][m] = claims[s][m]
        <5> DEFINE c == claims[s]
        <5>1. c \in Seq(BOOLEAN) /\ claims'[s] = Append(c, r.bound)
          BY <2>6, <3>1
        <5> HIDE DEF c
        <5>2. /\ Append(c, r.bound)[Len(c) + 1] = r.bound
              /\ \A m \in 1 .. Len(c) : Append(c, r.bound)[m] = c[m]
          BY <2>6, <5>1
        <5> QED BY <5>1, <5>2 DEF c
      <4>2. CASE u = s /\ n = Len(claims[s]) + 1
        <5>1. claims'[u][n] = r.bound
          BY <4>2, <4>1
        <5>2. claims[s][t.n]
          BY <1>4, <5>1 DEF MayKeep, Stamped
        <5> QED BY <1>1, <2>5, <4>2, <5>2 DEF IInv, Stamps, Minted
      <4>3. CASE u = s /\ n # Len(claims[s]) + 1
        <5>1. n \in 1 .. Len(claims[s]) /\ claims'[u][n] = claims[s][n]
          <6>1. n \in 1 .. Len(claims[s])
            BY <2>6, <3>2, <4>3
          <6> QED BY <4>1, <4>3, <6>1
        <5> QED BY <1>1, <4>3, <5>1 DEF IInv, Stamps
      <4>4. CASE u # s
        BY <3>1, <4>4 DEF IInv, Stamps
      <4> QED BY <4>2, <4>3, <4>4
    <3>10. Opened'
      <4>1. began[s] # None
        BY <1>1, <2>5, <2>6 DEF IInv, Opened, Minted
      <4> QED BY <2>1, <3>1, <4>1 DEF IInv, Opened
    <3> QED BY <3>6, <3>8, <3>9, <3>10 DEF IInv
  <2>8. CASE ~Current(t)
    <3>1. UNCHANGED <<claims, window>>
      BY <2>1, <2>8
    <3>2. \A u \in Tokens : Minted(u) => Minted(u)'
      BY <3>1 DEF Minted
    <3>3. Minted(next)'
      <4>1. t.n < Len(claims[s])
        BY <1>4, <2>8 DEF Redeems, Replayed
      <4> QED BY <1>1, <2>2, <2>6, <3>1, <4>1, BoundAssumption DEF Minted
    <3>4. held' \in [Places -> Pairs] /\ events' \in 0 .. MaxEvents
          /\ \A p \in Places : held'[p] \in {held[p], pair}
      BY <2>1, <2>3, StoresOne, Taken DEF IInv
    <3>5. HeldMinted(held)' /\ Together'
      <4> HIDE DEF next, pair
      <4> QED BY <2>2, <2>3, <3>2, <3>3, <3>4, PlacesNext
    <3>6. TypeOK'
      BY <2>1, <2>4, <3>1, <3>4, <3>5 DEF IInv, TypeOK, HeldMinted
    <3> QED BY <2>1, <3>1, <3>5, <3>6 DEF IInv, Stamps, Opened
  <2> QED BY <2>7, <2>8
<1> QED BY <1>3, <1>4

\* A copy, a lifetime that passes and a grace entry that is lost.
LEMMA EnvironmentInv ==
    ASSUME IInv,
           \/ \E a, b \in Places : Carry(a, b)
           \/ Age
           \/ \E t \in Tokens : Elapse(t)
    PROVE  IInv'
<1>1. UNCHANGED ledger /\ answer' = None /\ events' \in 0 .. MaxEvents
      /\ window' \in SUBSET Tokens
  BY BoundAssumption DEF IInv, TypeOK, Carry, Age, Elapse, Event
<1>2. /\ held' \in [Places -> Pairs]
      /\ aged' \in SUBSET Tokens
      /\ \A p \in Places : \E o \in Places :
            \/ held'[p] = held[o]
            \/ held'[p].access = None /\ held'[p].refresh = held[o].refresh
  <2>1. CASE \E a, b \in Places : Carry(a, b)
    BY <2>1 DEF IInv, TypeOK, Carry
  <2>2. CASE Age
    <3>1. \A p \in Places :
             /\ [held[p] EXCEPT !.access = None] \in Pairs
             /\ [held[p] EXCEPT !.access = None].access = None
             /\ [held[p] EXCEPT !.access = None].refresh = held[p].refresh
      BY DEF IInv, TypeOK, Pairs
    <3> QED BY <2>2, <3>1 DEF IInv, TypeOK, Age
  <2>3. CASE \E t \in Tokens : Elapse(t)
    BY <2>3 DEF IInv, TypeOK, Elapse
  <2> QED BY <2>1, <2>2, <2>3
<1>3. HeldMinted(held)'
  BY <1>1, <1>2 DEF IInv, TypeOK, HeldMinted, Minted, ledger
<1>4. Together'
  BY <1>2 DEF IInv, Together
<1>5. TypeOK'
  BY <1>1, <1>2, <1>3 DEF IInv, TypeOK, HeldMinted, ledger
<1> QED BY <1>1, <1>4, <1>5 DEF IInv, Stamps, Opened, ledger

LEMMA NextInv == IInv /\ [Next]_vars => IInv'
<1> SUFFICES ASSUME IInv, [Next]_vars PROVE IInv'
  OBVIOUS
<1>1. CASE \E r \in Realms : \E q \in Requests(r) : Request(q, r)
  BY <1>1, LoginInv, UnreadInv, RefreshInv, SignOutInv, ViewInv DEF Request
<1>2. CASE UNCHANGED vars
  <2>1. TypeOK'
    BY <1>2 DEF IInv, TypeOK, vars, ledger, Minted
  <2> QED BY <1>2, <2>1 DEF IInv, Stamps, Opened, Together, vars, ledger
<1> QED BY <1>1, <1>2, EnvironmentInv DEF Next

LEMMA Invariance == Spec => []IInv
<1> QED BY InitInv, NextInv, PTL DEF Spec

\* Every variable keeps its type, and no place holds a token that was not minted.
THEOREM TypesKept == Spec => []TypeOK
<1>1. IInv => TypeOK
  BY DEF IInv
<1> QED BY <1>1, Invariance, PTL

-----------------------------------------------------------------------------
(* What the answers say.                                                   *)

\* Only a request of a realm leaves an answer.
LEMMA OnlyRequestsAnswer ==
    ASSUME \/ \E a, b \in Places : Carry(a, b)
           \/ Age
           \/ \E t \in Tokens : Elapse(t)
    PROVE  answer' = None
  BY DEF Carry, Age, Elapse

LEMMA LoginAnswers ==
    ASSUME NEW r, NEW q, Login(q, r)
    PROVE  answer'.to = "login"
<1>1. CASE q.who = "elsewhere"
  BY <1>1 DEF Login, Answer
<1>2. CASE q.who # "elsewhere"
  <2>1. PICK s \in Sessions : Answer(q, r, "login", 200, [session |-> s, n |-> 1])
    BY <1>2 DEF Login
  <2> QED BY <2>1 DEF Answer
<1> QED BY <1>1, <1>2

\* An answer of a view comes from one.
LEMMA ViewAnswer ==
    ASSUME IInv, NEW r \in Realms, NEW q \in Requests(r), Request(q, r),
           answer'.to \in Views
    PROVE  \E to \in Views : View(q, r, to) /\ answer'.to = to
<1>1. \A to, status, shown : Answer(q, r, to, status, shown) => answer'.to = to
  BY DEF Answer
<1>2. ~Login(q, r)
  BY LoginAnswers DEF Views
<1>3. \A to \in Refreshing : ~Unread(q, r, to)
  BY <1>1 DEF Unread, Views, Refreshing, SignOuts
<1>4. \A t \in Tokens : ~Refresh(q, r, t)
  BY <1>1 DEF Refresh, Views
<1>5. \A t \in Tokens, to \in SignOuts : ~SignOut(q, r, t, to)
  BY <1>1 DEF SignOut, Views, SignOuts
<1>6. \A to \in Views : View(q, r, to) => answer'.to = to
  BY <1>1 DEF View
<1> QED BY <1>2, <1>3, <1>4, <1>5, <1>6 DEF Request

\* A view of a bound realm that answers 200 was shown a stamped token, and only
\* a session that was opened at a bound realm has any.
LEMMA BoundStep ==
    ASSUME IInv, NEW r \in Realms, NEW q \in Requests(r), Request(q, r)
    PROVE  BoundViews'
<1> SUFFICES ASSUME answer'.to \in {"read", "write"}, answer'.status = 200,
                    answer'.realm.bound
             PROVE  began'[answer'.shown.session].bound
  BY DEF BoundViews
<1> DEFINE t == Extract(q, r, "access")
<1>1. PICK to \in {"read", "write"} : View(q, r, to)
  BY ViewAnswer DEF Views
<1>2. /\ answer' = [to |-> to, who |-> q.who, realm |-> r,
                    status |-> Status(q, r, to, t), shown |-> t]
      /\ UNCHANGED ledger
  BY <1>1 DEF View, Answer
<1>3. Status(q, r, to, t) = 200 /\ r.bound /\ answer'.shown = t
  BY <1>2
<1>4. t # None /\ Stamped(t)
  BY <1>3 DEF Status
<1>5. t \in Tokens /\ Minted(t)
  BY <1>4, Presented DEF IInv
<1>6. began[t.session].bound
  BY <1>4, <1>5 DEF IInv, Stamps, Stamped, Minted, Tokens
<1> QED BY <1>2, <1>3, <1>6 DEF ledger

\* The views of a bound realm serve no session that was opened elsewhere.
THEOREM BoundToTheRealm == Spec => []BoundViews
<1>1. Init => BoundViews
  BY DEF Init, BoundViews
<1>2. IInv /\ BoundViews /\ [Next]_vars => BoundViews'
  <2>1. UNCHANGED vars /\ BoundViews => BoundViews'
    BY DEF BoundViews, vars, ledger
  <2> QED BY <2>1, BoundStep, OnlyRequestsAnswer DEF Next, BoundViews
<1> QED BY <1>1, <1>2, Invariance, PTL DEF Spec

\* A request that is answered 401 leaves the session it named ended.
LEMMA RefusedStep ==
    ASSUME NEW r, NEW q, Request(q, r)
    PROVE  RefusedIsDead'
<1> SUFFICES ASSUME answer'.to \in Refreshing, answer'.status = 401, answer'.shown # None
             PROVE  answer'.shown.session \in over'
  BY DEF RefusedIsDead, Redeems, Current, Replayed, Standing
<1>1. \A to, status, shown : Answer(q, r, to, status, shown) =>
         answer'.to = to /\ answer'.status = status /\ answer'.shown = shown
  BY DEF Answer
<1>2. ~Login(q, r)
  BY LoginAnswers DEF Refreshing, SignOuts
<1>3. \A to \in Refreshing : ~Unread(q, r, to)
  BY <1>1 DEF Unread
<1>4. ASSUME NEW t \in Tokens, Refresh(q, r, t)
      PROVE  answer'.shown.session \in over'
  BY <1>1, <1>4 DEF Refresh, Refused, Reused, Standing
<1>5. ASSUME NEW t \in Tokens, NEW to \in SignOuts, SignOut(q, r, t, to)
      PROVE  answer'.shown.session \in over'
  BY <1>1, <1>5 DEF SignOut, Burnt, Reused, Standing
<1>6. \A to \in Views : ~View(q, r, to)
  BY <1>1 DEF View, Views, Refreshing, SignOuts
<1> QED BY <1>2, <1>3, <1>4, <1>5, <1>6 DEF Request

\* A refresh token that one realm has refused works at none.
THEOREM RefusedEverywhere == Spec => []RefusedIsDead
<1>1. Init => RefusedIsDead
  BY DEF Init, RefusedIsDead
<1>2. RefusedIsDead /\ [Next]_vars => RefusedIsDead'
  <2>1. UNCHANGED vars /\ RefusedIsDead => RefusedIsDead'
    BY DEF RefusedIsDead, Redeems, Current, Replayed, Standing, vars, ledger
  <2> QED BY <2>1, RefusedStep, OnlyRequestsAnswer DEF Next, RefusedIsDead
<1> QED BY <1>1, <1>2, PTL DEF Spec

\* verify names the session of the place its realm's refresh reads.
LEMMA VerifyStep ==
    ASSUME IInv, NEW r \in Realms, NEW q \in Requests(r), Request(q, r)
    PROVE  OneCredential'
<1> SUFFICES ASSUME answer'.to = "verify", answer'.status = 200,
                    ~(answer'.realm.header /\ answer'.realm.cookies # None)
             PROVE  /\ held'[PlaceOf(answer'.realm)].refresh # None
                    /\ held'[PlaceOf(answer'.realm)].refresh.session
                          = answer'.shown.session
  BY DEF OneCredential, PlaceOf
<1> DEFINE t == Extract(q, r, "access")
<1>1. View(q, r, "verify")
  BY ViewAnswer DEF Views
<1>2. /\ answer' = [to |-> "verify", who |-> q.who, realm |-> r,
                    status |-> Status(q, r, "verify", t), shown |-> t]
      /\ held' = held
  BY <1>1 DEF View, Answer, Verifier
<1>3. Status(q, r, "verify", t) = 200 /\ answer'.realm = r /\ answer'.shown = t
  BY <1>2
<1>4. t # None
  BY <1>3 DEF Status
<1>5. t = held[PlaceOf(r)].access
  BY <1>2, <1>3, <1>4 DEF Extract, Cookie, Bearer, PlaceOf
<1>6. PlaceOf(r) \in Places
  BY RealmAssumption DEF PlaceOf, Places
<1> QED BY <1>2, <1>3, <1>4, <1>5, <1>6 DEF IInv, Together

\* verify and refresh of a realm speak of one session.
THEOREM OneSessionEach == Spec => []OneCredential
<1>1. Init => OneCredential
  BY DEF Init, OneCredential
<1>2. IInv /\ OneCredential /\ [Next]_vars => OneCredential'
  <2>1. UNCHANGED vars /\ OneCredential => OneCredential'
    BY DEF OneCredential, PlaceOf, vars
  <2> QED BY <2>1, VerifyStep, OnlyRequestsAnswer DEF Next, OneCredential
<1> QED BY <1>1, <1>2, Invariance, PTL DEF Spec

\* A sign-out an app is told of has ended a session that stood.
LEMMA SignOutStep ==
    ASSUME IInv, NEW r \in Realms, NEW q \in Requests(r), Request(q, r),
           answer'.to \in SignOuts, answer'.status = 200, answer'.shown # None,
           answer'.who = "app"
    PROVE  answer'.shown.session \notin over /\ answer'.shown.session \in over'
<1>1. \A to, status, shown : Answer(q, r, to, status, shown) =>
         /\ answer'.to = to /\ answer'.status = status /\ answer'.shown = shown
         /\ answer'.who = q.who
  BY DEF Answer
<1>2. ~Login(q, r)
  BY LoginAnswers DEF SignOuts
<1>3. \A to \in Refreshing : ~Unread(q, r, to)
  BY <1>1 DEF Unread
<1>4. \A t \in Tokens : ~Refresh(q, r, t)
  BY <1>1 DEF Refresh, SignOuts
<1>5. \A to \in Views : ~View(q, r, to)
  BY <1>1 DEF View, Views, SignOuts
<1>6. PICK t \in Tokens, to \in SignOuts : SignOut(q, r, t, to)
  BY <1>2, <1>3, <1>4, <1>5 DEF Request
<1>7. answer'.shown = t /\ q.who = "app"
  BY <1>1, <1>6 DEF SignOut
<1>8. ~Ambient(q, r, "refresh")
  <2>1. q \notin [who : {"page"}, carries : {TRUE}, bearer : {FALSE, r.header},
                  proved : {FALSE, r.cookies # None}]
    BY <1>7
  <2>2. q \notin [who : {"elsewhere"}, carries : {FALSE, CrossSite},
                  bearer : {FALSE}, proved : {FALSE}]
    BY <1>7
  <2>3. q \in [who : {"app"}, carries : {FALSE}, bearer : {r.header},
               proved : {FALSE}]
    BY <2>1, <2>2, Zenon DEF Requests
  <2>4. q.carries = FALSE /\ q.bearer = r.header
    BY <2>3
  <2>5. Extract(q, r, "refresh") # None
    BY <1>6 DEF SignOut, Reads
  <2> QED BY <2>4, <2>5 DEF Extract, Ambient, Cookie, Bearer
<1>9. Redeems(t)
  BY <1>1, <1>6, <1>8 DEF SignOut, Refusal, SignOuts
<1>10. t.session \notin over
  BY <1>9 DEF Redeems, Current, Replayed, Standing
<1>11. t.session \in Sessions /\ began[t.session] # None
  <2>1. Minted(t)
    BY <1>6, Presented DEF SignOut, Reads, IInv
  <2>2. t.session \in Sessions /\ Len(claims[t.session]) \in Nat
    BY DEF Tokens, IInv, TypeOK
  <2> QED BY <2>1, <2>2 DEF IInv, Opened, Minted
<1>12. t.session \in over'
  BY <1>6, <1>9, <1>11 DEF SignOut
<1> QED BY <1>7, <1>10, <1>12

\* An app is told "Signed out." only by the request that ended its session.
THEOREM AppSignOutIsReal == Spec => HeaderSignOutIsReal
<1>1. ASSUME IInv, [Next]_vars
      PROVE  [answer' # None /\ answer'.to \in SignOuts /\ answer'.status = 200
              /\ answer'.shown # None /\ answer'.who = "app"
                 => /\ answer'.shown.session \notin over
                    /\ answer'.shown.session \in over']_vars
  BY <1>1, SignOutStep, OnlyRequestsAnswer DEF Next
<1> QED BY <1>1, Invariance, PTL DEF Spec, HeaderSignOutIsReal
=============================================================================
