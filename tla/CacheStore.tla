----------------------------- MODULE CacheStore -----------------------------
(***************************************************************************)
(* CacheTokenStore (sessions/stores/cache.py) under the calls that login,  *)
(* refresh, logout and the refusal of a disabled account make to it.       *)
(*                                                                         *)
(* There is no transaction: one action is one cache call, with the local   *)
(* computation next to it, and a worker may stop between any two of them.  *)
(* Entries leave the cache when their timeout passes, and not before.      *)
(* Timeouts are whole seconds while lifetimes are not, and the rounding    *)
(* matters, so the clock ticks every half second.                          *)
(***************************************************************************)
EXTENDS Integers

CONSTANTS
    Requests, Families, Tokens, None,
    RefreshLifetime,  \* the lifetime of a refresh token and of its family
    AccessLifetime,
    Leeway,           \* how long after its expiry a JWT still verifies
    MinTTL,           \* the shortest timeout ever used, 60 seconds
    MaxRequest,       \* bound: a request takes no longer than this
    MaxTime           \* bound: the clock stops here

ASSUME TimesAssumption ==
    /\ RefreshLifetime \in Nat \ {0, 1}
    /\ AccessLifetime \in Nat
    /\ Leeway \in Nat
    /\ MinTTL \in Nat \ {0}
    /\ MaxRequest \in Nat
    /\ MaxTime \in Nat

ASSUME NoneAssumption == None \notin Tokens \cup Families

VARIABLES
    now,
    \* --- the cache: when each entry leaves it, 0 if it is not there
    family,    \* signet:fam:f
    token,     \* signet:tok:t
    used,      \* signet:used:t, the marker of a spent token
    revoked,   \* signet:rev:f, the marker of a revoked family
    \* --- what the entries of a family and of a token hold
    familyExp, \* expires_at of the family, 0 before login
    tokenExp,  \* expires_at of the refresh token, 0 before it is signed
    sid,       \* the family a token belongs to
    \* --- one local state per worker
    pc,        \* the cache call it makes next
    op,        \* the endpoint it serves
    arg,       \* the refresh token presented
    next,      \* the refresh token it signed
    held,      \* did its own get() return the family it revokes?
    start,     \* when the request arrived
    ans,       \* the answer it is about to give
    \* --- history, read by properties only
    live,      \* how many consume() calls answered LIVE for a token
    sent,      \* how often family_revoked was sent for a family
    late       \* what was over before the request arrived

entries  == <<family, token, used, revoked>>
contents == <<familyExp, tokenExp, sid>>
local    == <<op, arg, next, held, start>>
history  == <<live, sent, late>>
vars     == <<now, entries, contents, pc, local, ans, history>>

Operations == {"login", "refresh", "logout", "admin"}

PCs == {"idle", "issue", "family", "check", "claim", "recheck",
        "find", "mark", "drop", "done"}

\* Every variable has its type, and an issued token names its family.
TypeOK ==
    /\ now \in Nat
    /\ family \in [Families -> Nat] /\ revoked \in [Families -> Nat]
    /\ token \in [Tokens -> Nat] /\ used \in [Tokens -> Nat]
    /\ familyExp \in [Families -> Nat]
    /\ tokenExp \in [Tokens -> Nat]
    /\ sid \in [Tokens -> Families \cup {None}]
    /\ pc \in [Requests -> PCs]
    /\ op \in [Requests -> Operations \cup {None}]
    /\ arg \in [Requests -> Tokens \cup {None}]
    /\ next \in [Requests -> Tokens \cup {None}]
    /\ held \in [Requests -> BOOLEAN]
    /\ start \in [Requests -> Nat]
    /\ ans \in [Requests -> {"none", "live", "replayed", "reused", "refused"}]
    /\ live \in [Tokens -> Nat]
    /\ sent \in [Families -> Nat]
    /\ late \in [Requests -> SUBSET {"revoked", "expired"}]
    /\ \A t \in Tokens : token[t] > 0 => sid[t] \in Families

Init ==
    /\ now = 0
    /\ family = [f \in Families |-> 0] /\ revoked = [f \in Families |-> 0]
    /\ token = [t \in Tokens |-> 0] /\ used = [t \in Tokens |-> 0]
    /\ familyExp = [f \in Families |-> 0]
    /\ tokenExp = [t \in Tokens |-> 0]
    /\ sid = [t \in Tokens |-> None]
    /\ pc = [r \in Requests |-> "idle"]
    /\ op = [r \in Requests |-> None]
    /\ arg = [r \in Requests |-> None]
    /\ next = [r \in Requests |-> None]
    /\ held = [r \in Requests |-> FALSE]
    /\ start = [r \in Requests |-> 0]
    /\ ans = [r \in Requests |-> "none"]
    /\ live = [t \in Tokens |-> 0]
    /\ sent = [f \in Families |-> 0]
    /\ late = [r \in Requests |-> {}]

-----------------------------------------------------------------------------
(* Timeouts.  Definitions whose name says Faulty are the ones below them    *)
(* with a plausible mistake; no action uses them.                          *)

\* An entry is there until its timeout has passed.
Present(leaves) == leaves > now

\* Half seconds to whole seconds, in half seconds.
RoundDown(x) == 2 * (x \div 2)
RoundUp(x)   == 2 * ((x + 1) \div 2)

AtLeast(least, x) == IF x < least THEN least ELSE x

\* The entries of families and tokens rounded like the spent marker.
FaultyTTL(exp) == AtLeast(MinTTL, RoundUp(exp - now) + 2)

\* _ttl(): the timeout of a family's or a token's entry.
TTL(exp) == AtLeast(MinTTL, RoundDown(exp - now))

\* The spent marker with the token's own timeout.
FaultyConsumedTTL(exp) == TTL(exp)

\* _consumed_ttl(): rounded up, plus a second.
ConsumedTTL(exp) == AtLeast(MinTTL, RoundUp(exp - now) + 2)

\* A revocation marker that lasts as long as the family would have.
FaultyRevocationTTL(f, known) ==
    AtLeast(MinTTL, IF known THEN RoundDown(familyExp[f] - now) ELSE 0)

\* _revocation_ttl(): the family's remaining life, if it is known, plus every
\* lifetime a token minted in it could still have.
RevocationTTL(f, known) ==
    LET remaining == IF known /\ familyExp[f] > now THEN familyExp[f] - now ELSE 0
    IN  AtLeast(MinTTL, RoundDown(remaining + RefreshLifetime
                                            + AccessLifetime + Leeway))

\* _is_revoked() and is_live(), the latter in either mode of the store.
IsRevoked(f) == Present(revoked[f])

IsLive(f, denyByDefault) ==
    /\ ~IsRevoked(f)
    /\ denyByDefault \/ (Present(family[f]) /\ familyExp[f] > now)

-----------------------------------------------------------------------------
(* Requests.                                                               *)

Session(r) == sid[arg[r]]

Finish(r, a) ==
    /\ pc' = [pc EXCEPT ![r] = "done"]
    /\ ans' = [ans EXCEPT ![r] = a]

Goto(r, label) ==
    /\ pc' = [pc EXCEPT ![r] = label]
    /\ UNCHANGED ans

\* A token signed without its sid claim.
FaultySign(r, n, f) ==
    /\ tokenExp[n] = 0 /\ f \in Families
    /\ next' = [next EXCEPT ![r] = n]
    /\ tokenExp' = [tokenExp EXCEPT ![n] = now + RefreshLifetime]
    /\ UNCHANGED sid

\* Signing draws a new jti: the token signed now is new, for family f.
Sign(r, n, f) ==
    /\ tokenExp[n] = 0
    /\ next' = [next EXCEPT ![r] = n]
    /\ tokenExp' = [tokenExp EXCEPT ![n] = now + RefreshLifetime]
    /\ sid' = [sid EXCEPT ![n] = f]

\* open_session(): the family's entry, then a signed pair.
Login(r, f, n) ==
    /\ pc[r] = "idle"
    /\ familyExp[f] = 0
    /\ familyExp' = [familyExp EXCEPT ![f] = now + RefreshLifetime]
    /\ family' = [family EXCEPT ![f] = now + TTL(now + RefreshLifetime)]
    /\ Sign(r, n, f)
    /\ op' = [op EXCEPT ![r] = "login"]
    /\ start' = [start EXCEPT ![r] = now]
    /\ Goto(r, "issue")
    /\ UNCHANGED <<now, token, used, revoked, arg, held, history>>

\* consume()'s first get(): NOT_FOUND, or on to the family.
GetToken(r, t) ==
    IF Present(token[t]) THEN Goto(r, "family") ELSE Finish(r, "refused")

\* A request presents an issued refresh token that still verifies, and
\* consume() gets its entry: only its timeout ever removes that, so a look at
\* once admits whatever a later look does.  A refresh has signed its successor
\* by then; one by a disabled account goes straight to revoke_family().
Arrive(r, o, t) ==
    /\ pc[r] = "idle"
    /\ token[t] > 0
    /\ now < tokenExp[t] + Leeway
    /\ op' = [op EXCEPT ![r] = o]
    /\ arg' = [arg EXCEPT ![r] = t]
    /\ start' = [start EXCEPT ![r] = now]
    /\ late' = [late EXCEPT ![r] =
          {w \in {"revoked", "expired"} :
              \/ w = "revoked" /\ revoked[sid[t]] > 0
              \/ w = "expired" /\ familyExp[sid[t]] <= now}]
    /\ \/ /\ o = "refresh"
          /\ \E n \in Tokens : Sign(r, n, sid[t])
          /\ GetToken(r, t)
       \/ /\ o = "logout"
          /\ GetToken(r, t)
          /\ UNCHANGED <<next, tokenExp, sid>>
       \/ /\ o = "admin"
          /\ pc' = [pc EXCEPT ![r] = "find"]
          /\ ans' = [ans EXCEPT ![r] = "refused"]
          /\ UNCHANGED <<next, tokenExp, sid>>
    /\ UNCHANGED <<now, entries, familyExp, held, live, sent>>

\* The worker is free again: the request was answered, an exception ended it
\* or the worker died.  What it wrote stays written.
Release(r) ==
    /\ pc[r] # "idle"
    /\ pc' = [pc EXCEPT ![r] = "idle"]
    /\ op' = [op EXCEPT ![r] = None]
    /\ arg' = [arg EXCEPT ![r] = None]
    /\ next' = [next EXCEPT ![r] = None]
    /\ held' = [held EXCEPT ![r] = FALSE]
    /\ start' = [start EXCEPT ![r] = 0]
    /\ ans' = [ans EXCEPT ![r] = "none"]
    /\ late' = [late EXCEPT ![r] = {}]
    /\ UNCHANGED <<now, entries, contents, live, sent>>

\* Time passes, but no request takes longer than MaxRequest, and an answer
\* that is ready leaves at once.
Tick ==
    /\ now < MaxTime
    /\ \A r \in Requests :
          pc[r] # "idle" => pc[r] # "done" /\ now < start[r] + MaxRequest
    /\ now' = now + 1
    /\ UNCHANGED <<entries, contents, pc, local, ans, history>>

-----------------------------------------------------------------------------
(* consume(), call by call.                                                *)

GetFamily(r) ==
    /\ pc[r] = "family"
    /\ IF Present(family[Session(r)]) THEN Goto(r, "check")
                                      ELSE Finish(r, "refused")
    /\ UNCHANGED <<now, entries, contents, local, history>>

\* The marker of a revocation, then the token's own expiry.
Check(r) ==
    /\ pc[r] = "check"
    /\ IF IsRevoked(Session(r)) \/ tokenExp[arg[r]] <= now
          THEN Finish(r, "refused")
          ELSE Goto(r, "claim")
    /\ UNCHANGED <<now, entries, contents, local, history>>

\* The atomic add() of the spent marker.  The caller that loses it replays: a
\* refresh may be served the grace window's pair, a logout redeems if there is
\* one, and without one the family is burned.
Claim(r) ==
    /\ pc[r] = "claim"
    /\ \/ /\ ~Present(used[arg[r]])
          /\ used' = [used EXCEPT ![arg[r]] = now + ConsumedTTL(tokenExp[arg[r]])]
          /\ Goto(r, "recheck")
       \/ /\ Present(used[arg[r]])
          /\ UNCHANGED used
          /\ \/ op[r] = "refresh" /\ Finish(r, "replayed")
             \/ op[r] = "logout" /\ Goto(r, "find")
             \/ /\ pc' = [pc EXCEPT ![r] = "find"]
                /\ ans' = [ans EXCEPT ![r] = "reused"]
    /\ UNCHANGED <<now, family, token, revoked, contents, local, history>>

\* consume() without its second look.
FaultyRecheck(r) ==
    /\ pc[r] = "recheck"
    /\ live' = [live EXCEPT ![arg[r]] = @ + 1]
    /\ pc' = [pc EXCEPT ![r] = IF op[r] = "refresh" THEN "issue" ELSE "find"]
    /\ ans' = [ans EXCEPT ![r] = "live"]
    /\ UNCHANGED <<now, entries, contents, local, sent, late>>

\* The second look at the revocation marker; then LIVE, and what the caller
\* does with it.
Recheck(r) ==
    /\ pc[r] = "recheck"
    /\ IF IsRevoked(Session(r))
          THEN Finish(r, "refused") /\ UNCHANGED live
          ELSE /\ live' = [live EXCEPT ![arg[r]] = @ + 1]
               /\ pc' = [pc EXCEPT ![r] =
                            IF op[r] = "refresh" THEN "issue" ELSE "find"]
               /\ ans' = [ans EXCEPT ![r] = "live"]
    /\ UNCHANGED <<now, entries, contents, local, sent, late>>

\* issue(): the entry of the token signed earlier.
Issue(r) ==
    /\ pc[r] = "issue"
    /\ token' = [token EXCEPT ![next[r]] = now + TTL(tokenExp[next[r]])]
    /\ pc' = [pc EXCEPT ![r] = "done"]
    /\ UNCHANGED <<now, family, used, revoked, contents, local, ans, history>>

-----------------------------------------------------------------------------
(* revoke_family(), call by call.                                          *)

Find(r) ==
    /\ pc[r] = "find"
    /\ held' = [held EXCEPT ![r] = Present(family[Session(r)])]
    /\ Goto(r, "mark")
    /\ UNCHANGED <<now, entries, contents, op, arg, next, start, history>>

\* set() in the place of add().
FaultyMarkWins(f) == f \in Families

\* add() of the revocation marker: the first revocation wins.
MarkWins(f) == ~IsRevoked(f)

Mark(r) ==
    /\ pc[r] = "mark"
    /\ IF MarkWins(Session(r))
          THEN /\ revoked' = [revoked EXCEPT ![Session(r)] =
                                 now + RevocationTTL(Session(r), held[r])]
               /\ UNCHANGED held
          ELSE /\ held' = [held EXCEPT ![r] = FALSE]
               /\ UNCHANGED revoked
    /\ Goto(r, "drop")
    /\ UNCHANGED <<now, family, token, used, contents, op, arg, next, start,
                   history>>

\* The family's entry is deleted, and the winner reports it if it had it.
Drop(r) ==
    /\ pc[r] = "drop"
    /\ family' = [family EXCEPT ![Session(r)] = 0]
    /\ sent' = IF held[r] THEN [sent EXCEPT ![Session(r)] = @ + 1] ELSE sent
    /\ pc' = [pc EXCEPT ![r] = "done"]
    /\ UNCHANGED <<now, token, used, revoked, contents, local, ans, live, late>>

Next ==
    \/ Tick
    \/ \E r \in Requests :
          \/ \E f \in Families, n \in Tokens : Login(r, f, n)
          \/ \E o \in Operations \ {"login"}, t \in Tokens : Arrive(r, o, t)
          \/ GetFamily(r) \/ Check(r) \/ Claim(r) \/ Recheck(r)
          \/ Issue(r) \/ Find(r) \/ Mark(r) \/ Drop(r)
          \/ Release(r)

Spec == Init /\ [][Next]_vars

-----------------------------------------------------------------------------

\* consume() answers LIVE at most once for a token, from its first second to
\* its last: the spent marker is there whenever the token could be claimed.
RedeemedOnce == \A t \in Tokens : live[t] <= 1

\* A request that arrives once its family's revocation is recorded, or once the
\* family has expired, redeems nothing: even if the worker that revoked it died
\* half way, even after the marker's timeout, and however young the refresh
\* token it presents.
OverNeverRedeems == \A r \in Requests : ans[r] = "live" => late[r] = {}

\* Does an access token of the family still verify?  Each was signed with a
\* refresh token that was then issued.
AccessVerifies(f) ==
    \E t \in Tokens :
        /\ token[t] > 0
        /\ sid[t] = f
        /\ now < tokenExp[t] - RefreshLifetime + AccessLifetime + Leeway

\* From its revocation on, the Strict* classes accept no access token of a
\* family, in either mode: no marker's timeout brings a session back.
StrictRejectsRevoked ==
    \A f \in Families :
        revoked[f] > 0 /\ AccessVerifies(f)
            => \A deny \in BOOLEAN : ~IsLive(f, deny)

\* The calls of all workers together are those of a store that answers each at
\* one instant: a token is issued when its entry is written, redeemed when
\* consume() has looked at the revocation marker again, and a family is revoked
\* when its marker is added, for ever, whatever timeouts pass afterwards.  It is
\* reported once at most, however many revocations race for the marker.
Port == INSTANCE TokenStore WITH
            sent    <- sent,
            state   <- [t \in Tokens |-> IF live[t] > 0 THEN "redeemed"
                                        ELSE IF token[t] > 0 THEN "issued"
                                        ELSE "unknown"],
            member  <- [t \in Tokens |-> IF token[t] > 0 THEN sid[t] ELSE None],
            revoked <- {f \in Families : revoked[f] > 0}

ImplementsPort == Port!Spec
=============================================================================
