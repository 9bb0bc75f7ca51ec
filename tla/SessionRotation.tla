--------------------------- MODULE SessionRotation ---------------------------
(***************************************************************************)
(* RotationPolicy (sessions/rotation.py) over ORMTokenStore                *)
(* (sessions/stores/orm.py) and TokenFamily (sessions/models.py): login,   *)
(* refresh, logout and logout-all served by concurrent workers that share  *)
(* one database and one grace cache.                                       *)
(*                                                                         *)
(* One action is one SQL statement, one cache call or one commit, so every *)
(* interleaving the database allows is a behaviour here.  The database     *)
(* runs at READ COMMITTED: a statement reads what is committed, a write    *)
(* stays in the transaction that made it and locks its row until the       *)
(* transaction ends, and an UPDATE or a DELETE waits for the lock of every *)
(* row it changes.                                                         *)
(***************************************************************************)

CONSTANTS
    Requests,        \* the workers: each serves one request at a time
    Families,        \* ids of token families, i.e. login sessions
    Tokens,          \* refresh tokens, named by their digest
    Users,
    Owner,           \* Owner[f] is the user that logs in to open family f
    None,
    Purger,          \* the process that runs signet_purge, one at a time
    BurnOnReuse,     \* RotationPolicy.burn_family_on_reuse
    AtomicRequests,  \* Django's ATOMIC_REQUESTS: the view is one transaction
    ClaimRechecked,  \* an UPDATE re-evaluates its whole WHERE clause on the
                     \* row it has locked, as one atomic step
    ReliableCache    \* the grace cache never fails, and no replay comes after
                     \* the grace window has closed

Operations == {"refresh", "logout", "logout_all"}

\* The RevocationReasons this component records.
Reasons == {"logout", "logout_all", "reuse_detected", "admin"}

ASSUME OwnerAssumption == Owner \in [Families -> Users]

ASSUME FlagAssumption ==
    /\ BurnOnReuse \in BOOLEAN
    /\ AtomicRequests \in BOOLEAN
    /\ ClaimRechecked \in BOOLEAN
    /\ ReliableCache \in BOOLEAN

ASSUME NoneAssumption == None \notin Tokens \cup Families \cup Reasons

ASSUME PurgerAssumption == Purger \notin Requests

\* A row of one table is not a row of the other.
ASSUME RowAssumption == Tokens \cap Families = {}

VARIABLES
    \* --- the database, as committed
    fam,      \* fam[f]: "absent", "stored" or, once purged, "purged"
    reason,   \* reason[f]: revoked_reason; None while revoked_at is NULL
    expired,  \* families whose expires_at has passed
    tok,      \* tok[t]: "absent", "unspent", "spent" or, once purged, "purged"
    sid,      \* sid[t]: the family the token names, in its row and its claims
    active,   \* users whose is_active is true
    \* --- the grace cache
    grace,    \* grace[t]: refresh token of the pair t's rotation produced
    \* --- one local state per worker
    pc,       \* the statement the worker runs next
    op,       \* the endpoint it serves
    arg,      \* the refresh token presented
    pair,     \* the refresh token of the pair it signed or replays
    why,      \* the reason it revokes with
    todo,     \* the families its revocation loop has still to revoke
    cur,      \* the one of them it revokes next
    wrote,    \* uncommitted writes of the rotation: claim, touch, issue
    staged,   \* families revoked by its uncommitted writes
    ans,      \* the answer it is about to give
    \* --- the purge
    doomed,   \* the rows it has found and not deleted yet
    cut,      \* the rows its open transaction has deleted, and so locked
    \* --- history, read by properties only
    seen      \* the families the request acts on that were live when it
              \* arrived and again when the database let it redeem

dbVars  == <<fam, reason, expired, tok, sid, active>>
txVars  == <<wrote, staged>>
reqVars == <<op, arg, pair, why, todo, cur, ans, seen>>
purgeVars == <<doomed, cut>>
vars    == <<dbVars, grace, pc, txVars, reqVars, purgeVars>>

PCs == {"idle", "user", "classify", "match", "claim", "touch", "issue",
        "resolve", "replay", "select", "revoke", "commit", "put", "done"}

Writes == {"claim", "touch", "issue"}

Answers == {"none", "ok", "replayed", "reused", "refused", "error"}

Types ==
    /\ fam \in [Families -> {"absent", "stored", "purged"}]
    /\ reason \in [Families -> Reasons \cup {None}]
    /\ expired \in SUBSET Families
    /\ tok \in [Tokens -> {"absent", "unspent", "spent", "purged"}]
    /\ sid \in [Tokens -> Families \cup {None}]
    /\ active \in SUBSET Users
    /\ grace \in [Tokens -> Tokens \cup {None}]
    /\ pc \in [Requests -> PCs]
    /\ op \in [Requests -> Operations \cup {None}]
    /\ arg \in [Requests -> Tokens \cup {None}]
    /\ pair \in [Requests -> Tokens \cup {None}]
    /\ why \in [Requests -> Reasons \cup {None}]
    /\ todo \in [Requests -> SUBSET Families]
    /\ cur \in [Requests -> Families \cup {None}]
    /\ wrote \in [Requests -> SUBSET Writes]
    /\ staged \in [Requests -> SUBSET Families]
    /\ ans \in [Requests -> Answers]
    /\ doomed \in SUBSET (Tokens \cup Families)
    /\ cut \in SUBSET (Tokens \cup Families)
    /\ seen \in [Requests -> SUBSET Families]

\* Every variable has its type, and no transaction - so no lock - outlives
\* the request that opened it.
TypeOK ==
    /\ Types
    /\ \A r \in Requests : pc[r] = "idle" => wrote[r] = {} /\ staged[r] = {}

Init ==
    /\ fam = [f \in Families |-> "absent"]
    /\ reason = [f \in Families |-> None]
    /\ expired = {}
    /\ tok = [t \in Tokens |-> "absent"]
    /\ sid = [t \in Tokens |-> None]
    /\ active = Users
    /\ grace = [t \in Tokens |-> None]
    /\ pc = [r \in Requests |-> "idle"]
    /\ op = [r \in Requests |-> None]
    /\ arg = [r \in Requests |-> None]
    /\ pair = [r \in Requests |-> None]
    /\ why = [r \in Requests |-> None]
    /\ todo = [r \in Requests |-> {}]
    /\ cur = [r \in Requests |-> None]
    /\ wrote = [r \in Requests |-> {}]
    /\ staged = [r \in Requests |-> {}]
    /\ ans = [r \in Requests |-> "none"]
    /\ doomed = {}
    /\ cut = {}
    /\ seen = [r \in Requests |-> {}]

-----------------------------------------------------------------------------
(* Rows, locks and transactions.  Definitions whose name says Faulty are    *)
(* the ones below them with a plausible mistake: no action uses them, they  *)
(* show that the properties can tell the mistake.                           *)

\* The family of the token a request presents.
Session(r) == sid[arg[r]]

\* A family whose refresh tokens are all refused for good.
Dead(f) == reason[f] # None \/ fam[f] = "purged"

\* The rows of a user's families that revoke_all_for_user() selects.
LiveFamilies(u) ==
    {f \in Families : Owner[f] = u /\ fam[f] = "stored" /\ reason[f] = None}

\* A jti nobody has drawn: signing always yields a new token.
Fresh(t) ==
    /\ tok[t] = "absent"
    /\ \A r \in Requests : pair[r] # t
    /\ \A k \in Tokens : grace[k] # t

\* Is the request inside a database transaction?  The inner atomic() block
\* of rotate() and _redeem() lasts from a successful claim to its commit.
InTx(r) == AtomicRequests \/ wrote[r] # {}

HoldsToken(r, t)  == "claim" \in wrote[r] /\ arg[r] = t
HoldsFamily(r, f) == ("touch" \in wrote[r] /\ Session(r) = f) \/ f \in staged[r]

TokenFree(r, t) ==
    t \notin cut /\ \A s \in Requests \ {r} : ~HoldsToken(s, t)
FamilyFree(r, f) ==
    f \notin cut /\ \A s \in Requests \ {r} : ~HoldsFamily(s, f)

\* The worker ends its request, leaving its local state for the properties.
Finish(r, a) ==
    /\ pc' = [pc EXCEPT ![r] = "done"]
    /\ ans' = [ans EXCEPT ![r] = a]

\* A COMMIT that forgets the revocations, and keeps their locks.
FaultyEndTx(r) == wrote' = [wrote EXCEPT ![r] = {}] /\ UNCHANGED staged

\* The transaction ends, and with it its locks.
EndTx(r) ==
    /\ wrote' = [wrote EXCEPT ![r] = {}]
    /\ staged' = [staged EXCEPT ![r] = {}]

\* The worker is ready for its next request.
Release(r) ==
    /\ pc' = [pc EXCEPT ![r] = "idle"]
    /\ op' = [op EXCEPT ![r] = None]
    /\ arg' = [arg EXCEPT ![r] = None]
    /\ pair' = [pair EXCEPT ![r] = None]
    /\ why' = [why EXCEPT ![r] = None]
    /\ todo' = [todo EXCEPT ![r] = {}]
    /\ cur' = [cur EXCEPT ![r] = None]
    /\ ans' = [ans EXCEPT ![r] = "none"]
    /\ seen' = [seen EXCEPT ![r] = {}]

\* consume() outside the transaction of what follows it: what has been claimed
\* stays claimed when the successor is not issued.
FaultyAbort(r) ==
    /\ tok' = [t \in Tokens |-> IF HoldsToken(r, t) THEN "spent" ELSE tok[t]]
    /\ EndTx(r)
    /\ Release(r)
    /\ UNCHANGED <<fam, reason, expired, sid, active, grace, purgeVars>>

\* The request fails: its transaction is rolled back, so that nothing it has
\* not committed was ever visible, and no answer of this library is given.
Abort(r) ==
    /\ EndTx(r)
    /\ Release(r)
    /\ UNCHANGED <<dbVars, grace, purgeVars>>

-----------------------------------------------------------------------------
(* The environment: clients, administrators, the clock, the purge command. *)

\* TokenObtainView: open_session() inserts the family and its first token in
\* one transaction.  Nothing reads or locks those rows before it commits, so
\* the whole login is one step; a login that fails inserts neither.
OpenSession(f, t) ==
    /\ fam[f] = "absent"
    /\ Owner[f] \in active
    /\ Fresh(t)
    /\ fam' = [fam EXCEPT ![f] = "stored"]
    /\ tok' = [tok EXCEPT ![t] = "unspent"]
    /\ sid' = [sid EXCEPT ![t] = f]
    /\ UNCHANGED <<reason, expired, active, grace, pc, txVars, reqVars, purgeVars>>

\* A request arrives with any refresh token ever handed out - current,
\* replaced long ago, or of a purged family - whose signature verifies.  The
\* successor a refresh will sign gets its name here, so that Tokens bounds the
\* refreshes that arrive and never stops one half way.
Arrive(r, o, t) ==
    /\ pc[r] = "idle"
    /\ tok[t] # "absent"
    /\ pc' = [pc EXCEPT ![r] = IF o = "refresh" THEN "user" ELSE "classify"]
    /\ op' = [op EXCEPT ![r] = o]
    /\ arg' = [arg EXCEPT ![r] = t]
    /\ \/ o # "refresh" /\ UNCHANGED pair
       \/ o = "refresh" /\ \E n \in Tokens :
             Fresh(n) /\ pair' = [pair EXCEPT ![r] = n]
    /\ ans' = [ans EXCEPT ![r] = "ok"]
    /\ seen' = [seen EXCEPT ![r] =
                   IF o = "logout_all" THEN LiveFamilies(Owner[sid[t]])
                   ELSE LiveFamilies(Owner[sid[t]]) \cap {sid[t]}]
    /\ UNCHANGED <<dbVars, grace, txVars, why, todo, cur, purgeVars>>

\* The response is delivered, or lost; either way the worker is free again.
Reply(r) ==
    /\ pc[r] = "done"
    /\ Release(r)
    /\ UNCHANGED <<dbVars, grace, txVars, purgeVars>>

\* The clock passes a family's expires_at.  Every token of a family is
\* issued no earlier than the family and for the same lifetime, so its own
\* expires_at never passes first.
Expire(f) ==
    /\ fam[f] = "stored"
    /\ f \notin expired
    /\ expired' = expired \cup {f}
    /\ UNCHANGED <<fam, reason, tok, sid, active, grace, pc, txVars, reqVars,
                   purgeVars>>

\* An administrator disables a user's account, or enables it again.
SetActive(u) ==
    /\ active' = IF u \in active THEN active \ {u} ELSE active \cup {u}
    /\ UNCHANGED <<fam, reason, expired, tok, sid, grace, pc, txVars, reqVars,
                   purgeVars>>

\* A grace entry reaches the end of its window, or is evicted.
GraceExpire(t) ==
    /\ ~ReliableCache
    /\ grace[t] # None
    /\ grace' = [grace EXCEPT ![t] = None]
    /\ UNCHANGED <<dbVars, pc, txVars, reqVars, purgeVars>>

-----------------------------------------------------------------------------
(* Revocation: TokenFamily.revoke() in a loop over one family or many.     *)

\* revoke() without its WHERE revoked_at IS NULL, and revoke() of live rows only.
FaultyRevocableAlways(f) == fam[f] = "stored"
FaultyRevocableLive(f) ==
    fam[f] = "stored" /\ reason[f] = None /\ f \notin expired

\* The row the conditional UPDATE of TokenFamily.revoke() matches.
Revocable(f) == fam[f] = "stored" /\ reason[f] = None

\* Ending one session of a user by ending them all.
FaultyStartRevoking(r, fs, w) ==
    LET all == LiveFamilies(Owner[Session(r)]) \cup fs
    IN  /\ why' = [why EXCEPT ![r] = w]
        /\ pc' = [pc EXCEPT ![r] = "revoke"]
        /\ \E f \in all : /\ todo' = [todo EXCEPT ![r] = all \ {f}]
                          /\ cur' = [cur EXCEPT ![r] = f]

\* The worker turns to revoking the families of fs, in an order it picks.
StartRevoking(r, fs, w) ==
    /\ why' = [why EXCEPT ![r] = w]
    /\ \/ /\ fs = {}
          /\ pc' = [pc EXCEPT ![r] = "commit"]
          /\ UNCHANGED <<todo, cur>>
       \/ \E f \in fs :
          /\ pc' = [pc EXCEPT ![r] = "revoke"]
          /\ todo' = [todo EXCEPT ![r] = fs \ {f}]
          /\ cur' = [cur EXCEPT ![r] = f]

\* One conditional UPDATE: the first reason recorded wins, and an UPDATE that
\* matches no committed row waits for none.  In autocommit it takes effect at
\* once, in a transaction when that commits.
Revoke(r) ==
    /\ pc[r] = "revoke"
    /\ Revocable(cur[r]) => FamilyFree(r, cur[r])
    /\ IF Revocable(cur[r])
          THEN IF InTx(r)
                  THEN /\ staged' = [staged EXCEPT ![r] = @ \cup {cur[r]}]
                       /\ UNCHANGED reason
                  ELSE /\ reason' = [reason EXCEPT ![cur[r]] = why[r]]
                       /\ UNCHANGED staged
          ELSE UNCHANGED <<staged, reason>>
    /\ IF todo[r] = {}
          THEN /\ pc' = [pc EXCEPT ![r] = "commit"]
               /\ cur' = [cur EXCEPT ![r] = None]
               /\ UNCHANGED todo
          ELSE \E f \in todo[r] :
               /\ todo' = [todo EXCEPT ![r] = @ \ {f}]
               /\ cur' = [cur EXCEPT ![r] = f]
               /\ UNCHANGED pc
    /\ UNCHANGED <<fam, expired, tok, sid, active, grace, wrote,
                   op, arg, pair, why, ans, seen, purgeVars>>

\* Signing out everywhere else, but not here.
FaultySelectFamilies(r) ==
    /\ pc[r] = "select"
    /\ StartRevoking(r, LiveFamilies(Owner[Session(r)]) \ {Session(r)},
                     "logout_all")
    /\ UNCHANGED <<dbVars, grace, txVars, op, arg, pair, ans, seen, purgeVars>>

\* revoke_all_for_user(): SELECT the user's unrevoked families.
SelectFamilies(r) ==
    /\ pc[r] = "select"
    /\ StartRevoking(r, LiveFamilies(Owner[Session(r)]), "logout_all")
    /\ UNCHANGED <<dbVars, grace, txVars, op, arg, pair, ans, seen, purgeVars>>

-----------------------------------------------------------------------------
(* TokenStore.consume(): classify, then claim.                             *)

\* rotate() loads the token's user and, if active, runs get_claims and signs
\* the successor pair before the store is touched.  A user that may not keep
\* a session has the named family revoked.
LoadUser(r) ==
    /\ pc[r] = "user"
    /\ IF Owner[Session(r)] \in active
          THEN /\ pc' = [pc EXCEPT ![r] = "classify"]
               /\ UNCHANGED <<why, todo, cur, ans>>
          ELSE /\ StartRevoking(r, {Session(r)}, "admin")
               /\ ans' = [ans EXCEPT ![r] = "refused"]
    /\ UNCHANGED <<dbVars, grace, txVars, op, arg, pair, seen, purgeVars>>

\* consume()'s SELECT: NOT_FOUND, FAMILY_REVOKED and EXPIRED are refused and
\* change nothing.
Classify(r) ==
    /\ pc[r] = "classify"
    /\ IF \/ tok[arg[r]] = "purged"
          \/ reason[Session(r)] # None
          \/ Session(r) \in expired
          THEN Finish(r, "refused")
          ELSE pc' = [pc EXCEPT ![r] = "match"] /\ UNCHANGED ans
    /\ UNCHANGED <<dbVars, grace, txVars, op, arg, pair, why, todo, cur, seen,
                   purgeVars>>

\* A claim that does not ask for consumed_at IS NULL.
FaultyClaimable(t) == tok[t] # "purged" /\ reason[sid[t]] = None

\* The UPDATE without family__revoked_at__isnull=True.
FaultyClaimableRevoked(t) == tok[t] = "unspent"

\* The WHERE clause of _claim(): unconsumed, in an unrevoked family.
Claimable(t) == tok[t] = "unspent" /\ reason[sid[t]] = None

\* The claim's UPDATE looks for its row in what is committed.  The clause
\* spans a join, so the row is found through a sub-select.
MatchClaim(r) ==
    /\ pc[r] = "match"
    /\ pc' = [pc EXCEPT ![r] = IF Claimable(arg[r]) THEN "claim" ELSE "resolve"]
    /\ UNCHANGED <<dbVars, grace, txVars, reqVars, purgeVars>>

\* Of what the request acts on, what is still live.
StillLive(r) == seen[r] \cap LiveFamilies(Owner[Session(r)])

\* It then waits for the row's lock and writes consumed_at.
Claim(r) ==
    /\ pc[r] = "claim"
    /\ TokenFree(r, arg[r])
    /\ IF tok[arg[r]] # "purged" /\ (ClaimRechecked => Claimable(arg[r]))
          THEN /\ wrote' = [wrote EXCEPT ![r] = {"claim"}]
               /\ pc' = [pc EXCEPT ![r] = "touch"]
               /\ seen' = [seen EXCEPT ![r] = StillLive(r)]
          ELSE /\ pc' = [pc EXCEPT ![r] = "resolve"]
               /\ UNCHANGED <<wrote, seen>>
    /\ UNCHANGED <<dbVars, grace, staged, op, arg, pair, why, todo, cur, ans,
                   purgeVars>>

\* LIVE: the UPDATE of the family's last_used_at, then the caller's act -
\* issue the successor, revoke the family, or revoke the user's families.
Touch(r) ==
    /\ pc[r] = "touch"
    /\ FamilyFree(r, Session(r))
    /\ wrote' = [wrote EXCEPT ![r] = @ \cup {"touch"}]
    /\ \/ /\ op[r] = "refresh"
          /\ pc' = [pc EXCEPT ![r] = "issue"]
          /\ UNCHANGED <<why, todo, cur>>
       \/ /\ op[r] = "logout"
          /\ StartRevoking(r, {Session(r)}, "logout")
       \/ /\ op[r] = "logout_all"
          /\ pc' = [pc EXCEPT ![r] = "select"]
          /\ UNCHANGED <<why, todo, cur>>
    /\ UNCHANGED <<dbVars, grace, staged, op, arg, pair, ans, seen, purgeVars>>

\* _resolve_claim_conflict() reads the family again.  A family purged since
\* it was classified raises DoesNotExist out of consume().
ResolveClaimConflict(r) ==
    /\ pc[r] = "resolve"
    /\ \/ /\ fam[Session(r)] = "purged"
          /\ Finish(r, "error")
          /\ UNCHANGED seen
       \/ /\ fam[Session(r)] # "purged" /\ reason[Session(r)] # None
          /\ Finish(r, "refused")
          /\ UNCHANGED seen
       \/ /\ ~Dead(Session(r))
          /\ pc' = [pc EXCEPT ![r] = "replay"]
          /\ seen' = [seen EXCEPT ![r] = StillLive(r)]
          /\ UNCHANGED ans
    /\ UNCHANGED <<dbVars, grace, txVars, op, arg, pair, why, todo, cur, purgeVars>>

\* The other order of the two.
FaultyPutBeforeCommit == ~AtomicRequests

\* rotate() puts the grace entry after its own transaction, so before the
\* commit only when the view is itself in a transaction.
PutBeforeCommit == AtomicRequests

\* store.issue(): INSERT the successor's row.
Issue(r) ==
    /\ pc[r] = "issue"
    /\ wrote' = [wrote EXCEPT ![r] = @ \cup {"issue"}]
    /\ pc' = [pc EXCEPT ![r] = IF PutBeforeCommit THEN "put" ELSE "commit"]
    /\ UNCHANGED <<dbVars, grace, staged, reqVars, purgeVars>>

-----------------------------------------------------------------------------
(* Replays and the grace window.                                           *)

\* ALREADY_CONSUMED, settled outside the inner transaction: the grace entry
\* makes it a redemption; without one it is reuse and burns the family.  A
\* cache that fails, or is not configured, reads as having no entry.
HandleReplay(r) ==
    /\ pc[r] = "replay"
    /\ \/ /\ grace[arg[r]] # None
          /\ \/ /\ op[r] = "refresh"
                /\ pair' = [pair EXCEPT ![r] = grace[arg[r]]]
                /\ Finish(r, "replayed")
                /\ UNCHANGED <<why, todo, cur>>
             \/ /\ op[r] = "logout"
                /\ StartRevoking(r, {Session(r)}, "logout")
                /\ UNCHANGED <<pair, ans>>
             \/ /\ op[r] = "logout_all"
                /\ pc' = [pc EXCEPT ![r] = "select"]
                /\ UNCHANGED <<pair, why, todo, cur, ans>>
       \/ /\ ReliableCache => grace[arg[r]] = None
          /\ IF BurnOnReuse
                THEN /\ StartRevoking(r, {Session(r)}, "reuse_detected")
                     /\ ans' = [ans EXCEPT ![r] = "reused"]
                ELSE /\ Finish(r, "reused")
                     /\ UNCHANGED <<why, todo, cur>>
          /\ UNCHANGED pair
    /\ UNCHANGED <<dbVars, grace, txVars, op, arg, seen, purgeVars>>

\* _grace_put(): best effort, a cache that fails loses the entry.
GracePut(r) ==
    /\ pc[r] = "put"
    /\ \/ grace' = [grace EXCEPT ![arg[r]] = pair[r]]
       \/ ~ReliableCache /\ UNCHANGED grace
    /\ pc' = [pc EXCEPT ![r] = IF PutBeforeCommit THEN "commit" ELSE "done"]
    /\ UNCHANGED <<dbVars, txVars, reqVars, purgeVars>>

-----------------------------------------------------------------------------
(* The end of a transaction.                                               *)

\* The successor recorded under another digest than the one it is looked up by.
FaultyTokensAfter(r) ==
    [tok EXCEPT ![arg[r]] = IF "claim" \in wrote[r] THEN "spent" ELSE @]

\* tok after the commit: the claimed token is spent, the successor current.
TokensAfter(r) ==
    [t \in Tokens |->
        IF t = pair[r] /\ "issue" \in wrote[r] THEN "unspent"
        ELSE IF t = arg[r] /\ "claim" \in wrote[r] THEN "spent"
        ELSE tok[t]]

\* last_used_at written by saving the family as consume() read it.
FaultyReasonsAfterSave(r) ==
    [f \in Families |->
        IF f \in staged[r] THEN why[r]
        ELSE IF "touch" \in wrote[r] /\ f = Session(r) THEN None
        ELSE reason[f]]

\* reason after the commit.
ReasonsAfter(r) ==
    [f \in Families |-> IF f \in staged[r] THEN why[r] ELSE reason[f]]

\* Everything the request wrote becomes visible, and its locks are freed.
Commit(r) ==
    /\ pc[r] = "commit"
    /\ tok' = TokensAfter(r)
    /\ sid' = IF "issue" \in wrote[r]
                 THEN [sid EXCEPT ![pair[r]] = Session(r)] ELSE sid
    /\ reason' = ReasonsAfter(r)
    /\ EndTx(r)
    /\ pc' = [pc EXCEPT ![r] = IF "issue" \in wrote[r] /\ ~PutBeforeCommit
                                  THEN "put" ELSE "done"]
    /\ UNCHANGED <<fam, expired, active, grace, reqVars, purgeVars>>

\* An exception ends the request: get_claims() or signing raises, a statement
\* or the commit fails, or the worker dies.
Fail(r) ==
    /\ pc[r] \notin {"idle", "done"}
    /\ Abort(r)

-----------------------------------------------------------------------------
(* signet_purge: purge_expired() deletes every expired family.  Django's    *)
(* cascade is a SELECT of the families and then, in one transaction, the    *)
(* DELETE of their tokens and the DELETE of the families.                   *)

\* The rows of the family's refresh tokens.
TokensOf(f) == {t \in Tokens : sid[t] = f /\ tok[t] # "purged"}

\* The SELECT, in autocommit: expires_at never changes once it is written.
PurgeSelect ==
    /\ doomed = {} /\ cut = {}
    /\ doomed' = {f \in expired : fam[f] = "stored"}
    /\ doomed' # {}
    /\ UNCHANGED <<cut, dbVars, grace, pc, txVars, reqVars>>

\* The DELETE of the tokens finds the rows committed when it starts.
PurgeTokens ==
    /\ doomed # {} /\ doomed \subseteq Families /\ cut = {}
    /\ doomed' = doomed \cup UNION {TokensOf(f) : f \in doomed}
    /\ UNCHANGED <<cut, dbVars, grace, pc, txVars, reqVars>>

\* The rows the purge may delete next: those of the statement it runs.
NextRows ==
    IF doomed \cap Tokens # {} THEN doomed \cap Tokens
    ELSE IF cut # {} THEN doomed ELSE {}

\* One row after the other, in the order of the database's plan, each when
\* its lock is free.
PurgeRow(x) ==
    /\ x \in NextRows
    /\ \A r \in Requests : ~HoldsToken(r, x) /\ ~HoldsFamily(r, x)
    /\ doomed' = doomed \ {x}
    /\ cut' = cut \cup {x}
    /\ UNCHANGED <<dbVars, grace, pc, txVars, reqVars>>

\* The COMMIT checks the foreign key: a token committed since the DELETE of
\* the tokens started keeps its family, and with it all that was to go.
PurgeCommit ==
    /\ doomed = {} /\ cut # {}
    /\ cut' = {}
    /\ IF \A f \in cut \cap Families : TokensOf(f) \subseteq cut
          THEN /\ fam' = [f \in Families |-> IF f \in cut THEN "purged" ELSE fam[f]]
               /\ tok' = [t \in Tokens |->
                             IF sid[t] \in cut THEN "purged" ELSE tok[t]]
          ELSE UNCHANGED <<fam, tok>>
    /\ UNCHANGED <<doomed, reason, expired, sid, active, grace, pc, txVars, reqVars>>

\* The command dies, or the database aborts it: all or nothing is deleted.
PurgeFail ==
    /\ doomed \cup cut # {}
    /\ doomed' = {} /\ cut' = {}
    /\ UNCHANGED <<dbVars, grace, pc, txVars, reqVars>>

-----------------------------------------------------------------------------
(* Deadlocks.                                                              *)

\* The party waits for the row before it can go on.
WaitsFor(p, x) ==
    IF p = Purger THEN x \in NextRows
    ELSE \/ pc[p] = "claim"  /\ x = arg[p]
         \/ pc[p] = "touch"  /\ x = Session(p)
         \/ pc[p] = "revoke" /\ x = cur[p] /\ Revocable(x)

\* The party holds the lock of the row.
Holds(p, x) ==
    IF p = Purger THEN x \in cut ELSE HoldsToken(p, x) \/ HoldsFamily(p, x)

\* Blocks(q, p): p waits for a row that the transaction of q has locked.
Blocks(q, p) == \E x \in Tokens \cup Families : WaitsFor(p, x) /\ Holds(q, x)

Parties == Requests \cup {Purger}

\* A set of parties each of which waits for another of them, and is waited
\* for by another.  A request waits for one row and the purge for the row its
\* plan has next, and a row has one holder: these are the parties on a cycle.
Deadlock(S) ==
    /\ S # {}
    /\ \A p \in S : /\ \E q \in S \ {p} : Blocks(q, p)
                    /\ \E q \in S \ {p} : Blocks(p, q)

\* The database breaks a deadlock by aborting one of its transactions: that
\* of a request, or the purge's, which is PurgeFail.
DeadlockVictim(r) ==
    /\ \E S \in SUBSET Parties : r \in S /\ Deadlock(S)
    /\ Abort(r)

-----------------------------------------------------------------------------
\* The next statement of the code a worker is running.
Step(r) ==
    \/ LoadUser(r) \/ Classify(r) \/ MatchClaim(r) \/ Claim(r) \/ Touch(r)
    \/ ResolveClaimConflict(r) \/ Issue(r) \/ HandleReplay(r)
    \/ SelectFamilies(r) \/ Revoke(r) \/ Commit(r) \/ GracePut(r)

Environment ==
    \/ \E f \in Families, t \in Tokens : OpenSession(f, t)
    \/ \E f \in Families : Expire(f)
    \/ \E u \in Users : SetActive(u)
    \/ \E t \in Tokens : GraceExpire(t)

\* The next statement of the purge.
PurgeRows == \E x \in Tokens \cup Families : PurgeRow(x)
PurgeStep == PurgeTokens \/ PurgeRows \/ PurgeCommit

Next ==
    \/ Environment
    \/ PurgeSelect \/ PurgeStep \/ PurgeFail
    \/ \E r \in Requests :
          \/ \E o \in Operations, t \in Tokens : Arrive(r, o, t)
          \/ Step(r)
          \/ Fail(r)
          \/ DeadlockVictim(r)
          \/ Reply(r)

Spec == Init /\ [][Next]_vars

\* The steps that may wait for the lock of a row.
LockingStep(r) == Claim(r) \/ Touch(r) \/ Revoke(r)

\* A worker, or a purge under way, that can run its next statement eventually
\* does, a row's waiters are served in turn, so none is passed over for ever,
\* and a deadlock is eventually broken.  Nothing forces a request to arrive or
\* to fail, or a purge to start.
FairSpec ==
    /\ Spec
    /\ \A r \in Requests : /\ WF_vars(Step(r))
                          /\ SF_vars(LockingStep(r))
                          /\ WF_vars(DeadlockVictim(r))
    /\ WF_vars(PurgeStep) /\ SF_vars(PurgeRows)

-----------------------------------------------------------------------------
(* Safety.                                                                 *)

\* A family is one line of descent: it never holds two redeemable refresh
\* tokens, however its rotations interleave (exactly one caller's claim wins).
OneCurrentToken ==
    \A t1, t2 \in Tokens :
        (tok[t1] = "unspent" /\ tok[t2] = "unspent" /\ sid[t1] = sid[t2])
            => t1 = t2

\* consume() and what follows it - issue() or the revocation - are one
\* transaction: a session that is not revoked always has a token that can
\* still be redeemed, whatever failed and wherever it failed.
NeverStranded ==
    \A f \in Families :
        fam[f] = "stored" /\ reason[f] = None
            => \E t \in Tokens : tok[t] = "unspent" /\ sid[t] = f

\* A request redeems nothing whose session is dead when it arrives, or dies
\* before the database lets it claim its token or read it as replayed:
\* revocation cuts refresh off at once, the grace window included.
RevocationIsInstant ==
    \A r \in Requests :
        pc[r] = "done" /\ ans[r] \in {"ok", "replayed"} => Session(r) \in seen[r]

\* A refusal that promises the session is dead leaves it dead: reuse detected
\* with burning on, or a subject that may not keep a session.  The burn is
\* committed by the time the answer is given, whatever was rolled back.
BurnSurvives ==
    \A r \in Requests :
        /\ pc[r] = "done"
        /\ \/ ans[r] = "reused" /\ BurnOnReuse
           \/ ans[r] = "refused" /\ why[r] = "admin"
        => Dead(Session(r))

\* "Signed out." is true: after a logout its session is dead, and after a
\* logout-all every session the user had when it arrived is.
SignedOut ==
    \A r \in Requests :
        /\ pc[r] = "done" /\ ans[r] = "ok"
        => /\ op[r] = "logout" => Dead(Session(r))
           /\ op[r] = "logout_all" => \A f \in seen[r] : Dead(f)

\* What the grace window serves is the pair that token's rotation produced:
\* the presented token is spent and the successor it is answered with is in
\* the store, in the same family.
ReplayServesSuccessor ==
    \A r \in Requests :
        pc[r] = "done" /\ ans[r] = "replayed"
            => /\ tok[arg[r]] \in {"spent", "purged"}
               /\ tok[pair[r]] # "absent"
               /\ sid[pair[r]] = Session(r)

\* As long as the grace cache holds every entry, nobody is taken for a thief:
\* tabs that refresh or log out at once all redeem, or find the session over.
NoFalseAlarm == \A r \in Requests : ans[r] # "reused"

\* Every refusal is one of consume()'s classified outcomes: no exception of
\* the database's own leaves it, whatever the purge deletes meanwhile.
OutcomeIsClassified == \A r \in Requests : ans[r] # "error"

\* Of all requests only logout-alls are ever in a deadlock, with each other or
\* with the purge: every other request locks its token's row first and its
\* family's row second, as the purge locks all its tokens before its families.
OnlyLogoutAllDeadlocks ==
    \A S \in SUBSET Parties :
        Deadlock(S) => \A r \in S \ {Purger} : op[r] = "logout_all"

\* The purge is "safe to run while you serve traffic": it is in no deadlock.
\* Not so (PurgeDeadlock.cfg): the families of its DELETE and those a logout-all
\* revokes are locked in two orders, and the database aborts one of the two.
PurgeNeverDeadlocks == \A S \in SUBSET Parties : Deadlock(S) => Purger \notin S

\* The first reason recorded for a family is final.
FirstReasonWins ==
    [][\A f \in Families : reason[f] # None => reason'[f] = reason[f]]_vars

\* The database changes as SessionLedger says: every transaction is one atomic
\* login, rotation, sign-out, revocation or purge.
Ledger == INSTANCE SessionLedger

ImplementsLedger == Ledger!Spec

-----------------------------------------------------------------------------
(* Liveness.                                                               *)

\* Every request ends: waits for row locks never last for ever.
EveryRequestEnds ==
    \A r \in Requests : pc[r] # "idle" ~> pc[r] \in {"done", "idle"}
=============================================================================
