# A TLA+ model of django-signet

`django-signet` issues JWT access and refresh tokens for Django REST
framework, keeps one *family* per login session in a token store, and rotates
the refresh token at every refresh.  This directory holds TLA+ specifications
of the parts where an interleaving, a crash, a timeout or a stale read decides
whether a session is safe, the TLC configurations that check them, and TLAPS
proofs about them.

Contents: [the system](#the-system) -
[the modules](#the-modules-and-the-code) - [the runs](#the-runs) -
[where the code and its documentation differ](#where-the-code-and-its-documentation-differ) -
[the proofs](#the-proofs) - [what is left out](#what-is-left-out) -
[the plan](#the-plan).

## The system

Paths are relative to `src/src/django_signet/`.

| Component | State it keeps | Operations | What makes it correct |
|---|---|---|---|
| Rotation policy, `sessions/rotation.py` | none of its own | `open_session`, `rotate`, `revoke`, `revoke_all`; `_redeem`, `_settle`, `_handle_replay`, `_burn` | a token redeems once; theft burns the family; a failure half way strands nobody |
| ORM store, `sessions/stores/orm.py`, `sessions/models.py` | rows of `TokenFamily`, `IssuedToken` | `open_family`, `issue`, `consume`, `is_live`, `revoke_family`, `revoke_all_for_user`, `purge_expired` | one claim of a token wins; the first reason wins; a revocation is instant |
| Store port, `sessions/stores/base.py` | none | the operations both stores implement, and their `Outcome`s | every store is the same atomic ledger |
| Cache store, `sessions/stores/cache.py` | four kinds of entries, each with a timeout | the same port; `revoke_all_for_user` and `purge_expired` unsupported | a marker outlives whatever it has to stop |
| Grace window, in `rotation.py` | a cache entry per rotation | `_grace_put`, `_grace_get` | a replay gets the successor that was stored, and only from a session that stands |
| Auth endpoints, `views.py` | none | login, refresh, verify, logout, logout-all | what is answered is true; cookies are cleared only on a proven origin |
| Authentication classes, `authentication.py` | none | `authenticate`, `check_family` | a strict class rejects a session from its revocation on |
| CSRF, `csrf.py`; transports, `transport/` | the browser's cookies | `issue_csrf`, `validate_csrf`, `attach`, `clear` | whoever can refresh can also pass the check |
| Browser client, `src/docs/examples/client.js` | a promise per page | `login`, `api`, `refresh`, `logout` | tabs that share a jar do not end each other's session |
| Users, `users.py` | `is_active` | `load_user`, `ensure_active` | a disabled account loses its sessions |
| Purge, `management/commands/signet_purge.py` | none | `purge_expired` | nothing live disappears |
| Signals and isolation, `signals.py`, `isolation.py` | receivers | `send`, `savepoint_if_in_transaction` | a receiver that fails disturbs nothing; what it records is true |
| Password change, `revocation.py` | a `pre_save` receiver | `revoke_on_password_change` | no session survives the password it was opened with |
| Configuration, factory, backends, system checks, `conf.py`, `checks/`, `tokens/backends.py`, `sessions/stores/factory.py` | the deployed settings | `ALL_CHECKS`, `get_backend`, `get_store`, names and attributes of the cookies | silence of the checks means that a browser is served |
| Realms, `views.py`, `urls.py`, `transport/` with `src/docs/howto/realms.md` | a transport and a policy per realm | the endpoints of each, `get_user`, `get_claims`, `validate_claims` | a realm serves its own sessions; nothing is believed of another site's form |
| Tokens, claims, hashing, `tokens/`, `hashing.py` | | `mint`, `verify`, `build_claims`, `token_digest` | pure |

How they interact.  A view reads the refresh credential through the transport
(the cookie transport runs `validate_csrf`), and hands it to `RotationPolicy`.
The policy calls the store, in a transaction of its own around
`consume()` and what follows it, and the grace cache outside that transaction.
Strict authentication classes ask the store's `is_live()` at every API request.
Signals are sent by the store that revokes and by the policy.  Workers share the
database and the cache and nothing else; tabs of a browser share the cookie jar
and nothing else; `signet_purge` and administrators change the database at any
moment.

What is hard about it:

* two requests present one token, and every statement of the one may fall
  between any two of the other's;
* the grace entry is written *after* the commit (or, under `ATOMIC_REQUESTS`,
  before it), in a cache that may fail or forget;
* exceptions, rollbacks and dead workers between the redemption of a token and
  the issue of its successor, or after the burn of a family;
* row locks of two tables taken in different orders by refresh, logout,
  logout-all and the purge;
* a cache store with no transaction at all, whose timeouts are whole seconds
  and whose lifetimes are not;
* answers of two tabs that reach the browser in the other order, lost answers,
  cookies that are read by the page at one moment and attached by the browser at
  another;
* receivers that raise, write or break the transaction in the middle of a
  revocation, and events sent inside a transaction that is then rolled back;
* a password that is saved while somebody logs in with the old one, and saves of
  instances that were loaded before it;
* browsers that keep the cookies of an earlier deployment under the same name;
* realms that share a store and a grace cache, so that a token of one can be
  refreshed, replayed or signed out at another.

`PROJECT.json` lists each of these as a hazard at the line where it bites, with
the properties that would catch it.

## The modules and the code

    SessionLedger          what the store port promises, one atomic step each
      ^ implemented by           ^ used as the server's ledger by
    SessionRotation        Browser
      ^                        ^
    MCSessionRotation      MCBrowser, BrowserProofs

    SessionRotation  <-  SessionRotationProofs  <-  SessionLineageProofs

    TokenStore             what the store port promises, call by call
      ^ implemented by
    CacheStore  <-  MCCacheStore, CacheStoreProofs

    PasswordChange <- MCPasswordChange, PasswordChangeProofs
    Signals        <- MCSignals, SignalsProofs
    Deployment     <- MCDeployment, DeploymentProofs
    Realms         <- MCRealms, RealmsProofs

Definitions whose name begins with `Faulty` are variants of the definition
below them with a plausible mistake.  No action uses them; `PROJECT.json` names,
for every checked property, one that breaks it, so that each property is known
to be able to fail.

### SessionLedger: the abstract specification

`fam`, `reason`, `tok`, `sid` - sessions, why they ended, tokens, and which
session a token belongs to - and five atomic steps: `Open`, `Rotate`,
`SignOut`, `Revoke`, `Forget`.  Its guards are the contract of
`sessions/stores/base.py`: redemption needs an unspent token, spends it and in
the same step replaces it or ends its session; the first reason is kept.

`Rotate` and `SignOut` do not ask that the session is unrevoked.  `consume()` does,
in the `WHERE` of the claim; but these steps are the *commit*, and between the two
nothing but `last_used_at` touches the family's row.  Another worker's revocation
may commit there, and the rotation then commits a successor of a session that is
already over, which no claim will redeem.  That no claim is made of an ended session
is `RevocationIsInstant`, which looks at the moment of the claim.

### SessionRotation: the policy over the ORM store

One action is **one SQL statement, one cache call or one commit**.  The worker's
program counter `pc[r]` names the statement it runs next.

| Action | Code |
|---|---|
| `OpenSession` | `open_session()`: family and first token, one transaction nobody can look into |
| `Arrive`, `Reply` | a request of any endpoint but login with any refresh token ever handed out; its answer |
| `LoadUser` | `rotate()`: `load_user`, `ensure_active`, `get_claims`, signing, before the store is touched; the refusal of a disabled account |
| `Classify` | `consume()`'s `SELECT` and what it makes of the row |
| `MatchClaim`, `Claim` | `_claim()`: the conditional `UPDATE`, which finds its row by a sub-select over a join and then waits for the row's lock |
| `Touch` | the `UPDATE` of `last_used_at`, in the same transaction |
| `ResolveClaimConflict` | `_resolve_claim_conflict()`, which reads the family again |
| `Issue` | `store.issue()` |
| `HandleReplay` | `_handle_replay()`, `_grace_get()`, `_burn()` |
| `SelectFamilies`, `Revoke` | `revoke_all_for_user()` and the conditional `UPDATE` of `TokenFamily.revoke()` |
| `Commit` | the end of `atomic()`, of the view's transaction, or of nothing (autocommit) |
| `GracePut` | `_grace_put()`, before or after the commit |
| `Fail`, `DeadlockVictim` | an exception or a dead worker anywhere; the database aborting one of a deadlock |
| `PurgeSelect`, `PurgeTokens`, `PurgeRow`, `PurgeCommit`, `PurgeFail` | `purge_expired()`: the `SELECT` of the expired families, the `DELETE`s of their tokens and of themselves, which lock row by row in the order of the database's plan, the foreign-key check at the commit, and the death of the command |
| `Expire`, `SetActive`, `GraceExpire` | the clock, administrators, the grace cache's timeout and eviction |

The database is modelled at READ COMMITTED: statements read what is committed,
uncommitted writes are kept in `wrote` and `staged` and are at the same time the
locks (`HoldsToken`, `HoldsFamily`), `Commit` makes them visible and `Fail` drops
them.  An `UPDATE` waits for a row only if the committed row matches its `WHERE`
(`Revocable`).  The rows an open purge has deleted and so locked are in `cut`; its
transaction is that of the party `Purger`, and one purge runs at a time.  Four
constants choose the deployment:

* `BurnOnReuse` - `RotationPolicy.burn_family_on_reuse`;
* `AtomicRequests` - Django's `ATOMIC_REQUESTS`, the whole view one transaction;
* `ClaimRechecked` - does an `UPDATE` evaluate its whole `WHERE` clause once more
  on the row it has waited for?
* `ReliableCache` - no grace entry is lost.

A token is an opaque value; `tok` holds the state of its row and `sid` the
family its row and its claims name.  `seen` is history: the sessions the request
acts on that were live at its arrival, and that were live again when the database
let it claim its token or read it as replayed (`StillLive`).

### TokenStore and CacheStore: the other store

`TokenStore` is the port call by call, each call at one instant: `Issue`,
`Consume`, `RevokeFamily`.  `Consume` redeems a token that was issued, once, and
none whose family was revoked before.  `Report` sends `family_revoked`, once at most
for a family (`sent`) and only after its revocation.  `CacheStore` implements it
(`ImplementsPort`): a token is issued when its entry is written, redeemed when
`consume()` has looked at the revocation marker the second time, and a family is
revoked when its marker is added - for ever, whatever timeouts pass afterwards.

One action is **one cache call**, with the local computation next to it:
`GetFamily`, `Check`, `Claim`, `Recheck` are `consume()`; `Issue` is `issue()`;
`Find`, `Mark`, `Drop` are `revoke_family()`; `Login` is `open_family()` and the
signing.  `family`, `token`, `used` and `revoked` hold the time at which each of
the store's four kinds of entries leaves the cache.  The clock ticks every **half
second**, because `_ttl()` rounds down to whole seconds and `_consumed_ttl()`
rounds up, and what matters is the half second in between.  `Release` is an
answer, an exception or the death of the worker at any point: nothing is rolled
back.  `live`, `sent` and `late` are history: how often a token redeemed, how
often `family_revoked` was sent, and what was over when a request arrived.

### Browser: cookies and tabs

Handlers are one step here (`Login`, `Unread`, `Disabled`, `Dead`, `Error`,
`Replay`, `Reuse`, `Logout`, `Api`), taken over the ledger's steps, which
`SessionRotation` is shown to implement.  A refresh is two, as in autocommit:
`Refresh` is the commit of the rotation, and `Grant` writes the grace entry and
answers.  In between, `putting` holds the pair, and whatever another tab does may
fall there; if the request is lost, the worker writes the entry for nobody
(`GrantNobody`) or has died.  What interleaves is the tabs:
`Fetch` - the page reads the CSRF cookie into the header; `Send` - the browser
attaches the cookies of *that* moment; a handler; `Deliver` - the answer's cookies
replace the jar's.  Between any two of them other tabs act.  `api()`'s one refresh
and retry are the calls `renew` and `retry`.  Of a CSRF token only what the
double-submit check can tell is kept: whether the header a page has read still
equals the cookie (`hdr`).  A pair of tokens is named by its refresh token.
`Environment` holds what happens to a browser: `Restart`, `Lapse` (cookies
reaching their expiry), `Lose` (a lost request or answer), and clocks, outages of
the grace cache and administrators.

History: `out`, sessions that were answered to be signed out; `late`, requests
sent after that; `calm`, which is false from the first failure of the grace cache,
the first entry that runs out while its token is in use (`InUse`), and the first
request that is taken for theft between a rotation's commit and its grace entry.

### PasswordChange: the `pre_save` receiver

One action is one statement of a request that saves the user, logs in or logs
out.  `Compare` is the receiver's read of the stored hash; `SelectFamilies`,
`Revoke` and `StoreError` are `revoke_all_for_user()` in either store; `Save` is
`Model.save()`'s own statement, which comes after; `Authenticate`, `Open` and
`Issued` are the login, with Django's upgrade of an outdated hash before it and a
receiver that saves `last_login` (`src/docs/examples/last_login.py`) after it.
`pre_save` is sent before `save()` opens its transaction, so without a
transaction of the caller's the revocations commit one by one (`atomic`).  `inst`
is the hash of the instance a request has loaded, which is what may be stale.

### Signals: receivers, savepoints and transactions

`pc` is the step a request is at - the UPDATE of a revocation, the dispatch after
it, the ends of `atomic()` - `cur` the family that is about and `todo` the families
a logout-all has still to come to.  `Following`, `AfterRevoking` and `GoOn` are the
order of the code.  A request holds a stack of frames, one per open `atomic()`; a
frame is the set of changes written in it.
`BeginSend`, `Call` and `EndSend` are `send()` with
`savepoint_if_in_transaction()`: a receiver writes a row, has a statement refused
by the database, raises, or does any two of these; a refused statement breaks the
innermost frame, which `Pop` then rolls back.  `Nameless` receivers have
no `__qualname__`: when one raises, Django's own failure logging raises too, and
the rest of the dispatch is abandoned.  `Hook` is `on_reuse_detected`, called in
a savepoint of its own.

### Deployment: what the checks say and what the endpoints do

`cfg` is the deployed configuration.  The first half translates the checks, each
the set of messages it reports (`CheckTypes` ... `CheckRefreshCookiePath`,
`Messages`); the second half translates what the same settings do at request time
(`ResolvedName`, `BackendBuilds`, `CanSign`, `VerifyingKey`, `StoreBuilds`,
`GraceWorks`, and `CookiesWork`: `set_cookie()` and with it every answer that sets
or clears a cookie raises for a name that is no string and for a `SameSite` it does
not know) and what a browser does with the cookies (RFC 6265 and the name
prefixes of 6265bis).  The two halves are separate code in the repository too,
which is the reason for the module.  `Deploy` puts another configuration in place
and leaves the browser its jar, so that several cookies of one name can be in it.

### Realms: one store, several realms

A realm is the policy of its cookies (or none), whether it reads the
`Authorization` header, and whether it binds its sessions with a claim as
`src/docs/examples/realm_binding_urls.py` does.  Requests come from a page, an app
or a form on another site; `Extract`, `Ambient`, `Reads` and `Cleared` are
`extract_refresh`, `refresh_is_ambient`, `read_refresh_credential` and
`clear_cookies`.  `Carry` copies tokens from any place to any other.  A handler is
one step: `SessionRotation` takes it apart.

## The runs

| Run | Instance | Checks |
|---|---|---|
| `OneSession` | 2 workers, 1 session, 3 tokens, autocommit, everything of the environment | `TypeOK`, `OneCurrentToken`, `NeverStranded`, `RevocationIsInstant`, `BurnSurvives`, `ReplayServesSuccessor`, `FirstReasonWins`, `ImplementsLedger` |
| `ManySessions` | 2 workers, 2 sessions of one user, `ATOMIC_REQUESTS`, fair | `SignedOut`, `OnlyLogoutAllDeadlocks`, `BurnSurvives`, `EveryRequestEnds` |
| `AtomicTabs` | 3 workers, 4 tokens, `ATOMIC_REQUESTS`, reliable cache | `NoFalseAlarm` |
| `CacheSessions` | 2 workers, 1 session, 2 tokens, lifetimes of 1.5 s and 1 s | `TypeOK`, `RedeemedOnce`, `OverNeverRedeems`, `StrictRejectsRevoked`, `ImplementsPort` |
| `TwoTabs` | 2 tabs, 2 sessions, 3 tokens, strict views | `TypeOK`, `NeverStrandedByCsrf`, `ClearedMeansOver`, `SignedOutStaysOut`, `NoFalseAlarm` |
| `PasswordSaves` | 2 requests, 2 logins, 3 hashes, both stores | `TypeOK`, `NewPasswordMeansRevoked`, `UnchangedEndsNothing` |
| `Receivers` | 2 requests, 2 families, 2 receivers and the hook | `TypeOK`, `AnsweredMeansDone`, `RowsAreTrue`, `AutocommitKeepsRows` |
| `CheckedSettings` | 3704 configurations, 8 of them deployed over one another | `TypeOK`, `SilenceMeansServed`, `LogoutReachesTheSession`, `LoopBroken`, `SignedOutAnswersNothing` |
| `ThreeRealms` | a hybrid, a bound and a header realm, 2 sessions, `SameSite=None` | `TypeOK`, `BoundViews`, `RefusedIsDead`, `NothingFromElsewhere`, `HeaderSignOutIsReal` |
| `PurgeRace`, `SlowConsume`, `LoginRace` | | one violated claim each, [below](#where-the-code-and-its-documentation-differ) |

What the properties of `SessionRotation` say together: however two requests
interleave and wherever they fail, a session that was not revoked has **exactly
one** redeemable token - at least one on any database (`NeverStranded`), at most one
where `_claim()` is evaluated again after a wait for the row's lock
(`OneCurrentToken`; `ClaimRechecked`, and see `SnapshotClaim` below).  On such a
database a request redeems nothing once the session is revoked, whether it arrives
after the revocation or the revocation falls before its claim or its read of a
replayed token, and the grace window is no way around it (`RevocationIsInstant`).
A refusal for reuse or for a disabled account leaves the
session dead (`BurnSurvives`) and "Signed out." is true (`SignedOut`); a replay
is answered with the pair that was stored (`ReplayServesSuccessor`); and, with
`ClaimRechecked` again, every
transaction is one atomic step of the ledger (`ImplementsLedger`), where a
logout-all that redeems through the grace window in autocommit is several such
steps, each ending one session.  `ATOMIC_REQUESTS` is a flag of the module and
the theorems cover both of its values; the runs that set it are `AtomicTabs` and
`ManySessions`, where a burn is part of a transaction that the view's failure may
still roll back.  `BurnOnReuse` off is left to the theorems.

Of the newer modules: a saved password has ended every session that stood when it
was compared, whatever failed or was rolled back on the way
(`NewPasswordMeansRevoked`).  An edit of other fields, and a login that upgrades no
hash, ends no session unless somebody else has saved a password meanwhile; a login
that does upgrade one ends the user's other sessions, and never its own
(`UnchangedEndsNothing`).  No receiver changes what a request has answered
(`AnsweredMeansDone`), and what receivers have recorded is true and recorded once,
also when a revocation was rolled back and repeated (`RowsAreTrue`).  When the
checks say nothing, no endpoint fails and a browser that has signed in under this
configuration is served (`SilenceMeansServed`).  A realm that binds its sessions
serves no other, by whichever detour a token came (`BoundViews`).

**Bounds.**  Three tokens per session let a family be rotated twice, so that a
token can be current, replaced and replaced long ago while two requests present
any two of them; every race in this code is between two requests on one token,
one session or two sessions of one user, and the third worker of `AtomicTabs`
lets one tab find the grace entry of a rotation that a second one is still
waiting for.  Tokens bound the refreshes that *arrive* - a refresh takes the name
of its successor with it - so a bound never stops a request half way.
The purge deletes in one transaction, one at a time, and takes as many of its rows'
locks before or after any statement of a request as its plan allows.
`ManySessions` and `AtomicTabs` stop at states where a session has expired or an
account is disabled (`NoClockNoAdmin`), so that nothing is purged in them.
`OneSession` has those events, `PurgeDeadlock` the purge beside a logout-all of
several sessions, and `OnlyLogoutAllsWaitInACircle` is proved with the purge in it;
that a request ends is checked without it.  In
`CacheSessions` the login comes first (`LoginFirst`; nothing depends on absolute
time), `MaxTime` is past the expiry of every token, entry and marker but the
revocation's, `MinTTL` is scaled down from 60 s to 1 s together with the
lifetimes, and 1.5 s is odd in half seconds so that rounding bites.  In `TwoTabs`
the gap between a commit and its grace entry is no event and is always there, and
`MaxEvents` lets one event of the environment happen at any moment: each of them
is a hazard on its own.

In `PasswordSaves` three hashes are the stored one, a new one and one that another
request's instance still holds; hashes of one password suffice, as the receiver
compares hashes.  In `Receivers` rows are followed for the events that begin or
end a session and counted to two; while a second family exists requests come one
at a time and end sessions by the logout of all (`OneByOne`), since that request
is the one that dispatches in the middle of a loop.  `AllSettings` of
`CheckedSettings` varies all the cookie settings against three mount points, and
separately all keys, algorithms, stores and caches: the two groups meet in no
check, and at the endpoints each of them decides separately whether a request
fails.  At most one cookie name is explicit, so that no two cookies share a name,
the keys of an RSA pair belong together, and `SameSite` is one of the three that
`set_cookie()` knows: no check looks at any of these (`WellFormed`).  Two changes of configuration (`MaxDeploys`) and three
rotations leave cookies of three generations in one jar (a fourth deployment is
what the condition of `SignedOutAnswersNothing` is about, see
[DeploymentProofs](#deploymentproofs)); what is deployed over one
another changes names, keys and stores, or paths and domains (`Changes`, `Moves`),
and may pass from one kind to the other through the defaults.  In `ThreeRealms`
each sort of realm is there once, and one lost answer, copied token, dropped grace
entry or expired access token (`MaxEvents`) happens at any moment; its properties
are theorems for any number.  States that a view or a foreign form has led to are
checked and not continued (`AfterChanges`): nothing but the answer has changed.

**Deadlock** is checked everywhere but in the two cache runs, whose clock stops
at `MaxTime`.

**Symmetry** permutes workers, sessions, tokens and tabs, which no definition
tells apart (there is one user), in the runs that check safety; `ManySessions`,
the one run with a liveness property, uses none, nor does `CheckedSettings`, where
the two sessions have different bounds.

**Fairness** (`FairSpec`, used by `ManySessions` only).  Weak fairness of the
next statement of a worker and of a purge under way: the operating system and the
database run everybody who can run.  Strong fairness of the three statements of a
worker that wait for a row lock, and of the purge's rows:
databases queue a row's waiters, so none is passed over for ever.  Weak fairness
of `DeadlockVictim`: the database detects deadlocks.  Nothing is assumed of
clients, clocks or failures, nor that a purge ever starts.

## Where the code and its documentation differ

Three runs check a sentence of the repository and TLC finds it violated.

* **PurgeRace**, `OutcomeIsClassified`.  The how-to calls the purge safe while
  traffic is served.  A family purged between `consume()`'s read and
  `_resolve_claim_conflict()` makes `DoesNotExist` leave `consume()`.
* **SlowConsume**, `RedeemedOnce`.  `_consumed_ttl()` promises that the spent
  marker lasts until `consume()` answers EXPIRED.  `consume()` reads the clock
  before its `add()`: a worker that stalls in between for more than a second
  after the first marker's timeout redeems the token again.
* **LoginRace**, `EverySessionRevoked`.  The how-to promises that a password
  change "revokes every session under `ORMTokenStore`"
  (`src/docs/howto/migrating-from-simplejwt.md:25`).  `revoke_all_for_user()` reads
  the families of that moment; a login that has authenticated with the old password
  opens its family afterwards and nothing compares again (`revocation.py:68`).

Further divergences have a configuration beside the runs (`tlc -config X.cfg M`);
TLC answers each with a counterexample:

| Configuration, module | Property | What the repository says, and what happens |
|---|---|---|
| `SnapshotClaim`, `MCSessionRotation` | `OneCurrentToken` | `orm.py:27`: a conditional `UPDATE ... WHERE consumed_at IS NULL` is atomic on every backend.  The filter of `_claim()` spans a join and compiles to a sub-select; where that is not evaluated again after the wait for the row's lock (`ClaimRechecked = FALSE`) two claims of one token win.  The repository's own plan left this to be verified. |
| `StaleGrace`, `MCSessionRotation` | `ReplayServesSuccessor` | `rotation.py:438`: the successor is stored before `_grace_put()`.  Under `ATOMIC_REQUESTS` the view's transaction may still roll back, the cache does not, and when the retry's own put fails a replay is served a pair that is in no store. |
| `PurgeDeadlock`, `MCSessionRotation` | `PurgeNeverDeadlocks` | `docs/howto/purging.md:33`: it is safe to run while you serve traffic.  The `DELETE` locks the expired families in the order of its plan, a logout-all revokes those of its user, the expired ones too, in its own: each can hold a row the other waits for, and the database aborts one of the two. |
| `GapAlarm`, `MCBrowser` | `NeverTakenForTheft` | `docs/explanation/limitations.md:63` and `rotation.py:307` say so themselves: in autocommit a request that falls between a rotation's commit and its grace entry is taken for theft.  Two tabs suffice. |
| `FalseFromRefresh`, `MCBrowser` | `RefreshFalseMeansOver` | `client.js`: `refresh()` resolves false when the session is over.  A tab that reads its header before another tab's new cookies arrive, and is sent after, is answered 403. |
| `StaleInstance`, `MCPasswordChange` | `UntouchedMeansQuiet` | `revocation.py:32`: a save that does not touch the password must not revoke anything.  A save of `last_login` with an instance loaded before another request's change compares unequal and ends every session. |
| `SentTwice`, `MCSignals` | `SentOnce` | `signals.py:66`: never sent a second time for the same family.  The event is sent inside the caller's transaction; rolled back and repeated, it is sent again. |
| `DeadCookie`, `MCDeployment` | `RefusedIsCleared` | `views.py:95`: an invalid credential our own page sent is cleared.  `clear()` expires the cookie at the path of today; one of a wider path under the same name is read, refused, and never cleared.  Hence the premise of `LoopBroken` and `Tidy`. |
| `OtherAlgorithm`, `MCDeployment` | `SilenceMeansServed` | `checks/__init__.py:41`: a clean `manage.py check` means the settings are coherent.  An `ALGORITHM` that is neither HMAC nor RSA passes, and every login is a 500 (`backends.py:174`). |
| `OtherSameSite`, `MCDeployment` | `SilenceMeansServed` | The same sentence.  A `COOKIE_SAMESITE` that is not Lax, None or Strict passes the checks, Django's `set_cookie()` raises `ValueError`, and every login through the cookie transport is a 500. |
| `HostPrefix`, `MCDeployment` | `SilenceMeansServed` | `checks/cookies.py:126`: a derived name satisfies its prefix.  Under `COOKIE_SECURE=False` the base is `COOKIE_PREFIX` unchanged; if that begins with `__Host-` browsers drop the cookies. |
| `UnstampedPair`, `MCRealms` | `StampedAtEveryRefresh` | `src/docs/howto/realms.md:137`: `get_claims` stamps both tokens at every refresh at this realm.  A replay in the window is served the pair that another realm signed (`rotation.py:348`). |

Observations that no run states, because the repository promises nothing of them
or documents them:

* The alarm of `GapAlarm` exists in autocommit only.  `AtomicTabs` checks
  `NoFalseAlarm` without any exception under `ATOMIC_REQUESTS`, where the entry
  precedes the commit; `TwoTabs` checks that in autocommit the gap, a failing cache
  and an entry that has run out are the only ways to it.
* The cache's `consume()` never compares the *family's* `expires_at`, so a session
  shorter than the minimum timeout of an entry would redeem after its end; the
  assumption `Prompt` excludes it, and real lifetimes are far longer.
* A tab that completes a refresh while an older one of another tab is still
  under way has its newer cookies replaced by the older answer.  Within the grace
  window this is harmless, as `NoFalseAlarm` shows; once the entry that leads from
  the older pair to the newer has run out, the next refresh is a false alarm, and
  `calm` ends there.
* A late 401, or the 200 of a late logout, whose own session is over clears the
  cookies of a newer login.
* With `BurnOnReuse` off, a logout with a token replaced long ago answers
  "Signed out." to a cookie client and ends nothing on the server; hence the
  premise of `SignedOutStaysOut`.
* A save of every field with a stale instance can write an old hash back, and if
  it was read after the change's revocations it revokes nothing new.  Django's
  upgrade of a hash at login counts as a password change and signs out the user's
  other devices; of two logins that both upgrade, the second ends the first's
  session; and a `last_login` receiver with a stale instance can end the session
  that was just opened.
* An explicit CSRF cookie name under a newly set `COOKIE_DOMAIN` leaves two CSRF
  cookies, and every refresh is a 403 until one expires.  A logout after the
  refresh path was narrowed ends the session of the older cookie and drops the
  newer one's cookie without revoking it.  Hence `Tidy`.
* `settings.py:41` says that browsers decline a `Path` that is not a path; by
  RFC 6265, 5.2.4, they take the directory of the request instead, which
  `CookiePath` models.
* The staff realm answers "the session was not opened at the staff realm" also to a
  session that was opened there and refreshed once at the default realm, and
  revokes it (`realm_binding_urls.py:23`).
* In a hybrid realm `verify` may read the header of a client whose access cookie
  has expired, and so speak of another session than its refresh would renew;
  `OneCredential` excludes hybrid realms.  A hybrid logout that presents nothing
  answers "Signed out.".

## The proofs

### SessionRotationProofs

For every set of workers, sessions, tokens and users and every setting of the
four flags:

* `TypeCorrect`: `Spec => []TypeOK`, including that no lock outlives its request;
* `FirstReasonIsFinal`: `Spec => FirstReasonWins`.

`FirstReasonWins` is not inductive by itself: `Commit` writes the reasons of all
families in `staged[r]`, and overwrites nothing only because whatever is staged
was unrevoked when it was staged *and has been locked since*.  The invariant
`Secure` has two layers.  `Shape` says what a worker holds at each program
counter (a worker at `commit` that staged a revocation has a reason; one outside
a transaction has staged nothing).  `Locks` says that no two workers hold one
row and that a staged family's committed reason is still `None`.  `ShapeNext`
and `LocksNext` show action by action that each layer is kept, the second with
the first as a hypothesis.

### SessionLineageProofs

On top of `Secure`, for all constants again:

* `OneTokenRedeems`: `ClaimRechecked` implies `Spec => []OneCurrentToken`;
* `RevokedAtOnce`: `ClaimRechecked` implies `Spec => []RevocationIsInstant`;
* `NobodyIsStranded`, `BurnsAreFinal`, `SignOutsAreTrue`: `NeverStranded`,
  `BurnSurvives` and `SignedOut`, on any database.

The invariant `Faithful` has three parts.

* `Rows` makes the tokens of a family one line of descent: a token that a request
  has claimed is locked and, if claims are evaluated again, still unspent until
  that request commits; the successor it has signed is not stored yet; no two
  requests have claimed one token or signed one successor.  So a commit that
  stores a successor spends the one token that could be redeemed.  Without
  `ClaimRechecked` this fails, as `SnapshotClaim` shows; `RevokedAtOnce` needs the
  hypothesis because a claim that was matched and not looked at again may be of a
  session that has been revoked since.
* `Ends` follows a revocation from the decision to the answer.  `EndingOf`: a
  request on its way to a revocation has its own session in what it is about to
  end (`Ending`), or somebody else has ended it; a logout-all, each session it has
  seen.  `DoneOf` says the same of the committed state once the request has
  ended, which is `BurnSurvives` and `SignedOut`; `SeenOf` says that a request
  past `consume()`'s read acts on a session that lived at its arrival, and one that
  has claimed or found its token replayed on one that lived then too, which is
  `RevocationIsInstant`.  `AnswerOf` ties the answer to the way it came about.
* `NeverStranded` is inductive with those two: a claim and the successor's insert
  become visible in one commit or not at all.

Each action is shown to keep each part, and a step of one worker leaves what is
said of the others alone (`OthersStill`).

The rest of the module is about the grace window and about waiting, each with an
invariant of its own beside `Faithful`:

* `ReplaysAreSuccessors`: `~AtomicRequests` implies `Spec => []ReplayServesSuccessor`.
  `GraceTrue`: an entry of the window, and a pair on its way into it or out of it,
  is stored and is what redeeming the token has put in its place.  It holds because
  the put comes after the commit; `StaleGrace` shows that the hypothesis is needed.
* `NobodyIsAThief`: `AtomicRequests` and `ReliableCache` imply
  `Spec => []NoFalseAlarm`.  `GraceKept`: a replaced token of a session that stands
  has its entry, since the put comes before the commit that makes the replacement
  visible, and a worker that finds its token replaced finds the entry too.
* `OnlyLogoutAllsWaitInACircle`: `Spec => []OnlyLogoutAllDeadlocks`.  `InOrder`:
  whoever waits for a token's row holds no lock, whoever waits for a family's row
  holds no family's, logout-all apart, and one worker holds a row.  `PurgeOrder` says
  the same of the purge: it holds no family's row while it has tokens to delete, and
  no row that a request holds.

The last part is the refinement, `StoreKeepsItsPromise`: `ClaimRechecked`
implies `Spec => ImplementsLedger`. Every statement, failure and event is shown
to change nothing the ledger shows or to be one of its steps. Two actions make
changes visible: `Revoke` in autocommit, and `Commit`, where `CommitTokens` says
what the tokens become and `CommitStep` which ledger step that is. That all
sessions ended in one step belong to one user is the invariant `Owners`.

### CacheStoreProofs

For every number of workers, sessions and tokens:

* `CacheTypeCorrect`: `Spec => []TypeOK`, for all lifetimes and leeways and however
  long a request takes (`TypeInv` adds what a worker holds at each program counter).

From the assumption `Prompt` (a session is at least two seconds long and no shorter
than the shortest timeout, a request takes a second at most):

* `RedeemedAtMostOnce`, `OverIsOver`, `StrictStaysClosed`: the invariants of the run
  `CacheSessions`;
* `PortKept`: `Spec => ImplementsPort`.  `PortInit` maps the initial states, and a
  lemma per action shows it to be a step of `TokenStore` or a stutter.  `Issue` is
  one when the entry was not there yet, `Recheck` is the redemption - a spent
  marker it has won and a revocation marker it does not see, which
  `MarkerStillThere` shows to mean that there never was one - `Mark` is the
  revocation if it wins the `add()`, and `Drop` its report (`DropPort`).  Everything
  else, timeouts included, is
  invisible to the port.

The invariant `Inv` relates entries and clocks: the spent marker of a redeemed
token lasts a second past its expiry (`TokenInv`); a family's entry leaves within
half a second of its expiry unless the family was revoked, and a revocation
marker lasts until the last access token minted in it has stopped verifying
(`FamilyInv`); what a worker knows from its last read stays true until it uses
it, because it arrived at most a second ago (`RequestInv`); and of two workers
only one can have won an `add()` (`PairInv`).  The arithmetic is in five lemmas
about the timeouts.  `SlowConsume` shows that the bound on a request is needed.

### RealmsProofs

For every set of realms and policies, however many sessions and users, and any
number of events:

* `TypesKept`, `FormsChangeNothing`, `BoundToTheRealm`, `RefusedEverywhere`,
  `AppSignOutIsReal`: the five properties of `ThreeRealms`;
* `OneSessionEach`: `Spec => []OneCredential`, that in a cookie or a header realm
  `verify` speaks of the session whose refresh token the same client holds.

The invariant `IInv` adds three parts to `TypeOK`.  `Stamps`: a stamped token is
of a session opened at a bound realm - kept because a bound realm's refresh lets
no unstamped token through (`MayKeep`), although any realm may mint the next pair.
`Opened`: a session that has tokens was opened somewhere.  `Together`: the access
and the refresh token of a place are of one session, whatever was copied, lost or
aged.  `FormsChangeNothing` needs none of them: what a foreign form presents is
ambient and unproven (`FormIsAmbient`), so it is never read as a credential.

### PasswordChangeProofs

For any number of requests, sessions, passwords and hashes, with or without a
transaction around a request: `SavesTyped`, `ChangedMeansRevoked` and
`WithoutAChangeNothingEnds`, the three properties of `PasswordSaves`.

The invariant `IInv` follows a change of the password from the comparison to the
commit.  `Made` says that every hash in use was made from a password, `Opened` that
a session has a name of its own and is opened once.  `Changes`: the new hash of a
request that changes the password is nobody's yet (`Unpublished`), and every session
that was open at its comparison is over or still before it (`Over`).  `Quiet`: an
edit of other fields, and a login past the upgrade of its hash or with none to
upgrade (`WeakStays`), compares equal and ends no session unless another request has
saved a password since.  The sessions opened
between the comparison and the save are in none of them: that is the violation which
`LoginRace` shows.

### BrowserProofs

For any number of tabs, sessions, users, tokens and events, and both values of
`Strict` and `BurnOnReuse`: `BrowserTyped`, `CsrfCookieOutlives`,
`ClearingIsDeserved`, `SignOutIsFinal` and `BenignRacesAreGraced`, the five
properties of `TwoTabs`, and `BrowserKeepsLedger`: what the views do to the stored
sessions is a behaviour of `SessionLedger`, which `SessionLineageProofs` shows the
policy to implement statement by statement.

Of the parts of `IInv`, `Shape` and `Known` say what a call carries at each of its
stages and that all of it was issued; `Answered`, that a session some answer called
over is over, that the request of every deleting answer proved its origin,
and that nobody waits for a refresh of a session that was over when it was sent.
`Quiet` is what makes benign races harmless: while it is calm, a token that is held,
presented or on its way to the browser (`InUse`), of a session that stands, is
current, or the pair that replaced it is in the grace window or still in the hands of
the worker that rotated it (`Covered`, `putting`).  A request that finds its token
replaced is graced, then, or it has come into the gap, which ends the calm.

### DeploymentProofs

For any configurations (the types of their settings are `ConfigurationAssumption`)
deployed over any others in any order, and any number of sessions and refreshes:

* `DeploymentTyped`: `Spec => []TypeOK`;
* `NoRefusedCookieInPlace`: `StaysSecure` implies `Spec => []LoopBroken`;
* `SignedOutIsOut`: `StaysSecure` and `EvenHanded` imply
  `Spec => []SignedOutAnswersNothing`;
* `SilentSettingsServe` and `LogoutIsHeard`: if every configuration is `WellFormed`,
  `Spec => []SilenceMeansServed` and `Spec => []LogoutReachesTheSession`.

`JarKept` says that what is in the jar is a cookie that a browser lets a response
of this configuration expire; then `clear()` takes exactly what is in place
(`ClearTakesPlaces`), and `attach()` leaves alone what is not (`SetLeavesOthers`).
`OutKept`: since the logout the jar has no CSRF cookie, or one that is not in
place, or nothing for a request to carry.

The last two theorems set the two halves of the module against each other.
`SoundMeans` draws from the silence of each check what it says of the settings;
`SoundKeeps`, that a browser then keeps the refresh and the CSRF cookie; and
`PathReaches`, that the path which E008 accepts matches all three endpoints as
browsers match it, a relative or empty path included, for which they take the
directory of the mount point.  The invariant `SignedIn`: what this deployment has
handed the browser was signed with its key and opened in its store, and while the
jar is tidy and the token due, both cookies are in place.  Then the browser
presents that token and no other and proves its origin (`Presents`).

The proofs have found what the theorems need; `MCDeployment` assumes it of the
settings it deploys:

* `StaysSecure`: what is deployed over something marks its cookies Secure.
  Otherwise a browser does not let `clear()` expire a cookie of a prefixed name,
  and the loop of `LoopBroken` is not broken.  Check E001 asks for it in production.
* `EvenHanded`: no cookie path matches one of the endpoints refresh, logout and
  logout-all of some mount point and not another, as one does that ends in
  `/refresh`, which check E008 reports.
* `WellFormed`: what no check looks at.  Without it the two theorems fail:
  `OtherAlgorithm`, `OtherSameSite` and `HostPrefix` show an algorithm and a
  `SameSite` that are not known and an insecure cookie under a
  prefix; the other parts are that the keys of an RSA pair
  belong together, that the refresh and the CSRF cookie have different names, and
  that a mount point begins and ends with a slash.
* The last condition of `SignedOutAnswersNothing`.  With an explicit CSRF cookie
  name, and the domain or the path changed twice, a logout leaves a CSRF cookie of
  an earlier deployment where `clear()` does not reach it, and the refresh cookie
  that lies there is then served: four deployments and three sessions, more than
  the run's bounds, but the attempt to prove it for every bound led to it.

### SignalsProofs

For any number of requests, families and receivers, named or not, with a
transaction of the caller's around any request or none, assuming only that the
hook is no receiver (`ReceiversAssumption`) and that `None` is none of the other
values (`NoneAssumption`):

* `SignalsTyped`: `Spec => []TypeOK`, with it that a request which is answered is
  in no transaction;
* `ReceiversChangeNothing`: `Spec => []AnsweredMeansDone`;
* `RecordsAreTrue`: `Spec => []RowsAreTrue`;
* `AutocommitIsKept`: `Spec => []AutocommitKeepsRows`.

`AnsweredMeansDone` speaks of answers and of what is committed.  It is not
inductive, for until the outermost `atomic()` ends what a request has done is
spread over its frames, and a broken frame takes its part away.  The invariant
`Inv` says which parts may be lost, in three layers:

* `Stacks`: at each step a request is in the frames that the code has opened by
  then, with one around them at most (`Around`).  A savepoint is open only while a
  dispatch is under way, lies inside a transaction, holds rows of receivers and
  nothing else, and is the only frame that can be broken.  This is where
  `savepoint_if_in_transaction()` matters: a rollback takes what receivers wrote
  and never what the sender did.
* `Truth`: what a request has opened or revoked and not committed was new or alive
  (`LoginOf`, `RevokedOf`); each family it is to end has been ended, in the
  database or in its frames, or is still to come (`PromiseOf`); and no two requests
  have ended, or report the end of, the same family (`ApartFrom`), since the
  conditional UPDATE waits for the row and only its winner sends the event.
* `Rowed`: a row in a frame tells of what is committed or lies in the same frames
  (`TellsOf`); and while an end is being reported in autocommit, whoever is still
  to be called has recorded nothing of it (`ReportOf`).

What a stack holds is a union over its frames.  The lemmas `HeldAppend`,
`HeldWrite` and `HeldPop` say what it becomes when a frame is begun, written to or
ended, so that no induction over sequences is needed; `PushEffect`, `WriteEffect`
and `PopEffect` carry that over to requests.  `StepMoves` sums up what one step may
do to the database as seen by the others, and each action has a lemma for `Base`
and one for the rest.

`SentOnce` is not among the theorems: `SentTwice` shows that it fails.

### What stays with TLC

Liveness under fairness (`EveryRequestEnds`) is out of the prover's reach.  Every
other property of a passing run is a theorem.

## What is left out

* **`token_refreshed`** and receivers that call the library again: the first is
  sent when everything is done, the second is another request.
* **`get_user()` at a view** for a disabled account, the authentication failure
  hook, `get_response_data` and `client_ip`: they shape an answer or a record.
* **E005 and W009**: `SIGNET` is a dict in `Deployment`, and `HttpOnly` does not
  change what a browser sends.
* **Plain HTTP**: `Deployment`'s site is served over HTTPS.
* **Eviction** of the cache store's entries before their timeout: a documented
  limitation of `CacheTokenStore` with which nothing would hold.
* **The cryptography of the backends, hashing, `build_claims`, migrations**: pure.
* **Isolation levels above READ COMMITTED**: `select_for_update` is not used, and
  at a higher level a conflicting `UPDATE` fails where it waits here.

## The plan

1. *Done*: `SessionLedger`, `SessionRotation`, `CacheStore`, `Browser`, their runs,
   the invariants and the refinement of `SessionRotation` and the invariants of
   `CacheStore` proved.
2. *Done*: `TokenStore` and the proof that `CacheStore` implements it;
   `PasswordChange`; `Signals`; `Deployment`, with the checks; `Realms`, with the
   header and hybrid transports, and its proofs.
3. *Done*: the proofs of every property of `SessionRotation`, `CacheStore`, `Browser`,
   `PasswordChange`, `Deployment`, `Realms` and `Signals` but liveness.
4. `RotationPolicy` over `CacheStore` with its grace window; logout by an older
   ancestor inside its own window.
