--------------------------- MODULE PasswordChange ---------------------------
(***************************************************************************)
(* revoke_on_password_change() (revocation.py), the pre_save receiver on   *)
(* the user model, among the saves that reach it - a password change, a    *)
(* profile edit, a save of last_login, Django's upgrade of a hash at login *)
(* - and the logins and logouts of one user that run beside them.          *)
(*                                                                         *)
(* One action is one statement or one commit.  A request runs inside a     *)
(* transaction of its caller or in autocommit: pre_save is sent before     *)
(* Model.save() opens one of its own.                                      *)
(***************************************************************************)
EXTENDS Naturals

CONSTANTS
    Requests, Passwords, None,
    Hashes,   \* a hash that nobody holds any more may be made again
    Sessions  \* bound: as many logins are made

VARIABLES
    store,    \* the configured store, "orm" or "cache"
    weak,     \* hashes an upgrade of the hasher has made outdated
    \* --- the database, committed
    hash,     \* the user's password column, None if there is no row
    fam,      \* fam[s]: "none", "live", or the reason it was revoked for
    \* --- the hashes made so far
    secret,   \* secret[h]: the password h was made from, None before
    \* --- one local state per request
    pc,       \* the statement it runs next
    op,       \* what it was called for
    atomic,   \* does it run inside one transaction?
    inst,     \* the password hash of the instance it holds
    save,     \* which fields the save it is in writes
    todo,     \* the families it still has to revoke
    wrote,    \* a password it has written and not committed
    staged,   \* families it has revoked and not committed
    mine,     \* the name of the session its login opens
    \* --- history, read by properties only
    with,     \* with[s]: the password that opened s
    before,   \* the sessions that stood when the receiver was called
    killed,   \* the sessions this request revoked
    rival     \* has another request saved a password since this one read it?

database == <<hash, fam>>
local    == <<pc, op, atomic, inst, save, todo, wrote, staged, mine>>
history  == <<with, before, killed, rival>>
vars     == <<store, weak, database, secret, local, history>>

Operations == {"login", "change", "profile", "touch", "logout"}
Fields     == {"all", "password", "last_login"}

ASSUME NoneAssumption ==
    None \notin Hashes \cup Passwords \cup Sessions \cup Operations \cup Fields

TypeOK ==
    /\ store \in {"orm", "cache"} /\ weak \subseteq Hashes
    /\ hash \in Hashes \cup {None}
    /\ fam \in [Sessions -> {"none", "live", "logout", "password_change"}]
    /\ secret \in [Hashes -> Passwords \cup {None}]
    /\ pc \in [Requests -> {"idle", "compare", "select", "revoke", "save",
                            "open", "issued", "commit", "done"}]
    /\ op \in [Requests -> Operations \cup {None}]
    /\ atomic \in [Requests -> BOOLEAN]
    /\ inst \in [Requests -> Hashes \cup {None}]
    /\ save \in [Requests -> Fields \cup {None}]
    /\ todo \in [Requests -> SUBSET Sessions]
    /\ wrote \in [Requests -> Hashes \cup {None}]
    /\ staged \in [Requests -> SUBSET Sessions]
    /\ mine \in [Requests -> Sessions \cup {None}]
    /\ with \in [Sessions -> Passwords \cup {None}]
    /\ before \in [Requests -> SUBSET Sessions]
    /\ killed \in [Requests -> SUBSET Sessions]
    /\ rival \in [Requests -> BOOLEAN]
    /\ \A r \in Requests :
          pc[r] \in {"idle", "done"} => wrote[r] = None /\ staged[r] = {}

Init ==
    /\ store \in {"orm", "cache"}
    /\ \E h \in Hashes, p \in Passwords :
          /\ hash \in {h, None}
          /\ secret = [g \in Hashes |-> IF g = h /\ hash = h THEN p ELSE None]
          /\ weak \in {{}, {h}}
    /\ fam = [s \in Sessions |-> "none"]
    /\ pc = [r \in Requests |-> "idle"] /\ op = [r \in Requests |-> None]
    /\ atomic = [r \in Requests |-> FALSE]
    /\ inst = [r \in Requests |-> None] /\ save = [r \in Requests |-> None]
    /\ todo = [r \in Requests |-> {}]
    /\ wrote = [r \in Requests |-> None] /\ staged = [r \in Requests |-> {}]
    /\ mine = [r \in Requests |-> None]
    /\ with = [s \in Sessions |-> None]
    /\ before = [r \in Requests |-> {}] /\ killed = [r \in Requests |-> {}]
    /\ rival = [r \in Requests |-> FALSE]

-----------------------------------------------------------------------------
(* What a statement of r sees and waits for.  Definitions whose name says   *)
(* Faulty are the ones below them with a plausible mistake; no action uses  *)
(* them.                                                                    *)

\* The password column, its own transaction's write included.
Seen(r) == IF wrote[r] # None THEN wrote[r] ELSE hash

\* A session that r has opened and not committed.
Unseen(r, s) == s = mine[r] /\ with[s] # None /\ fam[s] = "none"

\* The user's families with no revoked_at, those of its own transaction too.
Standing(r) ==
    {s \in Sessions : /\ s \notin staged[r]
                      /\ fam[s] = "live" \/ Unseen(r, s)}

\* Rows that somebody else has written and not committed are locked.
FamilyFree(r, s) == \A q \in Requests \ {r} : s \notin staged[q]
UserFree(r)      == \A q \in Requests \ {r} : wrote[q] = None

Goto(r, label) == pc' = [pc EXCEPT ![r] = label]

\* The password column becomes h for everybody.
Publish(r, h) ==
    /\ hash' = h
    /\ rival' = [q \in Requests |-> rival[q] \/ (q # r /\ pc[q] # "idle")]

\* A transaction that is not cleared away.
FaultyEndTx(r) == UNCHANGED <<wrote, staged>>

EndTx(r) ==
    /\ wrote' = [wrote EXCEPT ![r] = None]
    /\ staged' = [staged EXCEPT ![r] = {}]

\* An exception leaves the view: what is not committed is lost.
Abort(r) ==
    /\ Goto(r, "done")
    /\ todo' = [todo EXCEPT ![r] = {}]
    /\ killed' = [killed EXCEPT ![r] = @ \ staged[r]]
    /\ EndTx(r)
    /\ UNCHANGED <<store, weak, database, secret, op, atomic, inst, save, mine,
                   with, before, rival>>

-----------------------------------------------------------------------------
(* Requests.                                                               *)

\* A request begins, in a transaction or not, with an instance of the user.
Begin(r, o, label, h, fields) ==
    /\ pc[r] = "idle"
    /\ Goto(r, label)
    /\ op' = [op EXCEPT ![r] = o]
    /\ \E a \in BOOLEAN : atomic' = [atomic EXCEPT ![r] = a]
    /\ inst' = [inst EXCEPT ![r] = h]
    /\ save' = [save EXCEPT ![r] = fields]
    /\ UNCHANGED <<store, weak, database, wrote, staged, history>>

\* set_password(): a new salt, so a hash that nobody holds.
MakeHash(h, p) ==
    /\ h # hash /\ h \notin weak
    /\ \A r \in Requests : inst[r] # h
    /\ secret' = [secret EXCEPT ![h] = p]

\* authenticate() with the right password: one read of the row, and a save of
\* a stronger hash of the same password if the stored one is outdated.
Authenticate(r, s) ==
    /\ hash # None
    /\ with[s] = None /\ \A q \in Requests : mine[q] # s
    /\ mine' = [mine EXCEPT ![r] = s]
    /\ \/ /\ hash \notin weak
          /\ Begin(r, "login", "open", hash, None)
          /\ UNCHANGED <<secret, todo>>
       \/ /\ hash \in weak
          /\ \E h \in Hashes :
                /\ MakeHash(h, secret[hash])
                /\ Begin(r, "login", "compare", h, "password")
          /\ UNCHANGED todo

\* A view loads the user and sets a password, or creates a user with one.
SetPassword(r) ==
    /\ \E h \in Hashes, p \in Passwords :
          MakeHash(h, p) /\ Begin(r, "change", "compare", h, "all")
    /\ UNCHANGED <<todo, mine>>

\* A view loads the user and saves something else: every field of the instance,
\* or last_login alone.
Edit(r) ==
    /\ hash # None
    /\ \/ Begin(r, "profile", "compare", hash, "all")
       \/ Begin(r, "touch", "compare", hash, "last_login")
    /\ UNCHANGED <<secret, todo, mine>>

\* A logout ends one session.
Logout(r, s) ==
    /\ fam[s] # "none"
    /\ Begin(r, "logout", "revoke", None, None)
    /\ todo' = [todo EXCEPT ![r] = {s}]
    /\ UNCHANGED <<secret, mine>>

-----------------------------------------------------------------------------
(* The receiver and the save around it.                                    *)

\* The receiver without its comparison.
FaultyUnchanged(r) == Seen(r) = None

\* No previous row, or the same password in it.
Unchanged(r) == Seen(r) \in {None, inst[r]}

Compare(r) ==
    /\ pc[r] = "compare"
    /\ Goto(r, IF Unchanged(r) THEN "save" ELSE "select")
    /\ before' = [before EXCEPT ![r] = {s \in Sessions : fam[s] = "live"}]
    /\ UNCHANGED <<store, weak, database, secret, op, atomic, inst, save, todo,
                   wrote, staged, mine, with, killed, rival>>

\* revoke_all_for_user(): one SELECT, and an UPDATE for each family it found.
SelectFamilies(r) ==
    /\ pc[r] = "select" /\ store = "orm"
    /\ todo' = [todo EXCEPT ![r] = Standing(r)]
    /\ Goto(r, IF Standing(r) = {} THEN "save" ELSE "revoke")
    /\ UNCHANGED <<store, weak, database, secret, op, atomic, inst, save,
                   wrote, staged, mine, history>>

Reason(r) == IF op[r] = "logout" THEN "logout" ELSE "password_change"

\* TokenFamily.revoke(): waits for the row, and revokes what still stands.
Revoke(r, s) ==
    /\ pc[r] = "revoke" /\ s \in todo[r]
    /\ FamilyFree(r, s)
    /\ todo' = [todo EXCEPT ![r] = @ \ {s}]
    /\ Goto(r, IF todo[r] # {s} THEN "revoke"
               ELSE IF op[r] = "logout" THEN "commit" ELSE "save")
    /\ IF s \in Standing(r)
          THEN /\ killed' = [killed EXCEPT ![r] = @ \cup {s}]
               /\ IF atomic[r]
                     THEN /\ staged' = [staged EXCEPT ![r] = @ \cup {s}]
                          /\ UNCHANGED fam
                     ELSE /\ fam' = [fam EXCEPT ![s] = Reason(r)]
                          /\ UNCHANGED staged
          ELSE UNCHANGED <<killed, staged, fam>>
    /\ UNCHANGED <<store, weak, hash, secret, op, atomic, inst, save, wrote,
                   mine, with, before, rival>>

\* `except Exception` in the receiver.
FaultyCaught(error) == error \in {"NotImplementedError", "DatabaseError"}

\* What the receiver catches of its store's errors.
Caught(error) == error = "NotImplementedError"

\* The cache store's revoke_all_for_user() raises; the ORM store's may.  What
\* the receiver catches it logs, and the save goes on.
StoreError(r) ==
    /\ op[r] # "logout"
    /\ pc[r] \in {"select", "revoke"}
    /\ IF Caught(IF store = "cache" THEN "NotImplementedError"
                                    ELSE "DatabaseError")
          THEN /\ Goto(r, "save")
               /\ todo' = [todo EXCEPT ![r] = {}]
               /\ UNCHANGED <<store, weak, database, secret, op, atomic, inst,
                              save, wrote, staged, mine, history>>
          ELSE Abort(r)

\* Model.save()'s own statement, which leaves a password alone it was not told
\* to write.  (The row's lock is kept with a written password only: the lock of
\* a save of last_login could only take behaviours away.)
Save(r) ==
    /\ pc[r] = "save"
    /\ UserFree(r)
    /\ hash = None => save[r] = "all"
    /\ IF save[r] = "last_login"
          THEN UNCHANGED <<hash, wrote, rival>>
          ELSE IF atomic[r]
                  THEN /\ wrote' = [wrote EXCEPT ![r] = inst[r]]
                       /\ UNCHANGED <<hash, rival>>
                  ELSE /\ Publish(r, inst[r])
                       /\ UNCHANGED wrote
    /\ Goto(r, IF save[r] = "password" THEN "open" ELSE "commit")
    /\ UNCHANGED <<store, weak, fam, secret, op, atomic, inst, save, todo,
                   staged, mine, with, before, killed>>

-----------------------------------------------------------------------------
(* Login after authenticate(), and how a request ends.                     *)

\* open_session() for the user that authenticate() returned.
Open(r) ==
    /\ pc[r] = "open"
    /\ with' = [with EXCEPT ![mine[r]] = secret[inst[r]]]
    /\ fam' = IF atomic[r] THEN fam ELSE [fam EXCEPT ![mine[r]] = "live"]
    /\ Goto(r, "issued")
    /\ UNCHANGED <<store, weak, hash, secret, op, atomic, inst, save, todo,
                   wrote, staged, mine, before, killed, rival>>

\* token_issued: a receiver may save last_login on the login's own instance.
Issued(r) ==
    /\ pc[r] = "issued"
    /\ \/ Goto(r, "commit") /\ UNCHANGED save
       \/ /\ Goto(r, "compare")
          /\ save' = [save EXCEPT ![r] = "last_login"]
    /\ UNCHANGED <<store, weak, database, secret, op, atomic, inst, todo,
                   wrote, staged, mine, history>>

\* send() swallows what that receiver raises.  A database error rolls its
\* savepoint back: revocations it staged are undone, the login's are not, and
\* the two never mix, for a password the login wrote is locked and compares
\* equal.
ReceiverRaises(r) ==
    /\ op[r] = "login" /\ save[r] = "last_login"
    /\ pc[r] \in {"compare", "select", "revoke", "save"}
    /\ Goto(r, "commit")
    /\ todo' = [todo EXCEPT ![r] = {}]
    /\ \/ UNCHANGED <<staged, killed>>
       \/ /\ wrote[r] = None
          /\ staged' = [staged EXCEPT ![r] = {}]
          /\ killed' = [killed EXCEPT ![r] = @ \ staged[r]]
    /\ UNCHANGED <<store, weak, database, secret, op, atomic, inst, save,
                   wrote, mine, with, before, rival>>

Commit(r) ==
    /\ pc[r] = "commit"
    /\ Goto(r, "done")
    /\ fam' = [s \in Sessions |->
                 CASE s \in staged[r] -> Reason(r)
                   [] s \notin staged[r] /\ Unseen(r, s) -> "live"
                   [] OTHER -> fam[s]]
    /\ IF wrote[r] # None THEN Publish(r, wrote[r]) ELSE UNCHANGED <<hash, rival>>
    /\ EndTx(r)
    /\ UNCHANGED <<store, weak, secret, op, atomic, inst, save, todo, mine,
                   with, before, killed>>

\* Any exception, or the death of the worker.
Fail(r) == pc[r] \notin {"idle", "done"} /\ Abort(r)

Release(r) ==
    /\ pc[r] = "done"
    /\ Goto(r, "idle")
    /\ op' = [op EXCEPT ![r] = None]
    /\ atomic' = [atomic EXCEPT ![r] = FALSE]
    /\ inst' = [inst EXCEPT ![r] = None]
    /\ save' = [save EXCEPT ![r] = None]
    /\ mine' = [mine EXCEPT ![r] = None]
    /\ before' = [before EXCEPT ![r] = {}]
    /\ killed' = [killed EXCEPT ![r] = {}]
    /\ rival' = [rival EXCEPT ![r] = FALSE]
    /\ UNCHANGED <<store, weak, database, secret, todo, wrote, staged, with>>

\* A statement of r.
Step(r) ==
    \/ SetPassword(r) \/ Edit(r)
    \/ \E s \in Sessions : Authenticate(r, s) \/ Logout(r, s) \/ Revoke(r, s)
    \/ Compare(r) \/ SelectFamilies(r) \/ StoreError(r) \/ Save(r)
    \/ Open(r) \/ Issued(r) \/ ReceiverRaises(r)
    \/ Commit(r) \/ Fail(r) \/ Release(r)

Next == \E r \in Requests : Step(r)

Spec == Init /\ [][Next]_vars

-----------------------------------------------------------------------------

\* Fail-closed: as soon as the database has the new password of a change, no
\* session stands that stood when the change was saved, whatever failed, was
\* rolled back or logged out in between.
NewPasswordMeansRevoked ==
    \A r \in Requests :
        store = "orm" /\ op[r] = "change" /\ hash = inst[r]
            => \A s \in before[r] : fam[s] # "live"

\* Who does not change the hash ends no session, as long as nobody else saved a
\* password meanwhile: an edit ends none, nor does a login where no hash is
\* outdated, though its receivers save the user.  A login that upgrades the hash
\* compares unequal and ends the user's other sessions, never the one it opens.
UnchangedEndsNothing ==
    \A r \in Requests :
        ~rival[r] =>
            /\ op[r] \in {"profile", "touch"} \/ (op[r] = "login" /\ weak = {})
                  => killed[r] = {}
            /\ op[r] = "login" => mine[r] \notin killed[r]

\* "A password change revokes every session under ORMTokenStore": once nobody
\* is at work, every session was opened with the present password.
EverySessionRevoked ==
    store = "orm" /\ hash # None /\ (\A r \in Requests : pc[r] = "idle")
        => \A s \in Sessions : fam[s] = "live" => with[s] = secret[hash]

\* "A save that does not touch the password must not revoke anything."
UntouchedMeansQuiet ==
    \A r \in Requests : op[r] = "touch" => killed[r] = {}
=============================================================================
