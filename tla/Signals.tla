------------------------------ MODULE Signals ------------------------------
(***************************************************************************)
(* send() (signals.py) and savepoint_if_in_transaction() (isolation.py):   *)
(* what receivers do, and fail to do, around the revocations, burns and    *)
(* logins that call them.                                                  *)
(*                                                                         *)
(* A request is at one of its steps, pc - a statement it runs next or an   *)
(* event it sends next - and holds a stack of frames, one per atomic() it  *)
(* is in - none of them in autocommit.  A frame holds what was written in  *)
(* it.  One action is one statement, one receiver, or one end of a frame.  *)
(***************************************************************************)
EXTENDS Naturals, Sequences

CONSTANTS
    Requests, Families, None,
    Receivers,  \* connected to every signal
    Nameless,   \* those of them without a __qualname__
    Hook        \* RotationPolicy.on_reuse_detected

ASSUME ReceiversAssumption == Nameless \subseteq Receivers /\ Hook \notin Receivers
ASSUME NoneAssumption ==
    None \notin Families \cup {"login", "logout", "logout_all", "burn", "bare",
                              "saved", "ok", "error"}

VARIABLES
    \* --- the database, committed
    fam,      \* fam[f]: "none", "live" or "revoked"
    heard,    \* how many rows a receiver has written about an event of a family
    \* --- one local state per request
    op,       \* what it was called for
    pc,       \* its next step; or the event under way
    cur,      \* the family that is about
    todo,     \* the families a logout-all has still to come to
    frames,   \* its open transaction and savepoints, the innermost last
    broken,   \* the requests whose innermost frame has to be rolled back
    sending,  \* the dispatch under way: "bare", or "saved" by a savepoint
    queue,    \* whom that still has to call
    answer,
    \* --- history, read by properties only
    promised, \* the families an answer speaks of
    kept,     \* rows written by a receiver when no transaction was open
    sent      \* how often family_revoked was sent for a family

database == <<fam, heard>>
local    == <<op, pc, cur, todo, frames, broken, sending, queue, answer>>
history  == <<promised, kept, sent>>
vars     == <<database, local, history>>

Callees    == Receivers \cup {Hook}
Events     == {"token_issued", "family_revoked", "token_reuse_detected",
               "on_reuse_detected"}
Operations == {"login", "logout", "logout_all", "burn"}
Steps      == {"begin", "open", "select", "update", "end", "done"} \cup Events

\* Bound: rows are followed for the events that a session began or ended, and
\* rows and events are counted up to two.
Rows    == Receivers \X {"token_issued", "family_revoked"} \X Families
Counted == 0..2
CountUp(n) == IF n < 2 THEN n + 1 ELSE n

\* What a statement changes; a frame is a set of these.
Opened(f)  == <<"opened", f>>
Revoked(f) == <<"revoked", f>>
Heard(row) == <<"heard", row>>
Changes    == ({"opened", "revoked"} \X Families) \cup ({"heard"} \X Rows)

TypeOK ==
    /\ fam \in [Families -> {"none", "live", "revoked"}]
    /\ heard \in [Rows -> Counted]
    /\ op \in [Requests -> Operations \cup {None}]
    /\ pc \in [Requests -> Steps]
    /\ cur \in [Requests -> Families \cup {None}]
    /\ todo \in [Requests -> SUBSET Families]
    /\ frames \in [Requests -> Seq(SUBSET Changes)]
    /\ broken \subseteq Requests
    /\ sending \in [Requests -> {None, "bare", "saved"}]
    /\ queue \in [Requests -> SUBSET Callees]
    /\ answer \in [Requests -> {None, "ok", "error"}]
    /\ promised \in [Requests -> SUBSET Families]
    /\ kept \subseteq Rows
    /\ sent \in [Families -> Counted]
    /\ \A r \in Requests :
          /\ sending[r] = None => queue[r] = {}
          /\ answer[r] # None => frames[r] = <<>> /\ pc[r] = "done"

Init ==
    /\ fam = [f \in Families |-> "none"]
    /\ heard = [w \in Rows |-> 0]
    /\ op = [r \in Requests |-> None]
    /\ pc = [r \in Requests |-> "done"]
    /\ cur = [r \in Requests |-> None]
    /\ todo = [r \in Requests |-> {}]
    /\ frames = [r \in Requests |-> <<>>]
    /\ broken = {}
    /\ sending = [r \in Requests |-> None]
    /\ queue = [r \in Requests |-> {}]
    /\ answer = [r \in Requests |-> None]
    /\ promised = [r \in Requests |-> {}]
    /\ kept = {}
    /\ sent = [f \in Families |-> 0]

-----------------------------------------------------------------------------
(* What a request does.  Definitions whose name says Faulty are the ones    *)
(* below them with a plausible mistake; no action uses them.                *)

\* open_session() is a transaction of its own inside the login, and so is the
\* redemption inside a logout or a logout-all; a burn is settled after it.
First(o) == IF o = "burn" THEN "update" ELSE "begin"

Following(o, step) ==
    CASE step = "begin" /\ o = "login"      -> "open"
      [] step = "begin" /\ o = "logout"     -> "update"
      [] step = "begin" /\ o = "logout_all" -> "select"
      [] step = "open"                      -> "end"
      [] step = "end" /\ o = "login"        -> "token_issued"
      [] step = "token_reuse_detected"      -> "on_reuse_detected"
      [] OTHER                              -> "done"

\* A transaction that is begun and never ended.
FaultyAfterRevoking(o) == IF o = "burn" THEN "token_reuse_detected" ELSE "done"

AfterRevoking(o) == IF o = "burn" THEN "token_reuse_detected" ELSE "end"

\* r is between two dispatches and its next step is this one.
At(r, step) == sending[r] = None /\ pc[r] = step

Proceed(r, step) == pc' = [pc EXCEPT ![r] = step] /\ UNCHANGED <<cur, todo>>

\* r revokes what is left, in any order, and is then done with revoking.
GoOn(r, left) ==
    IF left = {}
      THEN Proceed(r, AfterRevoking(op[r]))
      ELSE \E f \in left :
              /\ pc' = [pc EXCEPT ![r] = "update"]
              /\ cur' = [cur EXCEPT ![r] = f]
              /\ todo' = [todo EXCEPT ![r] = left \ {f}]

-----------------------------------------------------------------------------
(* Transactions and savepoints.                                            *)

Depth(r) == Len(frames[r])

Push(r) == frames' = [frames EXCEPT ![r] = Append(@, {})]

\* What r has written and not committed; others wait for its rows.
Pending(r) == UNION {frames[r][i] : i \in 1..Depth(r)}

FamilyFree(r, f) ==
    \A q \in Requests \ {r} : {Opened(f), Revoked(f)} \cap Pending(q) = {}

\* Does f stand, for a statement of r?
Stands(r, f) ==
    /\ fam[f] = "live" \/ Opened(f) \in Pending(r)
    /\ Revoked(f) \notin Pending(r)

\* The committed state once the changes w are committed too.
FamAfter(w) ==
    [f \in Families |-> CASE Revoked(f) \in w -> "revoked"
                          [] Revoked(f) \notin w /\ Opened(f) \in w -> "live"
                          [] OTHER -> fam[f]]
HeardAfter(w) ==
    [row \in Rows |-> IF Heard(row) \in w THEN CountUp(heard[row]) ELSE heard[row]]

\* A statement of r writes w: into its innermost frame, or in autocommit.
Write(r, w) ==
    IF Depth(r) = 0
      THEN /\ fam' = FamAfter(w)
           /\ heard' = HeardAfter(w)
           /\ UNCHANGED frames
      ELSE /\ frames' = [frames EXCEPT ![r][Depth(r)] = @ \cup w]
           /\ UNCHANGED database

\* The end of the innermost atomic(): rolled back if it is broken - silently,
\* unless an exception does it - and else kept by the frame around it, or
\* committed.
Pop(r) ==
    LET top   == frames[r][Depth(r)]
        outer == SubSeq(frames[r], 1, Depth(r) - 1)
        n     == Depth(r) - 1
    IN  /\ broken' = broken \ {r}
        /\ frames' = [frames EXCEPT ![r] =
               IF r \in broken \/ n = 0 THEN outer
                                      ELSE [outer EXCEPT ![n] = @ \cup top]]
        /\ IF n = 0 /\ r \notin broken
              THEN fam' = FamAfter(top) /\ heard' = HeardAfter(top)
              ELSE UNCHANGED database

-----------------------------------------------------------------------------
(* Requests.                                                               *)

\* A request of a view, under ATOMIC_REQUESTS or not.
Arrive(r, o, f) ==
    /\ op[r] = None
    /\ o = "login" <=> fam[f] = "none"
    /\ o = "login" => \A q \in Requests : op[q] = "login" => promised[q] # {f}
    /\ op' = [op EXCEPT ![r] = o]
    /\ pc' = [pc EXCEPT ![r] = First(o)]
    /\ cur' = [cur EXCEPT ![r] = f]
    /\ \/ UNCHANGED frames
       \/ Push(r)
    /\ promised' = [promised EXCEPT ![r] = {f}]
    /\ UNCHANGED <<database, todo, broken, sending, queue, answer, kept, sent>>

Begin(r) ==
    /\ At(r, "begin")
    /\ Push(r)
    /\ Proceed(r, Following(op[r], pc[r]))
    /\ UNCHANGED <<database, op, broken, sending, queue, answer, history>>

End(r) ==
    /\ At(r, "end")
    /\ Pop(r)
    /\ Proceed(r, Following(op[r], pc[r]))
    /\ UNCHANGED <<op, sending, queue, answer, history>>

OpenFamily(r) ==
    /\ At(r, "open")
    /\ Write(r, {Opened(cur[r])})
    /\ Proceed(r, Following(op[r], pc[r]))
    /\ UNCHANGED <<op, broken, sending, queue, answer, history>>

\* revoke_all_for_user(): the families that stand, in whatever order the SELECT
\* brings them.
SelectFamilies(r) ==
    /\ At(r, "select")
    /\ LET standing == {f \in Families : Stands(r, f)}
       IN  /\ promised' = [promised EXCEPT ![r] = standing]
           /\ GoOn(r, standing)
    /\ UNCHANGED <<database, op, frames, broken, sending, queue, answer, kept,
                   sent>>

\* An event whether the UPDATE changed a row or not.
FaultyAfterUpdate(r, won) == Proceed(r, "family_revoked")

\* TokenFamily.revoke(): no event if the UPDATE changed no row.
AfterUpdate(r, won) ==
    IF won THEN Proceed(r, "family_revoked") ELSE GoOn(r, todo[r])

\* The conditional UPDATE, once the row is free.
Update(r) ==
    /\ At(r, "update")
    /\ FamilyFree(r, cur[r])
    /\ IF Stands(r, cur[r]) THEN Write(r, {Revoked(cur[r])})
                            ELSE UNCHANGED <<database, frames>>
    /\ AfterUpdate(r, Stands(r, cur[r]))
    /\ UNCHANGED <<op, broken, sending, queue, answer, history>>

\* All steps are done: the view answers, and its transaction ends.
Answer(r) ==
    /\ op[r] # None /\ At(r, "done") /\ answer[r] = None
    /\ answer' = [answer EXCEPT ![r] = "ok"]
    /\ IF Depth(r) = 0 THEN UNCHANGED <<database, frames, broken>> ELSE Pop(r)
    /\ UNCHANGED <<op, pc, cur, todo, sending, queue, history>>

\* An exception of the request itself, a BaseException of a receiver's, or the
\* death of the worker: every open transaction is lost.
Fail(r) ==
    /\ op[r] # None /\ answer[r] = None
    /\ answer' = [answer EXCEPT ![r] = "error"]
    /\ pc' = [pc EXCEPT ![r] = "done"]
    /\ todo' = [todo EXCEPT ![r] = {}]
    /\ frames' = [frames EXCEPT ![r] = <<>>]
    /\ broken' = broken \ {r}
    /\ sending' = [sending EXCEPT ![r] = None]
    /\ queue' = [queue EXCEPT ![r] = {}]
    /\ UNCHANGED <<database, op, cur, history>>

Release(r) ==
    /\ answer[r] # None
    /\ op' = [op EXCEPT ![r] = None]
    /\ answer' = [answer EXCEPT ![r] = None]
    /\ cur' = [cur EXCEPT ![r] = None]
    /\ promised' = [promised EXCEPT ![r] = {}]
    /\ UNCHANGED <<database, pc, todo, frames, broken, sending, queue, kept, sent>>

-----------------------------------------------------------------------------
(* send(), and the call of on_reuse_detected in _burn().                   *)

\* No savepoint, and a savepoint whether a transaction is open or not.
FaultyNeverSaved(r)  == r \notin Requests
FaultyAlwaysSaved(r) == r \in Requests

\* savepoint_if_in_transaction().
Saved(r) == Depth(r) > 0

BeginSend(r) ==
    /\ \E event \in Events : At(r, event)
    /\ sending' = [sending EXCEPT ![r] = IF Saved(r) THEN "saved" ELSE "bare"]
    /\ queue' = [queue EXCEPT ![r] =
                    IF pc[r] = "on_reuse_detected" THEN {Hook} ELSE Receivers]
    /\ IF Saved(r) THEN Push(r) ELSE UNCHANGED frames
    /\ sent' = IF pc[r] = "family_revoked"
                 THEN [sent EXCEPT ![cur[r]] = CountUp(@)] ELSE sent
    /\ UNCHANGED <<database, op, pc, cur, todo, broken, answer, promised, kept>>

\* The sender is in no transaction of its own.
Unowned(r) == Depth(r) = IF sending[r] = "saved" THEN 1 ELSE 0

\* One callee runs.  It writes a row, or has a statement refused by the
\* database, or neither, and returns or raises.  A refused statement breaks the
\* innermost frame, in which the database then takes no other.  What a callee
\* without a name raises, and what the hook raises, leaves the savepoint.
Call(r, c) ==
    LET row == <<c, pc[r], cur[r]>>
        leaves(raises) == raises /\ c \in Nameless \cup {Hook}
    IN  /\ sending[r] # None /\ c \in queue[r]
        /\ \E does \in {"writes", "breaks", "nothing"}, raises \in BOOLEAN :
              /\ does = "writes" => r \notin broken
              /\ IF does = "writes" /\ row \in Rows
                    THEN Write(r, {Heard(row)})
                    ELSE UNCHANGED <<database, frames>>
              /\ broken' =
                    IF \/ does = "breaks" /\ Depth(r) > 0
                       \/ leaves(raises) /\ sending[r] = "saved"
                      THEN broken \cup {r} ELSE broken
              /\ queue' = [queue EXCEPT ![r] = IF leaves(raises) THEN {} ELSE @ \ {c}]
              /\ kept' = IF does = "writes" /\ row \in Rows /\ Unowned(r)
                           THEN kept \cup {row} ELSE kept
        /\ UNCHANGED <<op, pc, cur, todo, sending, answer, promised, sent>>

\* The savepoint ends, and whatever was raised in it has been logged.
EndSend(r) ==
    /\ sending[r] # None /\ queue[r] = {}
    /\ IF sending[r] = "saved" THEN Pop(r) ELSE UNCHANGED <<database, frames, broken>>
    /\ sending' = [sending EXCEPT ![r] = None]
    /\ IF pc[r] = "family_revoked" THEN GoOn(r, todo[r])
                                   ELSE Proceed(r, Following(op[r], pc[r]))
    /\ UNCHANGED <<op, queue, answer, history>>

Next ==
    \E r \in Requests :
        \/ \E o \in Operations, f \in Families : Arrive(r, o, f)
        \/ Begin(r) \/ End(r)
        \/ OpenFamily(r) \/ SelectFamilies(r) \/ Update(r)
        \/ BeginSend(r) \/ (\E c \in Callees : Call(r, c)) \/ EndSend(r)
        \/ Answer(r) \/ Fail(r) \/ Release(r)

Spec == Init /\ [][Next]_vars

-----------------------------------------------------------------------------

\* A receiver cannot change the outcome: when a login, logout, logout-all or a
\* refusal for reuse is answered, the database holds what it says, whatever the
\* receivers and the hook raised, wrote or broke, and in whatever transaction.
AnsweredMeansDone ==
    \A r \in Requests :
        answer[r] = "ok" =>
            \A f \in promised[r] :
                IF op[r] = "login" THEN fam[f] # "none" ELSE fam[f] = "revoked"

\* What receivers record in the database is true: no row tells of a revocation,
\* or a login, that did not last - it is rolled back with what it reports, and
\* written after it - and a revocation is recorded once, also when it was rolled
\* back and had to be repeated.
RowsAreTrue ==
    \A c \in Receivers, f \in Families :
        /\ heard[<<c, "token_issued", f>>] > 0 => fam[f] # "none"
        /\ heard[<<c, "family_revoked", f>>] > 0 => fam[f] = "revoked"
        /\ heard[<<c, "family_revoked", f>>] <= 1

\* Outside a transaction what one receiver wrote stays, whatever the others do.
AutocommitKeepsRows == \A row \in kept : heard[row] > 0

\* "Never sent a second time for the same family: revocation is
\* first-reason-wins."
SentOnce == \A f \in Families : sent[f] <= 1
=============================================================================
