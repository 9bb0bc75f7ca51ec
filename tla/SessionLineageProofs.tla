------------------------ MODULE SessionLineageProofs ------------------------
(***************************************************************************)
(* What the rotation model promises of a session, for every number of      *)
(* workers, sessions, tokens and users: one redeemable token, an end that  *)
(* is final, a grace window that serves the successor, and no circle of    *)
(* waits but among logout-alls.  The invariant stands on Shape and Locks   *)
(* of SessionRotationProofs.  Last, that it implements SessionLedger.      *)
(***************************************************************************)
EXTENDS SessionRotationProofs

-----------------------------------------------------------------------------
(* The rows: one line of descent per family.                               *)

\* r still means to issue the successor it signed, or has inserted it and not
\* yet committed.
Signing(r) ==
    /\ op[r] = "refresh"
    /\ \/ pc[r] \in {"user", "classify", "match", "claim", "touch", "issue",
                     "resolve", "replay"}
       \/ "issue" \in wrote[r]

\* A token is of no family before it is stored; then it is of a stored one, and
\* goes when that goes.
RowsOf(t) ==
    /\ tok[t] = "absent" => sid[t] = None
    /\ tok[t] # "absent" =>
          /\ fam[sid[t]] # "absent"
          /\ fam[sid[t]] = "purged" => tok[t] = "purged"

\* What a request presents was issued, what it has claimed it has locked, and
\* what it has signed is not stored.
HandOf(r) ==
    /\ pc[r] # "idle" => tok[arg[r]] # "absent"
    /\ "claim" \in wrote[r] =>
          /\ tok[arg[r]] # "purged" /\ arg[r] \notin cut
          /\ ClaimRechecked => tok[arg[r]] = "unspent"
    /\ Signing(r) => tok[pair[r]] = "absent"

\* No two requests have claimed one token or signed one successor.
ApartFrom(r, s) ==
    /\ Signing(r) /\ Signing(s) => pair[r] # pair[s]
    /\ "claim" \in wrote[r] /\ "claim" \in wrote[s] => arg[r] # arg[s]

Rows ==
    /\ \A t \in Tokens : RowsOf(t)
    /\ \A r \in Requests : HandOf(r)
    /\ \A r, s \in Requests : r # s => ApartFrom(r, s)
    /\ ClaimRechecked => OneCurrentToken

-----------------------------------------------------------------------------
(* Revocations: what a request has set out to end, it ends.                *)

\* The families r has revoked without committing it, or is about to revoke.
Ending(r) == staged[r] \cup todo[r] \cup ({cur[r]} \ {None})

\* A request on its way to a revocation revokes its own session, and a
\* logout-all every session it has seen, but for those that are over already.
EndingOf(r) ==
    pc[r] \in {"revoke", "commit"} /\ "issue" \notin wrote[r] =>
       /\ Session(r) \in Ending(r) \/ Dead(Session(r))
       /\ op[r] = "logout_all" /\ ans[r] = "ok" =>
             \A f \in seen[r] : f \in Ending(r) \/ Dead(f)

\* Where the reason and the answer of a request come from.
AnswerOf(r) ==
    /\ pc[r] \in (Lockless \ {"done"}) \cup {"touch"} => why[r] = None
    /\ pc[r] \notin {"idle", "done", "revoke", "commit"} => ans[r] = "ok"
    /\ pc[r] = "commit" /\ "issue" \in wrote[r] => ans[r] = "ok"
    /\ pc[r] \in {"revoke", "commit"} /\ "issue" \notin wrote[r] =>
          /\ ans[r] \in {"ok", "reused", "refused"}
          /\ op[r] = "refresh" => ans[r] # "ok"

\* What a request that has ended leaves behind.
DoneOf(r) ==
    pc[r] = "done" =>
       /\ ans[r] = "reused" /\ BurnOnReuse => Dead(Session(r))
       /\ ans[r] = "refused" /\ why[r] = "admin" => Dead(Session(r))
       /\ ans[r] = "ok" /\ op[r] # "refresh" => Dead(Session(r))
       /\ ans[r] = "ok" /\ op[r] = "logout_all" => \A f \in seen[r] : Dead(f)

\* A request has seen its session, unless that is over; and it gets past
\* consume()'s SELECT, and past the claim, only if it was not by then.
SeenOf(r) ==
    /\ pc[r] # "idle" => Session(r) \in seen[r] \/ Dead(Session(r))
    /\ pc[r] # "idle" =>
          \A f \in seen[r] : Owner[f] = Owner[Session(r)] /\ fam[f] # "absent"
    /\ ClaimRechecked =>
          \/ pc[r] \in {"idle", "user", "classify"}
          \/ pc[r] \in {"revoke", "commit", "done"}
                /\ ans[r] \notin {"ok", "replayed"}
          \/ Session(r) \in seen[r]

EndsOf(r) == EndingOf(r) /\ AnswerOf(r) /\ DoneOf(r) /\ SeenOf(r)

Ends == \A r \in Requests : EndsOf(r)

Faithful == Rows /\ Ends /\ NeverStranded
-----------------------------------------------------------------------------
(* What a step leaves alone.                                               *)

\* The steps of a worker that only concern itself, and the others.
Quiet(r) ==
    \/ Fail(r) \/ DeadlockVictim(r) \/ Reply(r)
    \/ LoadUser(r) \/ Classify(r) \/ MatchClaim(r) \/ Touch(r)
    \/ ResolveClaimConflict(r) \/ Issue(r) \/ HandleReplay(r)
    \/ SelectFamilies(r) \/ Revoke(r) \/ GracePut(r)

Busy(r) ==
    \/ \E o \in Operations, t \in Tokens : Arrive(r, o, t)
    \/ Claim(r) \/ Commit(r) \/ Quiet(r)

\* Nothing of the request of s changes.
Still(s) == Untouched(s) /\ ans'[s] = ans[s] /\ seen'[s] = seen[s]

\* The purge moves no request.
LEMMA PurgeStill ==
    ASSUME NEW s \in Requests, Purging \/ PurgeCommit PROVE Still(s)
BY DEF Purging, PurgeSelect, PurgeTokens, PurgeRow, PurgeFail, PurgeCommit,
       Still, Untouched, txVars, reqVars

LEMMA StartRevokingStill ==
    ASSUME Types, NEW r \in Requests, NEW s \in Requests \ {r}, NEW fs, NEW w,
           StartRevoking(r, fs, w)
    PROVE  /\ pc'[s] = pc[s] /\ why'[s] = why[s]
           /\ todo'[s] = todo[s] /\ cur'[s] = cur[s]
BY DEF StartRevoking, Types

\* A worker's step is its own.
LEMMA OthersStill ==
    ASSUME Types, NEW r \in Requests, NEW s \in Requests \ {r}, Busy(r)
    PROVE  Still(s)
<1> USE DEF Types, Still, Untouched, dbVars, txVars, reqVars
<1>1. ASSUME NEW o \in Operations, NEW t \in Tokens, Arrive(r, o, t) PROVE Still(s)
  BY <1>1 DEF Arrive
<1>2. CASE Claim(r)
  BY <1>2 DEF Claim
<1>3. CASE Touch(r)
  <2>1. CASE op[r] \in {"refresh", "logout_all"}
    BY <1>3, <2>1 DEF Touch
  <2>2. CASE op[r] \notin {"refresh", "logout_all"}
    BY <1>3, <2>2, StartRevokingStill DEF Touch
  <2> QED
    BY <2>1, <2>2
<1>4. CASE Commit(r)
  BY <1>4 DEF Commit, EndTx
<1>5. CASE Fail(r) \/ DeadlockVictim(r) \/ Reply(r)
  BY <1>5 DEF Fail, DeadlockVictim, Reply, Abort, EndTx, Release
<1>6. CASE LoadUser(r)
  BY <1>6, StartRevokingStill DEF LoadUser
<1>7. CASE Classify(r) \/ MatchClaim(r) \/ ResolveClaimConflict(r)
  BY <1>7 DEF Classify, MatchClaim, ResolveClaimConflict, Finish
<1>8. CASE Issue(r) \/ GracePut(r)
  BY <1>8 DEF Issue, GracePut
<1>9. CASE HandleReplay(r)
  BY <1>9, StartRevokingStill DEF HandleReplay, Finish
<1>10. CASE SelectFamilies(r)
  BY <1>10, StartRevokingStill DEF SelectFamilies
<1>11. CASE Revoke(r)
  BY <1>11 DEF Revoke
<1> HIDE DEF Types, Still, Untouched, dbVars, txVars, reqVars
<1> QED
  BY <1>1, <1>2, <1>3, <1>4, <1>5, <1>6, <1>7, <1>8, <1>9, <1>10, <1>11
     DEF Busy, Quiet

\* What a quiet step does to what Rows speaks of.
QuietFacts(r) ==
    /\ UNCHANGED <<fam, tok, sid, purgeVars>>
    /\ \/ pc'[r] = "idle" /\ op'[r] = None /\ wrote'[r] = {}
       \/ /\ pc[r] # "idle" /\ op'[r] = op[r] /\ arg'[r] = arg[r]
          /\ "claim" \in wrote'[r] => "claim" \in wrote[r]
          /\ Signing(r)' => Signing(r) /\ pair'[r] = pair[r]

LEMMA QuietRows ==
    ASSUME Types, NEW r \in Requests, ShapeOf(r), Quiet(r)
    PROVE  QuietFacts(r)
<1> USE DEF Types, dbVars, txVars, reqVars, ShapeOf, Lockless, QuietFacts, Signing
<1>1. CASE Touch(r)
  <2>1. pc'[r] \in {"issue", "revoke", "commit", "select"}
    BY <1>1 DEF Touch, StartRevoking
  <2> QED
    BY <1>1, <2>1 DEF Touch
<1>2. CASE Fail(r) \/ DeadlockVictim(r) \/ Reply(r)
  BY <1>2 DEF Fail, DeadlockVictim, Reply, Abort, EndTx, Release
<1>3. CASE LoadUser(r)
  BY <1>3 DEF LoadUser, StartRevoking
<1>4. CASE Classify(r) \/ MatchClaim(r) \/ ResolveClaimConflict(r)
  BY <1>4 DEF Classify, MatchClaim, ResolveClaimConflict, Finish
<1>5. CASE Issue(r) \/ GracePut(r)
  BY <1>5 DEF Issue, GracePut
<1>6. CASE HandleReplay(r)
  <2>1. pc'[r] \in {"done", "revoke", "commit", "select"}
    BY <1>6 DEF HandleReplay, StartRevoking, Finish
  <2> QED
    BY <1>6, <2>1 DEF HandleReplay
<1>7. CASE SelectFamilies(r)
  <2>1. pc'[r] \in {"revoke", "commit"}
    BY <1>7 DEF SelectFamilies, StartRevoking
  <2> QED
    BY <1>7, <2>1 DEF SelectFamilies
<1>8. CASE Revoke(r)
  BY <1>8 DEF Revoke
<1> QED
  BY <1>1, <1>2, <1>3, <1>4, <1>5, <1>6, <1>7, <1>8 DEF Quiet

\* Every step is one of these.
LEMMA Steps ==
    ASSUME Next
    PROVE  \/ \E f \in Families, t \in Tokens : OpenSession(f, t)
           \/ Purging \/ PurgeCommit
           \/ \E f \in Families : Expire(f)
           \/ \E u \in Users : SetActive(u)
           \/ \E t \in Tokens : GraceExpire(t)
           \/ \E r \in Requests : Busy(r)
BY DEF Next, Environment, Step, PurgeStep, PurgeRows, Purging, Busy, Quiet

-----------------------------------------------------------------------------
(* Rows is inductive.                                                      *)

LEMMA RowsInit == Init => Rows
BY NoneAssumption
   DEF Init, Rows, RowsOf, HandOf, ApartFrom, Signing, OneCurrentToken

\* Signing and claiming, the pair and the token are where Shape puts them.
LEMMA Hands ==
    ASSUME Shape, NEW r \in Requests
    PROVE  /\ Signing(r) => pair[r] \in Tokens /\ pc[r] # "idle"
           /\ "claim" \in wrote[r] => pc[r] # "idle"
           /\ pc[r] # "idle" => arg[r] \in Tokens
BY DEF Shape, ShapeOf, Signing, Lockless

\* What a step of r that touches no row has to keep of its own.
LEMMA RowsFrame ==
    ASSUME Types, Rows, NEW r \in Requests, UNCHANGED <<fam, tok, sid, cut>>,
           \A s \in Requests \ {r} : Still(s),
           HandOf(r)',
           \A s \in Requests \ {r} : ApartFrom(r, s)' /\ ApartFrom(s, r)'
    PROVE  Rows'
<1>1. ASSUME NEW s \in Requests \ {r} PROVE HandOf(s)'
  BY <1>1 DEF Rows, HandOf, Still, Untouched, Signing
<1>2. ASSUME NEW p \in Requests \ {r}, NEW s \in Requests \ {r}, p # s
      PROVE  ApartFrom(p, s)'
  BY <1>2 DEF Rows, ApartFrom, Still, Untouched, Signing
<1>3. ASSUME NEW t \in Tokens PROVE RowsOf(t)'
  BY DEF Rows, RowsOf
<1> QED
  BY <1>1, <1>2, <1>3 DEF Rows, OneCurrentToken

LEMMA RowsNext == Secure /\ Rows /\ [Next]_vars => Rows'
<1> SUFFICES ASSUME Shape, Locks, Rows, [Next]_vars PROVE Rows'
  BY DEF Secure
<1> Types /\ TokensNamed /\ (\A s \in Requests : ShapeOf(s))
  BY DEF Shape
<1> DEFINE Locals == <<pc, op, arg, pair, wrote>>
<1> USE DEF purgeVars
<1>1. ASSUME UNCHANGED <<fam, tok, sid, cut, Locals>> PROVE Rows'
  BY <1>1 DEF Rows, RowsOf, HandOf, ApartFrom, Signing, OneCurrentToken
<1>2. ASSUME NEW f \in Families, NEW t \in Tokens, OpenSession(f, t)
      PROVE  Rows'
  <2>1. /\ fam' = [fam EXCEPT ![f] = "stored"]
        /\ tok' = [tok EXCEPT ![t] = "unspent"]
        /\ sid' = [sid EXCEPT ![t] = f]
        /\ UNCHANGED <<cut, Locals>>
        /\ fam[f] = "absent" /\ tok[t] = "absent"
        /\ \A r \in Requests : pair[r] # t
    BY <1>2 DEF OpenSession, Fresh, txVars, reqVars
  <2>2. ASSUME NEW k \in Tokens PROVE RowsOf(k)'
    BY <2>1 DEF Rows, RowsOf, Types, TokensNamed
  <2>3. ASSUME NEW r \in Requests PROVE HandOf(r)'
    BY <2>1, Hands DEF Rows, HandOf, Types, Signing
  <2>4. OneCurrentToken => OneCurrentToken'
    BY <2>1 DEF Rows, RowsOf, OneCurrentToken, Types, TokensNamed
  <2> QED
    BY <2>1, <2>2, <2>3, <2>4 DEF Rows, ApartFrom, Signing
<1>9. CASE Purging
  <2>1. UNCHANGED <<fam, tok, sid, Locals>>
    BY <1>9 DEF Purging, PurgeSelect, PurgeTokens, PurgeRow, PurgeFail, dbVars,
       txVars, reqVars
  <2>2. ASSUME NEW r \in Requests, "claim" \in wrote[r] PROVE arg[r] \notin cut'
    <3>1. arg[r] \notin cut
      BY <2>2 DEF Rows, HandOf
    <3> QED
      BY <1>9, <2>2, <3>1
         DEF Purging, PurgeSelect, PurgeTokens, PurgeRow, PurgeFail, HoldsToken
  <2>3. ASSUME NEW r \in Requests PROVE HandOf(r)'
    BY <2>1, <2>2 DEF Rows, HandOf, Signing
  <2> QED
    BY <2>1, <2>3 DEF Rows, RowsOf, ApartFrom, Signing, OneCurrentToken
<1>3. ASSUME PurgeCommit, \E f \in cut \cap Families : ~(TokensOf(f) \subseteq cut)
      PROVE  Rows'
  <2>1. UNCHANGED <<fam, tok, sid, Locals>> /\ cut' = {}
    BY <1>3 DEF PurgeCommit, txVars, reqVars
  <2>2. ASSUME NEW r \in Requests PROVE HandOf(r)'
    BY <2>1 DEF Rows, HandOf, Signing
  <2> QED
    BY <2>1, <2>2 DEF Rows, RowsOf, ApartFrom, Signing, OneCurrentToken
<1>10. ASSUME PurgeCommit, \A f \in cut \cap Families : TokensOf(f) \subseteq cut
       PROVE  Rows'
  <2> DEFINE old == cut \cap Families
  <2>0. \A t \in Tokens : sid[t] \in cut <=> sid[t] \in old
    BY NoneAssumption DEF Types
  <2>1. /\ fam' = [f \in Families |-> IF f \in old THEN "purged" ELSE fam[f]]
        /\ tok' = [t \in Tokens |-> IF sid[t] \in old THEN "purged" ELSE tok[t]]
        /\ UNCHANGED <<sid, Locals>> /\ cut' = {}
        /\ \A r \in Requests : "claim" \in wrote[r] => sid[arg[r]] \notin old
    <3>1. ASSUME NEW r \in Requests, "claim" \in wrote[r], sid[arg[r]] \in old
          PROVE  FALSE
      <4>1. arg[r] \in Tokens /\ arg[r] \notin cut /\ tok[arg[r]] # "purged"
        BY <3>1, Hands DEF Rows, HandOf
      <4>2. arg[r] \in TokensOf(sid[arg[r]])
        BY <4>1 DEF TokensOf
      <4> QED
        BY <1>10, <3>1, <4>1, <4>2
    <3>2. \A f \in Families : f \in cut <=> f \in old
      OBVIOUS
    <3> QED
      BY <1>10, <2>0, <3>1, <3>2 DEF PurgeCommit, txVars, reqVars
  <2>2. old \subseteq Families /\ None \notin old /\ \A f \in old : fam[f] = "stored"
    BY NoneAssumption DEF Locks
  <2> HIDE DEF old
  <2>3. ASSUME NEW k \in Tokens PROVE RowsOf(k)'
    <3>1. RowsOf(k)
      BY DEF Rows
    <3> QED
      BY <2>1, <2>2, <3>1 DEF RowsOf, Types, TokensNamed
  <2>4. ASSUME NEW r \in Requests PROVE HandOf(r)'
    <3>1. HandOf(r) /\ \A t \in Tokens : tok[t] = "absent" => tok'[t] = "absent"
      BY <2>1, <2>2 DEF Rows, RowsOf
    <3>2. pc[r] # "idle" => tok'[arg[r]] # "absent"
      BY <2>1, <3>1, Hands DEF HandOf
    <3>3. "claim" \in wrote[r] => tok'[arg[r]] = tok[arg[r]]
      BY <2>1, Hands DEF Types
    <3>4. Signing(r) => tok'[pair[r]] = "absent"
      BY <3>1, Hands DEF HandOf
    <3> QED
      BY <2>1, <3>1, <3>2, <3>3, <3>4 DEF HandOf, Signing
  <2>5. OneCurrentToken => OneCurrentToken'
    BY <2>1 DEF OneCurrentToken, Types
  <2> QED
    BY <2>1, <2>3, <2>4, <2>5 DEF Rows, ApartFrom, Signing
<1>4. ASSUME NEW r \in Requests, NEW o \in Operations, NEW t \in Tokens,
             Arrive(r, o, t)
      PROVE  Rows'
  <2>1. \A s \in Requests \ {r} : Still(s)
    BY <1>4, OthersStill DEF Busy
  <2>2. /\ UNCHANGED <<fam, tok, sid, cut, wrote>>
        /\ op'[r] = o /\ arg'[r] = t /\ tok[t] # "absent"
        /\ "claim" \notin wrote[r]
    BY <1>4 DEF Arrive, dbVars, txVars, ShapeOf, Lockless, Types
  <2>3. o = "refresh" => /\ tok[pair'[r]] = "absent"
                         /\ \A s \in Requests : pair[s] # pair'[r]
    BY <1>4 DEF Arrive, Fresh, Types
  <2>4. HandOf(r)'
    BY <2>2, <2>3 DEF HandOf, Signing
  <2>5. ASSUME NEW s \in Requests \ {r} PROVE ApartFrom(r, s)' /\ ApartFrom(s, r)'
    BY <2>1, <2>2, <2>3 DEF ApartFrom, Signing, Still, Untouched
  <2> QED
    BY <2>1, <2>2, <2>4, <2>5, RowsFrame
<1>5. ASSUME NEW r \in Requests, Claim(r) PROVE Rows'
  <2>1. \A s \in Requests \ {r} : Still(s)
    BY <1>5, OthersStill DEF Busy
  <2>2. /\ UNCHANGED <<fam, tok, sid, cut, op, arg, pair>>
        /\ pc[r] = "claim" /\ pc'[r] \in {"touch", "resolve"}
        /\ wrote[r] = {}
        /\ arg[r] \notin cut /\ \A s \in Requests \ {r} : ~HoldsToken(s, arg[r])
        /\ \/ wrote'[r] = {}
           \/ /\ wrote'[r] = {"claim"}
              /\ tok[arg[r]] # "purged" /\ (ClaimRechecked => Claimable(arg[r]))
    BY <1>5 DEF Claim, dbVars, reqVars, ShapeOf, Lockless, Types, TokenFree
  <2>3. HandOf(r)'
    BY <2>2 DEF Rows, HandOf, Signing, Claimable
  <2>4. ASSUME NEW s \in Requests \ {r} PROVE ApartFrom(r, s)' /\ ApartFrom(s, r)'
    BY <2>1, <2>2 DEF Rows, ApartFrom, Signing, Still, Untouched, HoldsToken
  <2> QED
    BY <2>1, <2>2, <2>3, <2>4, RowsFrame
<1>6. ASSUME NEW r \in Requests, Quiet(r) PROVE Rows'
  <2>1. \A s \in Requests \ {r} : Still(s)
    BY <1>6, OthersStill DEF Busy
  <2>2. QuietFacts(r)
    BY <1>6, QuietRows
  <2>3. HandOf(r)'
    BY <2>2 DEF Rows, HandOf, QuietFacts, Signing
  <2>4. ASSUME NEW s \in Requests \ {r} PROVE ApartFrom(r, s)' /\ ApartFrom(s, r)'
    BY <2>1, <2>2 DEF Rows, ApartFrom, Signing, Still, Untouched, QuietFacts
  <2> QED
    BY <2>1, <2>2, <2>3, <2>4, RowsFrame DEF QuietFacts
<1>7. ASSUME NEW r \in Requests, Commit(r) PROVE Rows'
  <2>1. \A s \in Requests \ {r} : Still(s)
    BY <1>7, OthersStill DEF Busy
  <2>2. /\ tok' = TokensAfter(r)
        /\ sid' = IF "issue" \in wrote[r]
                     THEN [sid EXCEPT ![pair[r]] = Session(r)] ELSE sid
        /\ UNCHANGED <<fam, cut, op, arg, pair>>
        /\ wrote'[r] = {} /\ pc[r] = "commit" /\ pc'[r] \in {"put", "done"}
    BY <1>7 DEF Commit, EndTx, Types, reqVars
  <2>3. /\ "issue" \in wrote[r] => op[r] = "refresh" /\ "claim" \in wrote[r]
        /\ arg[r] \in Tokens /\ sid[arg[r]] \in Families
    BY <2>2 DEF ShapeOf
  <2>4. "issue" \in wrote[r] => /\ pair[r] \in Tokens /\ tok[pair[r]] = "absent"
                                /\ pair[r] # arg[r]
    BY <2>2, <2>3, Hands DEF Rows, HandOf, Signing
  <2>5. ASSUME NEW k \in Tokens
        PROVE  /\ tok'[k] = IF k = pair[r] /\ "issue" \in wrote[r] THEN "unspent"
                            ELSE IF k = arg[r] /\ "claim" \in wrote[r] THEN "spent"
                            ELSE tok[k]
               /\ sid'[k] = IF k = pair[r] /\ "issue" \in wrote[r]
                               THEN sid[arg[r]] ELSE sid[k]
    BY <2>2, <2>3, <2>4 DEF TokensAfter, Session, Types
  <2>6. tok[arg[r]] # "absent" /\ ("claim" \in wrote[r] => tok[arg[r]] # "purged")
    BY <2>2, <2>3 DEF Rows, HandOf
  <2>7. ASSUME NEW k \in Tokens PROVE RowsOf(k)'
    BY <2>2, <2>3, <2>4, <2>5, <2>6 DEF Rows, RowsOf
  <2>8. ASSUME NEW s \in Requests PROVE HandOf(s)'
    <3>1. CASE s = r
      BY <2>2, <2>3, <2>5, <2>6, <3>1 DEF HandOf, Signing
    <3>2. CASE s # r
      <4>1. Signing(s)' = Signing(s) /\ pair'[s] = pair[s] /\ arg'[s] = arg[s]
            /\ wrote'[s] = wrote[s] /\ pc'[s] = pc[s]
        BY <2>1, <3>2 DEF Still, Untouched, Signing
      <4>2. ApartFrom(r, s) /\ HandOf(s)
        BY <3>2 DEF Rows
      <4>3. Signing(s) => tok'[pair[s]] = "absent"
        BY <2>2, <2>3, <2>4, <2>5, <2>6, <4>2, Hands DEF ApartFrom, HandOf, Signing
      <4>4. "claim" \in wrote[s] =>
               /\ tok'[arg[s]] # "purged" /\ arg[s] \notin cut
               /\ ClaimRechecked => tok'[arg[s]] = "unspent"
        BY <2>5, <4>2, Hands DEF ApartFrom, HandOf
      <4>5. pc[s] # "idle" => tok'[arg[s]] # "absent"
        BY <2>5, <4>2, Hands DEF HandOf
      <4> QED
        BY <2>2, <4>1, <4>3, <4>4, <4>5 DEF HandOf
    <3> QED
      BY <3>1, <3>2
  <2>9. ASSUME NEW p \in Requests, NEW s \in Requests, p # s PROVE ApartFrom(p, s)'
    BY <2>1, <2>2, <2>9 DEF Rows, ApartFrom, Signing, Still, Untouched
  <2>10. ClaimRechecked => OneCurrentToken'
    <3> SUFFICES ASSUME ClaimRechecked PROVE OneCurrentToken'
      OBVIOUS
    <3>1. OneCurrentToken
      BY DEF Rows
    <3>2. "claim" \in wrote[r] => tok[arg[r]] = "unspent"
      BY DEF Rows, HandOf
    <3> QED
      BY <2>2, <2>3, <2>4, <2>5, <3>1, <3>2 DEF OneCurrentToken
  <2> QED
    BY <2>7, <2>8, <2>9, <2>10 DEF Rows
<1>8. ASSUME \/ UNCHANGED vars
             \/ \E f \in Families : Expire(f)
             \/ \E u \in Users : SetActive(u)
             \/ \E t \in Tokens : GraceExpire(t)
      PROVE  Rows'
  BY <1>1, <1>8 DEF vars, dbVars, txVars, reqVars, Expire, SetActive, GraceExpire
<1> QED
  BY <1>2, <1>3, <1>4, <1>5, <1>6, <1>7, <1>8, <1>9, <1>10, Steps DEF Busy

-----------------------------------------------------------------------------
(* Ends is inductive.                                                      *)

LEMMA EndsInit == Init => Ends
<1> SUFFICES ASSUME Init PROVE Ends
  OBVIOUS
<1>1. ASSUME NEW r \in Requests PROVE EndsOf(r)
  <2>1. pc[r] = "idle" /\ why[r] = None
    BY DEF Init
  <2> QED
    BY <2>1 DEF EndsOf, EndingOf, AnswerOf, DoneOf, SeenOf
<1> QED
  BY Zenon, <1>1 DEF Ends

\* What has ended has ended for good, and a stored token keeps its family.
LEMMA Permanent ==
    ASSUME Secure, Rows, Next
    PROVE  /\ \A f \in Families : fam[f] # "absent" => fam'[f] # "absent"
           /\ \A f \in Families : Dead(f) => Dead(f)'
           /\ \A t \in Tokens : tok[t] # "absent" => sid'[t] = sid[t]
<1> Types
  BY DEF Secure, Shape
<1>1. \A f \in Families : reason[f] # None => reason'[f] = reason[f]
  BY ReasonsKept
<1> DEFINE Kept ==
             /\ \A f \in Families : fam[f] # "absent" => fam'[f] # "absent"
             /\ \A f \in Families : fam[f] = "purged" => fam'[f] = "purged"
             /\ \A t \in Tokens : tok[t] # "absent" => sid'[t] = sid[t]
<1>2. Kept
  <2>1. ASSUME NEW r \in Requests, Commit(r) PROVE Kept
    <3>1. "issue" \in wrote[r] => Signing(r)
      BY <2>1 DEF Commit, Signing, Secure, Shape, ShapeOf
    <3>2. Signing(r) => tok[pair[r]] = "absent"
      BY DEF Rows, HandOf
    <3> QED
      BY <2>1, <3>1, <3>2 DEF Commit, Types
  <2>2. ASSUME NEW r \in Requests, Busy(r), ~Commit(r) PROVE Kept
    <3>1. CASE Quiet(r)
      BY <3>1, QuietRows DEF QuietFacts, Secure, Shape
    <3> QED
      BY <2>2, <3>1 DEF Busy, Arrive, Claim, dbVars
  <2>3. CASE Purging \/ PurgeCommit
    BY <2>3 DEF Purging, PurgeSelect, PurgeTokens, PurgeRow, PurgeFail, PurgeCommit,
       dbVars, Types
  <2>4. CASE \E f \in Families, t \in Tokens : OpenSession(f, t)
    BY <2>4 DEF OpenSession, Fresh, Types
  <2> QED
    BY <2>1, <2>2, <2>3, <2>4, Steps DEF Expire, SetActive, GraceExpire, dbVars
<1> QED
  BY <1>1, <1>2 DEF Dead

LEMMA EndsFrame ==
    ASSUME Secure, Rows, Next, NEW s \in Requests, EndsOf(s), Still(s)
    PROVE  EndsOf(s)'
<1>1. Types /\ ShapeOf(s) /\ HandOf(s)
  BY DEF Secure, Shape, Rows
<1>2. pc[s] # "idle" => Session(s)' = Session(s) /\ Session(s) \in Families
  BY <1>1, Permanent DEF Session, ShapeOf, HandOf, Still, Untouched
<1>3. Ending(s)' = Ending(s) /\ Ending(s) \subseteq Families /\ seen[s] \subseteq Families
  BY <1>1 DEF Ending, Still, Untouched, Types
<1> USE DEF Still, Untouched
<1>4. EndingOf(s)'
  BY <1>2, <1>3, Permanent DEF EndsOf, EndingOf
<1>5. AnswerOf(s)'
  BY DEF EndsOf, AnswerOf
<1>6. DoneOf(s)'
  BY <1>2, <1>3, Permanent DEF EndsOf, DoneOf
<1>7. SeenOf(s)'
  BY <1>2, <1>3, Permanent DEF EndsOf, SeenOf
<1> QED
  BY <1>4, <1>5, <1>6, <1>7 DEF EndsOf

\* The loop of a revocation has all the families of fs before it.
LEMMA StartRevokingEnding ==
    ASSUME Types, NEW r \in Requests, NEW fs \in SUBSET Families,
           NEW w \in Reasons, StartRevoking(r, fs, w)
    PROVE  /\ pc'[r] \in {"revoke", "commit"} /\ why'[r] = w
           /\ fs \subseteq Ending(r)'
BY NoneAssumption DEF StartRevoking, Types, Ending

\* A family has ended or is among those a user's logout-all selects.
LEMMA LiveOrDead ==
    ASSUME Types, NEW f \in Families, fam[f] # "absent"
    PROVE  f \in LiveFamilies(Owner[f]) \/ Dead(f)
BY DEF LiveFamilies, Dead, Types


LEMMA LoadUserEnds ==
    ASSUME Secure, Rows, Next, NEW r \in Requests, EndsOf(r), LoadUser(r)
    PROVE  EndsOf(r)'
<1>1. Types /\ ShapeOf(r)
  BY DEF Secure, Shape
<1>2. /\ pc[r] = "user" /\ op'[r] = op[r] /\ arg'[r] = arg[r] /\ seen'[r] = seen[r]
      /\ Session(r)' = Session(r) /\ Session(r) \in Families
      /\ wrote' = wrote /\ wrote[r] = {} /\ why[r] = None
      /\ UNCHANGED <<fam, reason>> /\ op[r] = "refresh" /\ ans[r] = "ok"
  BY <1>1 DEF LoadUser, ShapeOf, Lockless, dbVars, txVars, Session, EndsOf, AnswerOf
<1>3. CASE pc'[r] = "classify" /\ why' = why /\ ans' = ans
  BY <1>2, <1>3 DEF EndsOf, EndingOf, AnswerOf, DoneOf, SeenOf, Dead
<1>4. CASE StartRevoking(r, {Session(r)}, "admin") /\ ans'[r] = "refused"
  <2>1. pc'[r] \in {"revoke", "commit"} /\ Session(r) \in Ending(r)'
    BY <1>1, <1>2, <1>4, StartRevokingEnding DEF Reasons
  <2> QED
    BY <1>2, <1>4, <2>1 DEF EndsOf, EndingOf, AnswerOf, DoneOf, SeenOf, Dead, Lockless
<1> QED
  BY <1>1, <1>3, <1>4 DEF LoadUser, Types

LEMMA ConsumeEnds ==
    ASSUME Secure, Rows, Next, NEW r \in Requests, EndsOf(r),
           Classify(r) \/ MatchClaim(r) \/ Claim(r) \/ ResolveClaimConflict(r)
    PROVE  EndsOf(r)'
<1>1. Types /\ ShapeOf(r) /\ HandOf(r) /\ RowsOf(arg[r])
  BY DEF Secure, Shape, ShapeOf, Rows, Classify, MatchClaim, Claim,
         ResolveClaimConflict
<1>2. /\ op'[r] = op[r] /\ arg'[r] = arg[r] /\ why' = why
      /\ seen'[r] = seen[r] \/ seen'[r] = StillLive(r)
      /\ Session(r)' = Session(r) /\ Session(r) \in Families
      /\ pc[r] \in {"classify", "match", "claim", "resolve"}
      /\ why[r] = None /\ ans[r] = "ok"
      /\ UNCHANGED <<fam, reason>>
  BY <1>1 DEF Classify, MatchClaim, Claim, ResolveClaimConflict, ShapeOf,
     dbVars, reqVars, Session, EndsOf, AnswerOf, Lockless, Types
<1>3. \/ pc'[r] = "done" /\ ans'[r] \in {"refused", "error"}
      \/ /\ pc'[r] \in {"match", "claim", "resolve", "touch", "replay"}
         /\ ans'[r] = "ok"
         /\ ClaimRechecked => Session(r) \in seen'[r]
  <2>1. CASE Classify(r)
    <3>1. CASE \/ tok[arg[r]] = "purged" \/ reason[Session(r)] # None
               \/ Session(r) \in expired
      BY <1>1, <2>1, <3>1 DEF Classify, Finish, Types
    <3>2. CASE ~(\/ tok[arg[r]] = "purged" \/ reason[Session(r)] # None
                 \/ Session(r) \in expired)
      <4>1. ~Dead(Session(r))
        BY <1>1, <1>2, <2>1, <3>2 DEF Dead, RowsOf, HandOf, Session, Classify
      <4> QED
        BY <1>1, <1>2, <2>1, <3>2, <4>1 DEF Classify, Types, EndsOf, SeenOf
    <3> QED
      BY <3>1, <3>2
  <2>2. CASE MatchClaim(r)
    BY <1>1, <1>2, <2>2 DEF MatchClaim, Types, EndsOf, SeenOf, reqVars
  <2>3. CASE Claim(r) \/ ResolveClaimConflict(r)
    <3>1. ClaimRechecked => Session(r) \in seen[r]
      BY <1>2, <2>3 DEF EndsOf, SeenOf, Claim, ResolveClaimConflict
    <3>2. ASSUME seen'[r] = StillLive(r), ~Dead(Session(r))
          PROVE  ClaimRechecked => Session(r) \in seen'[r]
      <4>1. fam[Session(r)] # "absent"
        BY <1>1, <1>2, <2>3 DEF RowsOf, HandOf, Session
      <4> QED
        BY <1>1, <1>2, <3>1, <3>2, <4>1, LiveOrDead DEF StillLive
    <3>3. CASE Claim(r)
      <4>1. \/ pc'[r] = "resolve" /\ seen' = seen
            \/ /\ pc'[r] = "touch" /\ seen'[r] = StillLive(r)
               /\ ClaimRechecked => Claimable(arg[r])
        BY <1>1, <3>3 DEF Claim, Types
      <4>2. Claimable(arg[r]) => ~Dead(Session(r))
        BY <1>1, <1>2 DEF Claimable, Dead, RowsOf, Session
      <4> QED
        BY <1>2, <3>1, <3>2, <3>3, <4>1, <4>2 DEF Claim
    <3>4. CASE ResolveClaimConflict(r)
      <4>1. \/ pc'[r] = "done" /\ ans'[r] \in {"refused", "error"}
            \/ /\ pc'[r] = "replay" /\ ans' = ans /\ ~Dead(Session(r))
               /\ seen'[r] = StillLive(r)
        BY <1>1, <3>4 DEF ResolveClaimConflict, Finish, Types
      <4> QED
        BY <1>2, <3>2, <4>1
    <3> QED
      BY <2>3, <3>3, <3>4
  <2> QED
    BY <2>1, <2>2, <2>3
<1>4. Session(r) \in seen'[r] \/ Dead(Session(r))
  <2>1. Session(r) \in seen[r] \/ Dead(Session(r))
    BY <1>2 DEF EndsOf, SeenOf
  <2>2. fam[Session(r)] # "absent"
    BY <1>1, <1>2 DEF RowsOf, HandOf, Session
  <2> QED
    BY <1>1, <1>2, <2>1, <2>2, LiveOrDead DEF StillLive
<1>5. \A f \in seen'[r] : Owner[f] = Owner[Session(r)] /\ fam[f] # "absent"
  BY <1>2 DEF EndsOf, SeenOf, StillLive
<1> QED
  BY <1>2, <1>3, <1>4, <1>5, NoneAssumption
     DEF EndsOf, EndingOf, AnswerOf, DoneOf, SeenOf, Dead, Lockless, Reasons

LEMMA ArriveEnds ==
    ASSUME Secure, Rows, Next, NEW r \in Requests, EndsOf(r),
           NEW o \in Operations, NEW t \in Tokens, Arrive(r, o, t)
    PROVE  EndsOf(r)'
<1>1. Types /\ ShapeOf(r) /\ RowsOf(t) /\ sid[t] \in Families
  BY DEF Secure, Shape, TokensNamed, Rows, Arrive
<1>2. /\ pc'[r] \in {"user", "classify"} /\ ans'[r] = "ok"
      /\ why'[r] = None
      /\ Session(r)' = sid[t]
      /\ fam[sid[t]] # "absent"
      /\ UNCHANGED <<fam, reason>>
  BY <1>1 DEF Arrive, Types, Session, dbVars, RowsOf, EndsOf, AnswerOf, Lockless
<1>3. \A f \in LiveFamilies(Owner[sid[t]]) :
         Owner[f] = Owner[sid[t]] /\ fam[f] # "absent"
  BY DEF LiveFamilies
<1>4. seen'[r] \subseteq LiveFamilies(Owner[sid[t]])
      /\ (sid[t] \in LiveFamilies(Owner[sid[t]]) => sid[t] \in seen'[r])
  BY <1>1 DEF Arrive, Types
<1>5. sid[t] \in LiveFamilies(Owner[sid[t]]) \/ Dead(sid[t])
  BY <1>1, <1>2, LiveOrDead
<1>6. sid[t] \in seen'[r] \/ Dead(Session(r))'
  BY <1>2, <1>4, <1>5 DEF Dead
<1> QED
  BY <1>2, <1>3, <1>4, <1>6 DEF EndsOf, EndingOf, AnswerOf, DoneOf, SeenOf

LEMMA TouchEnds ==
    ASSUME Secure, Rows, Next, NEW r \in Requests, EndsOf(r), Touch(r)
    PROVE  EndsOf(r)'
<1>1. Types /\ ShapeOf(r)
  BY DEF Secure, Shape
<1>2. /\ op'[r] = op[r] /\ arg'[r] = arg[r] /\ seen'[r] = seen[r]
      /\ Session(r)' = Session(r) /\ Session(r) \in Families
      /\ ans'[r] = "ok"
      /\ "issue" \notin wrote'[r]
      /\ UNCHANGED <<fam, reason>>
      /\ Session(r) \in seen[r] \/ Dead(Session(r))
      /\ ClaimRechecked => Session(r) \in seen[r]
      /\ \A f \in seen[r] : Owner[f] = Owner[Session(r)] /\ fam[f] # "absent"
  BY <1>1 DEF Touch, ShapeOf, dbVars, Session, EndsOf, AnswerOf, SeenOf, Types
<1>3. CASE pc'[r] \in {"issue", "select"}
  BY <1>2, <1>3 DEF EndsOf, EndingOf, AnswerOf, DoneOf, SeenOf, Dead, Lockless
<1>4. CASE op[r] = "logout" /\ StartRevoking(r, {Session(r)}, "logout")
  <2>1. pc'[r] \in {"revoke", "commit"} /\ Session(r) \in Ending(r)'
    BY <1>1, <1>2, <1>4, StartRevokingEnding DEF Reasons
  <2> QED
    BY <1>2, <1>4, <2>1 DEF EndsOf, EndingOf, AnswerOf, DoneOf, SeenOf, Dead, Lockless
<1> QED
  BY <1>1, <1>3, <1>4 DEF Touch, Types

LEMMA IssueEnds ==
    ASSUME Secure, Rows, Next, NEW r \in Requests, EndsOf(r), Issue(r) \/ GracePut(r)
    PROVE  EndsOf(r)'
<1>1. Types /\ ShapeOf(r)
  BY DEF Secure, Shape
<1>2. /\ op'[r] = "refresh" /\ arg'[r] = arg[r] /\ seen'[r] = seen[r]
      /\ Session(r)' = Session(r)
      /\ pc'[r] \in {"put", "commit", "done"}
      /\ pc'[r] = "commit" => "issue" \in wrote'[r]
      /\ ans'[r] = "ok"
      /\ UNCHANGED <<fam, reason>>
      /\ Session(r) \in seen[r] \/ Dead(Session(r))
      /\ ClaimRechecked => Session(r) \in seen[r]
      /\ \A f \in seen[r] : Owner[f] = Owner[Session(r)] /\ fam[f] # "absent"
  BY <1>1 DEF Issue, GracePut, PutBeforeCommit, ShapeOf, dbVars, txVars, reqVars,
     Session, EndsOf, AnswerOf, SeenOf, Types
<1> QED
  BY <1>2 DEF EndsOf, EndingOf, AnswerOf, DoneOf, SeenOf, Dead, Lockless

LEMMA ReplayEnds ==
    ASSUME Secure, Rows, Next, NEW r \in Requests, EndsOf(r), HandleReplay(r)
    PROVE  EndsOf(r)'
<1>1. Types /\ ShapeOf(r)
  BY DEF Secure, Shape
<1>2. /\ op'[r] = op[r] /\ arg'[r] = arg[r] /\ seen'[r] = seen[r]
      /\ Session(r)' = Session(r) /\ Session(r) \in Families
      /\ ans[r] = "ok" /\ why[r] = None
      /\ wrote'[r] = {}
      /\ UNCHANGED <<fam, reason>>
      /\ Session(r) \in seen[r] \/ Dead(Session(r))
      /\ ClaimRechecked => Session(r) \in seen[r]
      /\ \A f \in seen[r] : Owner[f] = Owner[Session(r)] /\ fam[f] # "absent"
  BY <1>1 DEF HandleReplay, ShapeOf, dbVars, txVars, Session, EndsOf, AnswerOf,
     SeenOf, Types, Lockless
<1>3. \/ pc'[r] = "done" /\ ans'[r] = "replayed"
      \/ pc'[r] = "done" /\ ans'[r] = "reused" /\ ~BurnOnReuse
      \/ pc'[r] = "select" /\ ans'[r] = "ok"
      \/ StartRevoking(r, {Session(r)}, "logout") /\ op[r] = "logout" /\ ans'[r] = "ok"
      \/ StartRevoking(r, {Session(r)}, "reuse_detected") /\ ans'[r] = "reused"
  BY <1>1, <1>2 DEF HandleReplay, Finish, Types
<1>4. CASE pc'[r] \in {"done", "select"} /\ ans'[r] \in {"ok", "replayed", "reused"}
           /\ (pc'[r] = "done" => ans'[r] # "ok")
           /\ (pc'[r] = "select" => ans'[r] = "ok")
           /\ (BurnOnReuse => ans'[r] # "reused")
  BY <1>2, <1>4 DEF EndsOf, EndingOf, AnswerOf, DoneOf, SeenOf, Dead, Lockless
<1>5. CASE \/ StartRevoking(r, {Session(r)}, "logout") /\ op[r] = "logout" /\ ans'[r] = "ok"
           \/ StartRevoking(r, {Session(r)}, "reuse_detected") /\ ans'[r] = "reused"
  <2>1. pc'[r] \in {"revoke", "commit"} /\ Session(r) \in Ending(r)'
    BY <1>1, <1>2, <1>5, StartRevokingEnding DEF Reasons
  <2> QED
    BY <1>2, <1>5, <2>1 DEF EndsOf, EndingOf, AnswerOf, DoneOf, SeenOf, Dead, Lockless
<1> QED
  BY <1>3, <1>4, <1>5

LEMMA SelectEnds ==
    ASSUME Secure, Rows, Next, NEW r \in Requests, EndsOf(r), SelectFamilies(r)
    PROVE  EndsOf(r)'
<1>1. Types /\ ShapeOf(r)
  BY DEF Secure, Shape
<1>2. /\ op'[r] = op[r] /\ arg'[r] = arg[r] /\ seen'[r] = seen[r]
      /\ Session(r)' = Session(r) /\ Session(r) \in Families
      /\ ans'[r] = "ok" /\ op[r] = "logout_all"
      /\ "issue" \notin wrote'[r]
      /\ UNCHANGED <<fam, reason>>
      /\ Session(r) \in seen[r] \/ Dead(Session(r))
      /\ ClaimRechecked => Session(r) \in seen[r]
      /\ seen[r] \subseteq Families
      /\ \A f \in seen[r] : Owner[f] = Owner[Session(r)] /\ fam[f] # "absent"
  BY <1>1 DEF SelectFamilies, ShapeOf, dbVars, txVars, Session, EndsOf, AnswerOf,
     SeenOf, Types
<1>3. /\ pc'[r] \in {"revoke", "commit"}
      /\ LiveFamilies(Owner[Session(r)]) \subseteq Ending(r)'
  <2>1. LiveFamilies(Owner[Session(r)]) \in SUBSET Families
    BY DEF LiveFamilies
  <2> QED
    BY <1>1, <2>1, StartRevokingEnding DEF SelectFamilies, Reasons
<1>4. \A f \in seen[r] : f \in Ending(r)' \/ Dead(f)'
  BY <1>1, <1>2, <1>3, LiveOrDead DEF Dead
<1> QED
  BY <1>2, <1>3, <1>4 DEF EndsOf, EndingOf, AnswerOf, DoneOf, SeenOf, Dead, Lockless

LEMMA RevokeEnds ==
    ASSUME Secure, Rows, Next, NEW r \in Requests, EndsOf(r), Revoke(r)
    PROVE  EndsOf(r)'
<1>1. Types /\ ShapeOf(r) /\ HandOf(r) /\ RowsOf(arg[r])
  BY DEF Secure, Shape, ShapeOf, Rows, Revoke
<1>2. /\ op'[r] = op[r] /\ arg'[r] = arg[r] /\ seen'[r] = seen[r]
      /\ Session(r)' = Session(r) /\ Session(r) \in Families
      /\ ans' = ans /\ pc[r] = "revoke" /\ pc'[r] \in {"revoke", "commit"}
      /\ "issue" \notin wrote[r] /\ wrote' = wrote
      /\ fam' = fam /\ fam[Session(r)] # "absent"
      /\ seen[r] \subseteq Families
      /\ cur[r] \in Families /\ why[r] \in Reasons
  BY <1>1 DEF Revoke, ShapeOf, Session, RowsOf, HandOf, Types
<1>3. ASSUME NEW f \in Families, f = cur[r], fam[f] # "absent"
      PROVE  Dead(f)' \/ f \in staged'[r]
  <2>1. CASE ~Revocable(f)
    BY <1>1, <1>2, <1>3, <2>1 DEF Revoke, Revocable, Dead, Types
  <2>2. CASE Revocable(f) /\ InTx(r)
    BY <1>1, <1>2, <1>3, <2>2 DEF Revoke, Types
  <2>3. CASE Revocable(f) /\ ~InTx(r)
    BY <1>1, <1>2, <1>3, <2>3, NoneAssumption DEF Revoke, Dead, Types
  <2> QED
    BY <2>1, <2>2, <2>3
<1>4. staged[r] \cup todo[r] \subseteq Ending(r)'
  <2>1. staged[r] \subseteq staged'[r]
    BY <1>1 DEF Revoke, Types
  <2>2. todo[r] \subseteq todo'[r] \cup ({cur'[r]} \ {None})
    BY <1>1, NoneAssumption DEF Revoke, Types
  <2> QED
    BY <2>1, <2>2 DEF Ending
<1>5. \A f \in Families :
         fam[f] # "absent" /\ (f \in Ending(r) \/ Dead(f))
            => f \in Ending(r)' \/ Dead(f)'
  <2>1. \A f \in Families : Dead(f) => Dead(f)'
    BY Permanent
  <2>2. \A f \in Ending(r) : f \in staged[r] \cup todo[r] \/ f = cur[r]
    BY DEF Ending
  <2>3. staged'[r] \subseteq Ending(r)'
    BY DEF Ending
  <2>4. ASSUME NEW f \in Families, fam[f] # "absent", f \in Ending(r)
        PROVE  f \in Ending(r)' \/ Dead(f)'
    <3>1. CASE f = cur[r]
      BY <1>3, <2>3, <2>4, <3>1
    <3>2. CASE f # cur[r]
      BY <1>4, <2>2, <2>4, <3>2
    <3> QED
      BY <3>1, <3>2
  <2> QED
    BY <2>1, <2>4
<1>6. EndingOf(r)'
  BY <1>2, <1>5 DEF EndsOf, EndingOf, SeenOf
<1>7. SeenOf(r)'
  BY <1>2, Permanent DEF EndsOf, SeenOf
<1> QED
  BY <1>2, <1>6, <1>7 DEF EndsOf, AnswerOf, DoneOf, Lockless

LEMMA CommitEnds ==
    ASSUME Secure, Rows, Next, NEW r \in Requests, EndsOf(r), Commit(r)
    PROVE  EndsOf(r)'
<1>1. Types /\ ShapeOf(r) /\ HandOf(r)
  BY DEF Secure, Shape, Rows
<1>2. /\ op'[r] = op[r] /\ arg'[r] = arg[r] /\ seen'[r] = seen[r]
      /\ ans' = ans /\ why' = why /\ fam' = fam
      /\ pc[r] = "commit" /\ pc'[r] \in {"put", "done"}
      /\ pc'[r] = "put" => "issue" \in wrote[r]
      /\ seen[r] \subseteq Families /\ Session(r) \in Families
      /\ "issue" \in wrote[r] => op[r] = "refresh"
  BY <1>1 DEF Commit, ShapeOf, Session, reqVars, Types
<1>3. Session(r)' = Session(r)
  BY <1>1, <1>2, Permanent DEF Session, HandOf, ShapeOf
<1>4. \A f \in Families : f \in Ending(r) \/ Dead(f) => Dead(f)'
  <2>1. Ending(r) = staged[r]
    BY <1>1, <1>2 DEF Ending, ShapeOf
  <2>2. \A f \in staged[r] : reason'[f] # None
    BY <1>1, <1>2, NoneAssumption DEF Commit, ReasonsAfter, ShapeOf, Types
  <2> QED
    BY <2>1, <2>2, Permanent DEF Dead
<1>5. SeenOf(r)'
  BY <1>2, <1>3, Permanent DEF EndsOf, SeenOf, AnswerOf
<1>6. DoneOf(r)'
  BY <1>2, <1>3, <1>4 DEF EndsOf, EndingOf, AnswerOf, DoneOf
<1>7. AnswerOf(r)' /\ EndingOf(r)'
  BY <1>2 DEF EndsOf, AnswerOf, EndingOf, Lockless
<1> QED
  BY <1>5, <1>6, <1>7 DEF EndsOf

LEMMA FreeEnds ==
    ASSUME Secure, NEW r \in Requests, Fail(r) \/ DeadlockVictim(r) \/ Reply(r)
    PROVE  EndsOf(r)'
<1>1. pc'[r] = "idle" /\ why'[r] = None
  BY DEF Secure, Shape, Types, Fail, DeadlockVictim, Reply, Abort, Release
<1> QED
  BY <1>1 DEF EndsOf, EndingOf, AnswerOf, DoneOf, SeenOf

LEMMA EndsNext == Secure /\ Rows /\ Ends /\ [Next]_vars => Ends'
<1> SUFFICES ASSUME Secure, Rows, Ends, [Next]_vars PROVE Ends'
  OBVIOUS
<1> Types /\ \A s \in Requests : EndsOf(s)
  BY DEF Secure, Shape, Ends
<1>1. CASE UNCHANGED vars
  BY <1>1 DEF Ends, EndsOf, EndingOf, AnswerOf, DoneOf, SeenOf, Ending, Dead,
     Session, vars, dbVars, txVars, reqVars
<1>2. ASSUME Next, NEW r \in Requests, Busy(r) PROVE Ends'
  <2>1. ASSUME NEW s \in Requests \ {r} PROVE EndsOf(s)'
    BY <1>2, OthersStill, EndsFrame
  <2>2. EndsOf(r)'
    BY <1>2, ArriveEnds, LoadUserEnds, ConsumeEnds, TouchEnds, IssueEnds,
       ReplayEnds, SelectEnds, RevokeEnds, CommitEnds, FreeEnds DEF Busy, Quiet
  <2> QED
    BY <2>1, <2>2 DEF Ends
<1>3. ASSUME Next,
             \/ \E f \in Families, t \in Tokens : OpenSession(f, t)
             \/ Purging \/ PurgeCommit
             \/ \E f \in Families : Expire(f)
             \/ \E u \in Users : SetActive(u)
             \/ \E t \in Tokens : GraceExpire(t)
      PROVE  Ends'
  <2>1. ASSUME NEW s \in Requests PROVE Still(s)
    BY <1>3, PurgeStill DEF Still, Untouched, OpenSession, Expire, SetActive,
       GraceExpire, txVars, reqVars
  <2>2. ASSUME NEW s \in Requests PROVE EndsOf(s)'
    BY <1>3, <2>1, EndsFrame
  <2> QED
    BY Zenon, <2>2 DEF Ends
<1> QED
  BY <1>1, <1>2, <1>3, Steps

-----------------------------------------------------------------------------
(* No session is left without a token.                                     *)

LEMMA StrandedNext ==
    Secure /\ Rows /\ Ends /\ NeverStranded /\ [Next]_vars => NeverStranded'
<1> SUFFICES ASSUME Secure, Rows, Ends, NeverStranded, [Next]_vars
             PROVE  NeverStranded'
  OBVIOUS
<1> Types /\ TokensNamed
  BY DEF Secure, Shape
<1>1. ASSUME UNCHANGED <<fam, tok, sid>>,
             \A f \in Families : reason[f] # None => reason'[f] # None
      PROVE  NeverStranded'
  BY <1>1 DEF NeverStranded
<1>2. ASSUME Next PROVE \A f \in Families : reason[f] # None => reason'[f] # None
  BY <1>2, ReasonsKept
<1>3. ASSUME NEW g \in Families, NEW n \in Tokens, OpenSession(g, n)
      PROVE  NeverStranded'
  <2>1. /\ fam' = [fam EXCEPT ![g] = "stored"] /\ reason' = reason
        /\ tok' = [tok EXCEPT ![n] = "unspent"] /\ tok[n] = "absent"
        /\ sid' = [sid EXCEPT ![n] = g]
    BY <1>3 DEF OpenSession, Fresh
  <2>2. tok'[n] = "unspent" /\ sid'[n] = g
    BY <2>1 DEF Types
  <2>3. ASSUME NEW t \in Tokens, tok[t] = "unspent"
        PROVE  tok'[t] = "unspent" /\ sid'[t] = sid[t]
    BY <2>1, <2>3 DEF Types
  <2>4. \A f \in Families \ {g} : fam'[f] = fam[f]
    BY <2>1 DEF Types
  <2> QED
    BY <2>1, <2>2, <2>3, <2>4 DEF NeverStranded
<1>4. CASE Purging \/ PurgeCommit
  <2>1. UNCHANGED <<sid, reason>>
    BY <1>4 DEF Purging, PurgeSelect, PurgeTokens, PurgeRow, PurgeFail, PurgeCommit,
       dbVars
  <2>2. CASE UNCHANGED <<fam, tok>>
    BY <2>1, <2>2 DEF NeverStranded
  <2>3. CASE /\ fam' = [f \in Families |-> IF f \in cut THEN "purged" ELSE fam[f]]
             /\ tok' = [t \in Tokens |-> IF sid[t] \in cut THEN "purged" ELSE tok[t]]
    BY <2>1, <2>3 DEF NeverStranded
  <2> QED
    BY <1>4, <2>2, <2>3
       DEF Purging, PurgeSelect, PurgeTokens, PurgeRow, PurgeFail, PurgeCommit, dbVars
<1>5. ASSUME Next, NEW r \in Requests, Commit(r) PROVE NeverStranded'
  <2> SUFFICES ASSUME NEW f \in Families, fam'[f] = "stored", reason'[f] = None
               PROVE  \E t \in Tokens : tok'[t] = "unspent" /\ sid'[t] = f
    BY DEF NeverStranded
  <2>1. /\ tok' = TokensAfter(r) /\ fam' = fam /\ pc[r] = "commit"
        /\ sid' = IF "issue" \in wrote[r]
                     THEN [sid EXCEPT ![pair[r]] = Session(r)] ELSE sid
    BY <1>5 DEF Commit
  <2>2. PICK t \in Tokens : tok[t] = "unspent" /\ sid[t] = f
    BY <1>2, <1>5, <2>1 DEF NeverStranded
  <2>3. "issue" \in wrote[r] =>
           /\ pair[r] \in Tokens /\ tok[pair[r]] = "absent"
           /\ tok'[pair[r]] = "unspent" /\ sid'[pair[r]] = Session(r)
    <3>1. "issue" \in wrote[r] => Signing(r)
      BY <2>1 DEF Signing, Secure, Shape, ShapeOf
    <3> QED
      BY <2>1, <3>1, Hands DEF Rows, HandOf, TokensAfter, Types, Secure
  <2>4. CASE "claim" \in wrote[r] /\ t = arg[r] /\ "issue" \in wrote[r]
    BY <2>2, <2>3, <2>4 DEF Session
  <2>5. CASE "claim" \in wrote[r] /\ t = arg[r] /\ "issue" \notin wrote[r]
    <3>1. Session(r) = f /\ (f \in Ending(r) \/ Dead(f))
      BY <2>1, <2>2, <2>5 DEF Session, Ends, EndsOf, EndingOf
    <3>2. Ending(r) = staged[r] /\ (staged[r] # {} => why[r] \in Reasons)
      BY <2>1 DEF Secure, Shape, ShapeOf, Ending
    <3>3. f \in staged[r] => reason'[f] # None
      BY <1>5, <3>2, NoneAssumption DEF Commit, ReasonsAfter
    <3> QED
      BY <1>2, <1>5, <2>1, <3>1, <3>2, <3>3 DEF Dead
  <2>6. CASE ~("claim" \in wrote[r] /\ t = arg[r])
    BY <2>1, <2>2, <2>3, <2>6 DEF TokensAfter, Types
  <2> QED
    BY <2>4, <2>5, <2>6
<1>6. ASSUME Next, NEW r \in Requests, Busy(r), ~Commit(r) PROVE NeverStranded'
  <2>1. CASE Quiet(r)
    BY <1>1, <1>2, <1>6, <2>1, QuietRows DEF QuietFacts, Secure, Shape
  <2> QED
    BY <1>1, <1>2, <1>6, <2>1 DEF Busy, Arrive, Claim, dbVars
<1>7. CASE \/ UNCHANGED vars
           \/ \E f \in Families : Expire(f)
           \/ \E u \in Users : SetActive(u)
           \/ \E t \in Tokens : GraceExpire(t)
  BY <1>1, <1>7 DEF vars, dbVars, Expire, SetActive, GraceExpire
<1> QED
  BY <1>3, <1>4, <1>5, <1>6, <1>7, Steps

-----------------------------------------------------------------------------
(* The theorems.                                                           *)

LEMMA FaithfulInvariant == Spec => [](Secure /\ Faithful)
<1>1. Init => Secure /\ Faithful
  <2>1. Init => Secure
    BY ShapeInit DEF Init, Secure, Locks
  <2>2. Init => NeverStranded
    BY DEF Init, NeverStranded
  <2> QED
    BY <2>1, <2>2, RowsInit, EndsInit DEF Faithful
<1>2. Secure /\ Faithful /\ [Next]_vars => (Secure /\ Faithful)'
  BY ShapeNext, LocksNext, RowsNext, EndsNext, StrandedNext DEF Faithful, Secure
<1> QED
  BY <1>1, <1>2, PTL DEF Spec

\* consume()'s claim lets one caller win: on a database that evaluates the
\* claim's WHERE clause again on the row it has waited for, a session never
\* has two refresh tokens that redeem.
THEOREM OneTokenRedeems == ASSUME ClaimRechecked PROVE Spec => []OneCurrentToken
<1>1. Faithful => OneCurrentToken
  BY DEF Faithful, Rows
<1> QED
  BY <1>1, FaithfulInvariant, PTL

\* consume() and issue() are one transaction: wherever requests fail, a session
\* that stands has a token that redeems.
THEOREM NobodyIsStranded == Spec => []NeverStranded
<1>1. Faithful => NeverStranded
  BY DEF Faithful
<1> QED
  BY <1>1, FaithfulInvariant, PTL

\* revoke_family() cuts refresh off at once, the grace window included: on a
\* database that evaluates the claim's WHERE clause again on the row it has
\* waited for, what is revoked before the claim is not redeemed.
THEOREM RevokedAtOnce == ASSUME ClaimRechecked PROVE Spec => []RevocationIsInstant
<1>1. Faithful => RevocationIsInstant
  BY DEF Faithful, Ends, EndsOf, SeenOf, RevocationIsInstant
<1> QED
  BY <1>1, FaithfulInvariant, PTL

\* _burn() is committed by the time reuse, or a disabled account, is refused.
THEOREM BurnsAreFinal == Spec => []BurnSurvives
<1>1. Faithful => BurnSurvives
  BY DEF Faithful, Ends, EndsOf, DoneOf, BurnSurvives
<1> QED
  BY <1>1, FaithfulInvariant, PTL

\* revoke() and revoke_all() leave nothing standing that they say is over.
THEOREM SignOutsAreTrue == Spec => []SignedOut
<1>1. Faithful => SignedOut
  BY DEF Faithful, Ends, EndsOf, DoneOf, SignedOut
<1> QED
  BY <1>1, FaithfulInvariant, PTL

-----------------------------------------------------------------------------
(* The grace window.                                                       *)

\* n is the token that redeeming t has produced.
Follows(n, t) ==
    /\ tok[t] \in {"spent", "purged"}
    /\ n \in Tokens /\ tok[n] # "absent" /\ sid[n] = sid[t]

\* Whoever is about to put a pair in the window, or has served one from it,
\* has the pair that its token's rotation produced.
TellsTrue(r) ==
    pc[r] = "put" \/ (pc[r] = "done" /\ ans[r] = "replayed")
       => Follows(pair[r], arg[r])

GraceTrue ==
    /\ \A t \in Tokens : grace[t] # None => Follows(grace[t], t)
    /\ \A r \in Requests : TellsTrue(r)

\* Under ATOMIC_REQUESTS, with a cache that loses nothing: a session that
\* stands has an entry for each token it has replaced, whoever finds his token
\* replaced finds the entry, and nobody is taken for a thief.
EntryOf(t) ==
    /\ tok[t] = "purged" => fam[sid[t]] = "purged"
    /\ tok[t] = "spent" => grace[t] # None \/ Dead(sid[t])

NoThief(r) ==
    /\ pc[r] = "commit" /\ "issue" \in wrote[r] => grace[arg[r]] # None
    /\ pc[r] = "resolve" => tok[arg[r]] # "unspent" \/ Dead(Session(r))
    /\ pc[r] = "replay" => grace[arg[r]] # None
    /\ ans[r] # "reused"

GraceKept ==
    /\ \A t \in Tokens : EntryOf(t)
    /\ \A r \in Requests : NoThief(r)

\* How the tokens change: what is stored stays, what is spent or purged stays
\* so, a commit spends the claimed token and the purge purges.
LEMMA TokensMove ==
    ASSUME Secure, Rows, Next, NEW t \in Tokens
    PROVE  /\ tok[t] # "absent" => tok'[t] # "absent"
           /\ tok[t] \in {"spent", "purged"} => tok'[t] \in {"spent", "purged"}
           /\ tok'[t] = "spent" =>
                 \/ tok[t] = "spent"
                 \/ \E r \in Requests :
                       Commit(r) /\ "claim" \in wrote[r] /\ arg[r] = t
           /\ tok'[t] = "purged" =>
                 tok[t] = "purged" \/ (tok[t] # "absent" /\ fam'[sid[t]] = "purged")
<1> Types
  BY DEF Secure, Shape
<1>1. ASSUME NEW r \in Requests, Commit(r)
      PROVE  /\ tok[t] # "absent" => tok'[t] # "absent"
             /\ tok[t] \in {"spent", "purged"} => tok'[t] \in {"spent", "purged"}
             /\ tok'[t] = "spent" =>
                   tok[t] = "spent" \/ ("claim" \in wrote[r] /\ arg[r] = t)
             /\ tok'[t] = "purged" => tok[t] = "purged"
  <2>1. "issue" \in wrote[r] => Signing(r)
    BY <1>1 DEF Commit, Signing, Secure, Shape, ShapeOf
  <2>2. Signing(r) => tok[pair[r]] = "absent"
    BY DEF Rows, HandOf
  <2> QED
    BY <1>1, <2>1, <2>2 DEF Commit, TokensAfter, Types
<1>2. ASSUME NEW r \in Requests, Busy(r), ~Commit(r) PROVE UNCHANGED tok
  <2>1. CASE Quiet(r)
    BY <2>1, QuietRows DEF QuietFacts, Secure, Shape
  <2> QED
    BY <1>2, <2>1 DEF Busy, Arrive, Claim, dbVars
<1>3. CASE Purging \/ PurgeCommit
  <2>1. CASE UNCHANGED tok
    BY <2>1 DEF Types
  <2>2. CASE /\ fam' = [f \in Families |-> IF f \in cut THEN "purged" ELSE fam[f]]
             /\ tok' = [k \in Tokens |-> IF sid[k] \in cut THEN "purged" ELSE tok[k]]
    BY <2>2, NoneAssumption DEF Types, Rows, RowsOf
  <2> QED
    BY <1>3, <2>1, <2>2
       DEF Purging, PurgeSelect, PurgeTokens, PurgeRow, PurgeFail, PurgeCommit, dbVars
<1>4. CASE \E f \in Families, k \in Tokens : OpenSession(f, k)
  BY <1>4 DEF OpenSession, Fresh, Types
<1> QED
  BY <1>1, <1>2, <1>3, <1>4, Steps DEF Expire, SetActive, GraceExpire, dbVars

LEMMA FollowsStays ==
    ASSUME Secure, Rows, Next, NEW n \in Tokens, NEW t \in Tokens, Follows(n, t)
    PROVE  Follows(n, t)'
BY TokensMove, Permanent DEF Follows

\* Only a put and a loss change the window.
LEMMA GraceMoves ==
    ASSUME Types, Next
    PROVE  \/ UNCHANGED grace
           \/ \E r \in Requests :
                 GracePut(r) /\ grace' = [grace EXCEPT ![arg[r]] = pair[r]]
           \/ ~ReliableCache /\ \E t \in Tokens : grace' = [grace EXCEPT ![t] = None]
<1>1. ASSUME Environment \/ PurgeSelect \/ PurgeStep \/ PurgeFail,
             ~\E t \in Tokens : GraceExpire(t)
      PROVE  UNCHANGED grace
  BY <1>1 DEF Environment, OpenSession, Expire, SetActive, PurgeSelect, PurgeStep,
     PurgeTokens, PurgeRows, PurgeRow, PurgeCommit, PurgeFail
<1>2. ASSUME NEW r \in Requests,
             \/ \E o \in Operations, t \in Tokens : Arrive(r, o, t)
             \/ Fail(r) \/ DeadlockVictim(r) \/ Reply(r)
      PROVE  UNCHANGED grace
  BY <1>2 DEF Arrive, Fail, DeadlockVictim, Abort, Reply
<1>3. ASSUME NEW r \in Requests, Step(r), ~GracePut(r) PROVE UNCHANGED grace
  BY <1>3 DEF Step, LoadUser, Classify, MatchClaim, Claim, Touch,
     ResolveClaimConflict, Issue, HandleReplay, SelectFamilies, Revoke, Commit
<1>4. ASSUME NEW r \in Requests, GracePut(r)
      PROVE  UNCHANGED grace \/ grace' = [grace EXCEPT ![arg[r]] = pair[r]]
  BY <1>4 DEF GracePut
<1> QED
  BY <1>1, <1>2, <1>3, <1>4 DEF Next, GraceExpire

\* Where a busy worker comes to the places that GraceTrue and GraceKept are
\* about.
LEMMA Arrivals ==
    ASSUME Secure, NEW r \in Requests, EndsOf(r), Busy(r)
    PROVE  /\ pc'[r] = "idle" => ans'[r] = "none"
           /\ pc'[r] = "put" => \/ Commit(r) /\ "issue" \in wrote[r]
                                \/ Issue(r) /\ PutBeforeCommit
           /\ pc'[r] = "done" /\ ans'[r] = "replayed" =>
                 HandleReplay(r) /\ pair'[r] = grace[arg[r]] /\ grace[arg[r]] # None
           /\ pc'[r] = "commit" /\ "issue" \in wrote'[r] => GracePut(r) \/ Issue(r)
           /\ pc'[r] = "resolve" => MatchClaim(r) \/ Claim(r)
           /\ pc'[r] = "replay" => ResolveClaimConflict(r) /\ ~Dead(Session(r))
           /\ ans'[r] = "reused" =>
                 \/ ans[r] = "reused"
                 \/ HandleReplay(r) /\ (ReliableCache => grace[arg[r]] = None)
<1> Types /\ ShapeOf(r)
  BY DEF Secure, Shape
<1>1. pc[r] \in {"put", "commit"} => ans[r] # "replayed"
  BY DEF EndsOf, AnswerOf
<1> USE DEF Types, dbVars, txVars, reqVars, ShapeOf, Lockless
<1>2. ASSUME NEW o \in Operations, NEW t \in Tokens, Arrive(r, o, t)
      PROVE  pc'[r] \in {"user", "classify"} /\ ans'[r] = "ok"
  BY <1>2 DEF Arrive
<1>3. CASE Fail(r) \/ DeadlockVictim(r) \/ Reply(r)
  BY <1>3 DEF Fail, DeadlockVictim, Reply, Abort, Release
<1>4. CASE LoadUser(r)
  BY <1>4 DEF LoadUser, StartRevoking
<1>5. CASE Classify(r) \/ MatchClaim(r)
  BY <1>5 DEF Classify, MatchClaim, Finish
<1>6. CASE Claim(r)
  BY <1>6 DEF Claim
<1>7. CASE Touch(r)
  <2>1. pc'[r] \in {"issue", "revoke", "commit", "select"} /\ ans'[r] = ans[r]
        /\ "issue" \notin wrote'[r]
    BY <1>7 DEF Touch, StartRevoking
  <2> QED
    BY <2>1
<1>8. CASE ResolveClaimConflict(r)
  BY <1>8 DEF ResolveClaimConflict, Finish
<1>9. CASE Issue(r)
  BY <1>9 DEF Issue
<1>10. CASE HandleReplay(r)
  <2>1. /\ pc'[r] \in {"done", "revoke", "commit", "select"}
        /\ wrote'[r] = {}
        /\ ans'[r] = "reused" => ans[r] = "reused" \/ (ReliableCache => grace[arg[r]] = None)
    BY <1>10 DEF HandleReplay, StartRevoking, Finish
  <2>2. pc'[r] = "done" /\ ans'[r] = "replayed" =>
           pair'[r] = grace[arg[r]] /\ grace[arg[r]] # None
    BY <1>10 DEF HandleReplay, StartRevoking, Finish
  <2> QED
    BY <1>10, <2>1, <2>2
<1>11. CASE SelectFamilies(r)
  <2>1. pc'[r] \in {"revoke", "commit"} /\ ans'[r] = ans[r] /\ wrote'[r] = wrote[r]
    BY <1>11 DEF SelectFamilies, StartRevoking
  <2> QED
    BY <1>11, <2>1 DEF SelectFamilies
<1>12. CASE Revoke(r)
  BY <1>12 DEF Revoke
<1>13. CASE GracePut(r)
  BY <1>1, <1>13 DEF GracePut
<1>14. CASE Commit(r)
  BY <1>1, <1>14 DEF Commit, EndTx
<1> QED
  BY <1>2, <1>3, <1>4, <1>5, <1>6, <1>7, <1>8, <1>9, <1>10, <1>11, <1>12, <1>13,
     <1>14 DEF Busy, Quiet

\* In autocommit the entry follows the commit.
LEMMA GraceTrueNext ==
    ASSUME ~AtomicRequests, Secure, Faithful, GraceTrue, [Next]_vars
    PROVE  GraceTrue'
<1> Types /\ Rows /\ Ends /\ ~PutBeforeCommit
  BY DEF Secure, Shape, Faithful, PutBeforeCommit
<1>1. CASE UNCHANGED vars
  BY <1>1 DEF vars, dbVars, txVars, reqVars, GraceTrue, TellsTrue, Follows
<1>2. CASE Next
  <2>1. ASSUME NEW n, NEW t \in Tokens, n # None, n \in Tokens \cup {None},
               Follows(n, t)
        PROVE  Follows(n, t)'
    BY <1>2, <2>1, FollowsStays
  <2>2. ASSUME NEW r \in Requests, TellsTrue(r), Still(r) PROVE TellsTrue(r)'
    <3>1. SUFFICES ASSUME Follows(pair[r], arg[r]), pc[r] # "idle",
                          pc[r] = "put" \/ (pc[r] = "done" /\ ans[r] = "replayed")
                   PROVE  Follows(pair[r], arg[r])'
      BY <2>2 DEF TellsTrue, Still, Untouched
    <3>2. PICK t \in Tokens : t = arg[r]
      BY <3>1, Hands DEF Secure
    <3>3. PICK n \in Tokens : n = pair[r]
      BY <3>1 DEF Follows
    <3>4. Follows(n, t)'
      BY <1>2, <3>1, <3>2, <3>3, FollowsStays
    <3> QED
      BY <2>2, <3>2, <3>3, <3>4 DEF Still, Untouched, Follows
  <2>3. ASSUME NEW r \in Requests, Busy(r) PROVE TellsTrue(r)'
    <3>1. SUFFICES ASSUME pc'[r] = "put"
                          \/ (pc'[r] = "done" /\ ans'[r] = "replayed")
                   PROVE  Follows(pair[r], arg[r])'
      BY DEF TellsTrue
    <3>2. \/ Commit(r) /\ "issue" \in wrote[r]
          \/ HandleReplay(r) /\ pair'[r] = grace[arg[r]] /\ grace[arg[r]] # None
      BY <2>3, <3>1, Arrivals DEF Ends
    <3>3. CASE Commit(r) /\ "issue" \in wrote[r]
      <4>1. /\ pc[r] = "commit" /\ op[r] = "refresh" /\ "claim" \in wrote[r]
            /\ Signing(r)
        BY <3>3 DEF Commit, Signing, Secure, Shape, ShapeOf
      <4>2. PICK t \in Tokens : t = arg[r] /\ tok[t] # "absent"
        BY <4>1, Hands DEF Secure, Rows, HandOf
      <4>3. PICK n \in Tokens : n = pair[r] /\ tok[n] = "absent"
        BY <4>1, Hands DEF Secure, Rows, HandOf
      <4>4. /\ tok'[t] = "spent" /\ tok'[n] = "unspent" /\ sid'[n] = sid'[t]
            /\ arg' = arg /\ pair' = pair
        BY <3>3, <4>1, <4>2, <4>3
           DEF Commit, TokensAfter, Session, Types, reqVars
      <4> QED
        BY <4>2, <4>3, <4>4 DEF Follows
    <3>4. CASE HandleReplay(r) /\ pair'[r] = grace[arg[r]] /\ grace[arg[r]] # None
      <4>1. pc[r] # "idle" /\ UNCHANGED <<tok, sid, arg>>
        BY <3>4 DEF HandleReplay, dbVars
      <4>2. PICK t \in Tokens : t = arg[r]
        BY <4>1, Hands DEF Secure
      <4>3. PICK n \in Tokens : n = grace[t] /\ Follows(n, t)
        BY <3>4, <4>2 DEF GraceTrue, Types
      <4> QED
        BY <3>4, <4>1, <4>2, <4>3 DEF Follows
    <3> QED
      BY <3>2, <3>3, <3>4
  <2>4. \A r \in Requests : TellsTrue(r)'
    <3>1. CASE \E r \in Requests : Busy(r)
      BY <2>2, <2>3, <3>1, OthersStill DEF GraceTrue
    <3>2. CASE \A s \in Requests : Still(s)
      BY <2>2, <3>2 DEF GraceTrue
    <3> QED
      BY <1>2, <3>1, <3>2, Steps, PurgeStill
         DEF OpenSession, Expire, SetActive, GraceExpire, txVars, reqVars, Still,
             Untouched
  <2>5. ASSUME NEW t \in Tokens, grace'[t] # None PROVE Follows(grace[t], t)'
    <3>1. CASE grace'[t] = grace[t]
      <4>1. PICK n \in Tokens : n = grace[t] /\ Follows(n, t)
        BY <2>5, <3>1 DEF GraceTrue, Types
      <4>2. Follows(n, t)'
        BY <1>2, <4>1, FollowsStays
      <4> QED
        BY <3>1, <4>1, <4>2 DEF Follows
    <3>2. ASSUME NEW r \in Requests, GracePut(r), t = arg[r], grace'[t] = pair[r]
          PROVE  Follows(grace[t], t)'
      <4>1. Follows(pair[r], t) /\ pair[r] \in Tokens
        BY <3>2 DEF GracePut, GraceTrue, TellsTrue, Secure, Shape, ShapeOf
      <4>2. PICK n \in Tokens : n = pair[r]
        BY <4>1
      <4>3. Follows(n, t)'
        BY <1>2, <4>1, <4>2, FollowsStays
      <4> QED
        BY <3>2, <4>2, <4>3 DEF Follows
    <3> QED
      BY <1>2, <2>5, <3>1, <3>2, GraceMoves DEF Types
  <2> QED
    BY <2>4, <2>5 DEF GraceTrue
<1> QED
  BY <1>1, <1>2

\* Under ATOMIC_REQUESTS the entry goes before the commit.
LEMMA GraceKeptNext ==
    ASSUME AtomicRequests, ReliableCache, Secure, Faithful, GraceKept,
           [Next]_vars
    PROVE  GraceKept'
<1> Types /\ Rows /\ Ends /\ PutBeforeCommit /\ (\A r \in Requests : ShapeOf(r))
  BY DEF Secure, Shape, Faithful, PutBeforeCommit
<1>1. CASE UNCHANGED vars
  BY <1>1 DEF vars, dbVars, txVars, reqVars, GraceKept, EntryOf, NoThief, Dead,
              Session
<1>2. CASE Next
  <2>1. ASSUME NEW t \in Tokens, grace[t] # None PROVE grace'[t] # None
    <3>1. \A r \in Requests : GracePut(r) => pair[r] \in Tokens
      BY DEF GracePut, ShapeOf
    <3> QED
      BY <1>2, <2>1, <3>1, GraceMoves, NoneAssumption DEF Types
  <2>2. ASSUME NEW t \in Tokens PROVE EntryOf(t)'
    <3>1. tok[t] # "absent" => sid'[t] = sid[t] /\ sid[t] \in Families
      BY <1>2, Permanent DEF Secure, Shape, TokensNamed
    <3>2. \A f \in Families : /\ fam[f] = "purged" => fam'[f] = "purged"
                              /\ Dead(f) => Dead(f)'
      <4>1. UNCHANGED fam \/ PurgeCommit
            \/ \E f \in Families, k \in Tokens : OpenSession(f, k)
        BY <1>2, RevocationSteps
           DEF Fail, DeadlockVictim, Abort, Revoke, Commit, Purging, PurgeSelect,
               PurgeTokens, PurgeRow, PurgeFail, dbVars
      <4> QED
        BY <1>2, <4>1, Permanent DEF OpenSession, PurgeCommit, Types
    <3>4. ASSUME tok'[t] = "purged" PROVE fam'[sid'[t]] = "purged"
      <4>1. tok[t] # "absent"
        BY <1>2, <3>4, TokensMove
      <4> QED
        BY <1>2, <3>1, <3>2, <3>4, <4>1, TokensMove DEF GraceKept, EntryOf
    <3>5. ASSUME tok'[t] = "spent" PROVE grace'[t] # None \/ Dead(sid[t])'
      <4>1. CASE tok[t] = "spent"
        BY <2>1, <3>1, <3>2, <4>1 DEF GraceKept, EntryOf, Dead
      <4>2. ASSUME NEW r \in Requests, Commit(r), "claim" \in wrote[r], arg[r] = t
            PROVE  grace'[t] # None \/ Dead(sid[t])'
        <5>1. pc[r] = "commit" /\ tok[t] # "absent"
          BY <4>2 DEF Commit, Rows, HandOf
        <5>2. CASE "issue" \in wrote[r]
          BY <2>1, <4>2, <5>1, <5>2 DEF GraceKept, NoThief
        <5>3. CASE "issue" \notin wrote[r]
          <6>1. Session(r) \in staged[r] \/ Dead(Session(r))
            BY <5>1, <5>3 DEF Ends, EndsOf, EndingOf, Ending, ShapeOf
          <6>2. ASSUME Session(r) \in staged[r] PROVE reason'[Session(r)] # None
            BY <4>2, <5>1, <6>2, NoneAssumption
               DEF Commit, ReasonsAfter, ShapeOf, Types
          <6> QED
            BY <3>1, <3>2, <4>2, <5>1, <6>1, <6>2 DEF Dead, Session
        <5> QED
          BY <5>2, <5>3
      <4> QED
        BY <1>2, <3>5, <4>1, <4>2, TokensMove
    <3> QED
      BY <3>4, <3>5 DEF EntryOf
  <2>3. ASSUME NEW r \in Requests, Still(r) PROVE NoThief(r)'
    <3>1. NoThief(r) /\ (pc[r] # "idle" => arg[r] \in Tokens /\ tok[arg[r]] # "absent")
      BY Hands DEF GraceKept, Secure, Rows, HandOf
    <3>2. pc[r] # "idle" /\ tok[arg[r]] # "unspent" => tok'[arg[r]] # "unspent"
      BY <1>2, <3>1, TokensMove DEF Types
    <3>3. pc[r] # "idle" => /\ sid'[arg[r]] = Session(r)
                            /\ Dead(Session(r)) => Dead(Session(r))'
      <4>1. CASE pc[r] # "idle"
        <5>1. PICK f \in Families : f = Session(r) /\ sid'[arg[r]] = f
          BY <1>2, <3>1, <4>1, Permanent DEF ShapeOf, Session
        <5>2. Dead(f) => Dead(f)'
          BY <1>2, Permanent
        <5> QED
          BY <2>3, <5>1, <5>2 DEF Dead, Session, Still, Untouched
      <4> QED
        BY <4>1
    <3> QED
      BY <2>1, <2>3, <3>1, <3>2, <3>3 DEF NoThief, Still, Untouched, Dead, Session
  <2>4. ASSUME NEW r \in Requests, Busy(r) PROVE NoThief(r)'
    <3>1. CASE pc'[r] = "idle"
      <4>1. ans'[r] = "none"
        BY <2>4, <3>1, Arrivals DEF Ends
      <4> QED
        BY <3>1, <4>1 DEF NoThief
    <3>2. ASSUME pc'[r] = "commit", "issue" \in wrote'[r]
          PROVE  grace'[arg'[r]] # None
      <4>1. GracePut(r)
        BY <2>4, <3>2, Arrivals DEF Ends, Issue, Types
      <4> QED
        BY <4>1, NoneAssumption DEF GracePut, ShapeOf, Types, reqVars
    <3>3. ASSUME pc'[r] = "resolve" PROVE (tok[arg[r]] # "unspent" \/ Dead(Session(r)))'
      BY <2>4, <3>3, Arrivals
         DEF Ends, MatchClaim, Claim, Claimable, Dead, Session, dbVars, reqVars,
             Types
    <3>4. ASSUME pc'[r] = "replay" PROVE grace'[arg'[r]] # None
      <4>1. ResolveClaimConflict(r) /\ ~Dead(Session(r))
        BY <2>4, <3>4, Arrivals DEF Ends
      <4>2. pc[r] = "resolve" /\ arg' = arg /\ grace' = grace
        BY <4>1 DEF ResolveClaimConflict
      <4>3. arg[r] \in Tokens /\ tok[arg[r]] \notin {"absent", "unspent"}
        BY <4>1, <4>2, Hands DEF GraceKept, NoThief, Secure, Rows, HandOf
      <4>4. tok[arg[r]] = "spent"
        BY <4>1, <4>3 DEF GraceKept, EntryOf, Dead, Session, Types
      <4> QED
        BY <4>1, <4>2, <4>3, <4>4 DEF GraceKept, EntryOf, Session
    <3>5. ans'[r] # "reused"
      <4>1. CASE pc'[r] = "idle"
        BY <2>4, <4>1, Arrivals DEF Ends
      <4>2. CASE pc'[r] # "idle"
        BY <2>4, <4>2, Arrivals DEF Ends, GraceKept, NoThief, HandleReplay
      <4> QED
        BY <4>1, <4>2
    <3> QED
      BY <3>2, <3>3, <3>4, <3>5 DEF NoThief
  <2>5. \A r \in Requests : NoThief(r)'
    <3>1. CASE \E r \in Requests : Busy(r)
      BY <2>3, <2>4, <3>1, OthersStill
    <3>2. CASE \A s \in Requests : Still(s)
      BY <2>3, <3>2
    <3> QED
      BY <1>2, <3>1, <3>2, Steps, PurgeStill
         DEF OpenSession, Expire, SetActive, GraceExpire, txVars, reqVars, Still,
             Untouched
  <2> QED
    BY <2>2, <2>5 DEF GraceKept
<1> QED
  BY <1>1, <1>2

-----------------------------------------------------------------------------
(* The order of the locks.                                                 *)

\* A row of a family is locked once on the way to its revocation, and a request
\* that ends one session revokes that of its token and no other.
OrderOf(r) ==
    /\ pc[r] = "touch" => "touch" \notin wrote[r]
    /\ pc[r] = "revoke" /\ op[r] # "logout_all" =>
          cur[r] = Session(r) /\ todo[r] = {} /\ staged[r] = {}

\* No two transactions have locked the row of one family.
OneHolder ==
    \A r, s \in Requests : r # s =>
        \A f \in Families : ~(HoldsFamily(r, f) /\ HoldsFamily(s, f))

\* The purge locks its tokens before its families, and what it has locked no
\* request has.
PurgeOrder ==
    /\ cut \cap Families # {} => doomed \cap Tokens = {}
    /\ \A r \in Requests : \A f \in Families : HoldsFamily(r, f) => f \notin cut

InOrder == (\A r \in Requests : OrderOf(r)) /\ OneHolder /\ PurgeOrder

\* A family is locked by a statement that has waited for its lock.
LEMMA FamilyLocks ==
    ASSUME Secure, Rows, Next, NEW r \in Requests, NEW f \in Families,
           HoldsFamily(r, f)'
    PROVE  \/ HoldsFamily(r, f)
           \/ Busy(r) /\ FamilyFree(r, f)
<1> Types /\ ShapeOf(r) /\ HandOf(r)
  BY DEF Secure, Shape, Rows
<1>1. "touch" \in wrote[r] => pc[r] # "idle" /\ sid'[arg[r]] = sid[arg[r]]
  BY Permanent DEF ShapeOf, HandOf, Lockless
<1>2. CASE Still(r)
  BY <1>1, <1>2 DEF HoldsFamily, Session, Still, Untouched
<1>3. CASE Touch(r)
  <2>1. arg' = arg /\ sid' = sid /\ staged' = staged /\ FamilyFree(r, Session(r))
    BY <1>3 DEF Touch, dbVars
  <2> QED
    BY <1>3, <2>1 DEF HoldsFamily, Session, Busy, Quiet
<1>4. CASE Revoke(r)
  <2>1. arg' = arg /\ sid' = sid /\ wrote' = wrote
        /\ \/ staged'[r] \subseteq staged[r]
           \/ staged'[r] \subseteq staged[r] \cup {cur[r]} /\ FamilyFree(r, cur[r])
    BY <1>4 DEF Revoke, Types
  <2> QED
    BY <1>4, <2>1 DEF HoldsFamily, Session, Busy, Quiet
<1>5. ASSUME Busy(r), ~Touch(r), ~Revoke(r)
      PROVE  /\ staged'[r] \subseteq staged[r]
             /\ "touch" \in wrote'[r] => "touch" \in wrote[r] /\ arg'[r] = arg[r]
  <2> USE DEF dbVars, txVars, reqVars, Types
  <2>1. CASE Fail(r) \/ DeadlockVictim(r)
    BY <2>1 DEF Fail, DeadlockVictim, Abort, EndTx
  <2>2. CASE Reply(r) \/ \E o \in Operations, t \in Tokens : Arrive(r, o, t)
    BY <2>2 DEF Reply, Arrive, ShapeOf, Lockless
  <2>3. CASE Commit(r)
    BY <2>3 DEF Commit, EndTx
  <2> QED
    BY <1>5, <2>1, <2>2, <2>3
       DEF Busy, Quiet, LoadUser, Classify, MatchClaim, Claim,
           ResolveClaimConflict, Issue, HandleReplay, SelectFamilies, GracePut
<1>6. CASE Busy(r) /\ ~Touch(r) /\ ~Revoke(r)
  BY <1>1, <1>5, <1>6 DEF HoldsFamily, Session
<1>7. Still(r) \/ Busy(r)
  BY OthersStill, Steps, PurgeStill
     DEF OpenSession, Expire, SetActive, GraceExpire, txVars, reqVars, Still,
         Untouched
<1> QED
  BY <1>2, <1>3, <1>4, <1>6, <1>7

LEMMA OneHolderNext ==
    ASSUME Secure, Rows, OneHolder, Next PROVE OneHolder'
<1> SUFFICES ASSUME NEW r \in Requests, NEW s \in Requests, r # s,
                    NEW f \in Families, HoldsFamily(r, f)', HoldsFamily(s, f)'
             PROVE  FALSE
  BY DEF OneHolder
<1> Types /\ ShapeOf(r) /\ ShapeOf(s) /\ HandOf(r) /\ HandOf(s)
  BY DEF Secure, Shape, Rows
<1>1. ASSUME NEW p \in Requests, Still(p), HoldsFamily(p, f)'
      PROVE  HoldsFamily(p, f)
  <2>1. "touch" \in wrote[p] => sid'[arg[p]] = sid[arg[p]]
    BY Permanent DEF Secure, Shape, ShapeOf, Rows, HandOf, Lockless
  <2> QED
    BY <1>1, <2>1 DEF HoldsFamily, Session, Still, Untouched
<1>2. Busy(r) => HoldsFamily(s, f)
  BY <1>1, OthersStill
<1>3. Busy(s) => HoldsFamily(r, f)
  BY <1>1, OthersStill
<1> QED
  BY <1>2, <1>3, FamilyLocks DEF OneHolder, FamilyFree

LEMMA PurgeOrderNext ==
    ASSUME Secure, Rows, PurgeOrder, Next PROVE PurgeOrder'
<1> Types /\ \A s \in Requests : ShapeOf(s)
  BY DEF Secure, Shape
<1>1. ASSUME NEW r \in Requests, NEW f \in Families, HoldsFamily(r, f)',
             UNCHANGED cut
      PROVE  f \notin cut'
  BY <1>1, FamilyLocks DEF PurgeOrder, FamilyFree
<1>2. CASE UNCHANGED purgeVars
  BY <1>1, <1>2 DEF PurgeOrder, purgeVars
<1>3. CASE Purging \/ PurgeCommit
  <2>1. UNCHANGED <<sid, arg, wrote, staged>>
    BY <1>3 DEF Purging, PurgeSelect, PurgeTokens, PurgeRow, PurgeFail, PurgeCommit,
       dbVars, txVars, reqVars
  <2>2. CASE PurgeSelect \/ PurgeTokens \/ PurgeFail \/ PurgeCommit
    <3>1. cut' = {}
      BY <2>2 DEF PurgeSelect, PurgeTokens, PurgeFail, PurgeCommit
    <3> QED
      BY <3>1 DEF PurgeOrder
  <2>3. ASSUME NEW x \in Tokens \cup Families, PurgeRow(x) PROVE PurgeOrder'
    <3>1. /\ doomed' = doomed \ {x} /\ cut' = cut \cup {x}
          /\ x \in Families => doomed \cap Tokens = {}
          /\ \A r \in Requests : ~HoldsFamily(r, x)
      BY <2>3, RowAssumption DEF PurgeRow, NextRows
    <3> QED
      BY <2>1, <3>1, RowAssumption DEF PurgeOrder, HoldsFamily, Session
  <2> QED
    BY <1>3, <2>2, <2>3 DEF Purging
<1>4. UNCHANGED purgeVars \/ Purging \/ PurgeCommit
  BY RevocationSteps
     DEF OpenSession, Fail, DeadlockVictim, Abort, Revoke, Commit
<1> QED
  BY <1>2, <1>3, <1>4

LEMMA InOrderNext ==
    ASSUME Secure, Faithful, InOrder, [Next]_vars PROVE InOrder'
<1> Types /\ Rows /\ Ends
  BY DEF Secure, Shape, Faithful
<1>1. CASE UNCHANGED vars
  BY <1>1 DEF vars, dbVars, txVars, reqVars, purgeVars, InOrder, OrderOf,
              OneHolder, PurgeOrder, HoldsFamily, Session
<1>2. CASE Next
  <2>1. ASSUME NEW r \in Requests, Still(r) PROVE OrderOf(r)'
    <3>1. pc[r] # "idle" => sid'[arg[r]] = sid[arg[r]]
      BY <1>2, Permanent DEF Secure, Shape, ShapeOf, Rows, HandOf
    <3> QED
      BY <2>1, <3>1 DEF InOrder, OrderOf, Still, Untouched, Session
  <2>2. ASSUME NEW r \in Requests, Busy(r) PROVE OrderOf(r)'
    <3> ShapeOf(r) /\ OrderOf(r)
      BY DEF Secure, Shape, InOrder
    <3> DEFINE Turns(w) ==
                 /\ pc[r] # "idle" /\ staged[r] = {} /\ staged' = staged
                 /\ sid' = sid /\ arg' = arg
                 /\ StartRevoking(r, {Session(r)}, w)
    <3>1. ASSUME NEW w \in Reasons, Turns(w) PROVE OrderOf(r)'
      <4>1. cur'[r] = Session(r) /\ todo'[r] = {} /\ pc'[r] = "revoke"
        BY <3>1, RevokeOwn
      <4> QED
        BY <3>1, <4>1 DEF OrderOf, Session
    <3> HIDE DEF Turns
    <3>2. ASSUME pc'[r] \notin {"touch", "revoke"} PROVE OrderOf(r)'
      BY <3>2 DEF OrderOf
    <3>3. CASE Fail(r) \/ DeadlockVictim(r) \/ Reply(r)
      BY <3>2, <3>3 DEF Fail, DeadlockVictim, Reply, Abort, Release, Types
    <3>4. CASE \E o \in Operations, t \in Tokens : Arrive(r, o, t)
      BY <3>2, <3>4 DEF Arrive, Types
    <3>5. CASE Claim(r)
      BY <3>5 DEF Claim, OrderOf, Types
    <3>6. CASE Classify(r) \/ MatchClaim(r) \/ ResolveClaimConflict(r)
      BY <3>2, <3>6 DEF Classify, MatchClaim, ResolveClaimConflict, Finish, Types
    <3>7. CASE Issue(r) \/ GracePut(r) \/ Commit(r)
      BY <3>2, <3>7 DEF Issue, GracePut, Commit, Types
    <3>8. CASE LoadUser(r)
      <4>1. pc'[r] = "classify" \/ Turns("admin")
        BY <3>8 DEF LoadUser, Turns, Types, ShapeOf, Lockless, dbVars, txVars
      <4> QED
        BY <3>1, <3>2, <4>1 DEF Reasons
    <3>9. CASE Touch(r)
      <4>1. pc'[r] \in {"issue", "select"} \/ Turns("logout")
        BY <3>9 DEF Touch, Turns, Types, ShapeOf, dbVars
      <4> QED
        BY <3>1, <3>2, <4>1 DEF Reasons
    <3>10. CASE HandleReplay(r)
      <4>1. pc'[r] \in {"done", "select"} \/ Turns("logout")
            \/ Turns("reuse_detected")
        BY <3>10 DEF HandleReplay, Finish, Turns, Types, ShapeOf, Lockless,
                     dbVars, txVars
      <4> QED
        BY <3>1, <3>2, <4>1 DEF Reasons
    <3>11. CASE SelectFamilies(r)
      <4>1. op'[r] = "logout_all" /\ pc'[r] \in {"revoke", "commit"}
        BY <3>11 DEF SelectFamilies, StartRevoking, ShapeOf, Types
      <4> QED
        BY <4>1 DEF OrderOf
    <3>12. CASE Revoke(r)
      <4>1. op[r] = "logout_all" \/ pc'[r] = "commit"
        BY <3>12 DEF Revoke, OrderOf, Types
      <4>2. op'[r] = op[r] /\ pc'[r] \in {"revoke", "commit"}
        BY <3>12 DEF Revoke, Types
      <4> QED
        BY <4>1, <4>2 DEF OrderOf
    <3> QED
      BY <2>2, <3>3, <3>4, <3>5, <3>6, <3>7, <3>8, <3>9, <3>10, <3>11, <3>12
         DEF Busy, Quiet
  <2>3. \A r \in Requests : OrderOf(r)'
    <3>1. CASE \E r \in Requests : Busy(r)
      BY <2>1, <2>2, <3>1, OthersStill
    <3>2. CASE \A s \in Requests : Still(s)
      BY <2>1, <3>2
    <3> QED
      BY <1>2, <3>1, <3>2, Steps, PurgeStill
         DEF OpenSession, Expire, SetActive, GraceExpire, txVars, reqVars, Still,
             Untouched
  <2> QED
    BY <1>2, <2>3, OneHolderNext, PurgeOrderNext DEF InOrder
<1> QED
  BY <1>1, <1>2

\* Who is on a cycle of waits is revoking, and has locked a family that is not
\* the one he waits for: a logout-all, or the purge.
LEMMA CyclesAreLogoutAlls == Secure /\ InOrder => OnlyLogoutAllDeadlocks
<1> SUFFICES ASSUME Secure, InOrder, NEW S \in SUBSET Parties, Deadlock(S)
             PROVE  \A r \in S \ {Purger} : op[r] = "logout_all"
  BY DEF OnlyLogoutAllDeadlocks
<1> DEFINE R == S \ {Purger}
<1> /\ Types /\ PurgeOrder /\ OneHolder
    /\ \A r \in R : r \in Requests /\ r # Purger /\ ShapeOf(r) /\ OrderOf(r)
  BY PurgerAssumption DEF Secure, Shape, InOrder, Parties
<1>1. \A r \in R : pc[r] \in {"claim", "touch", "revoke"}
  BY DEF Deadlock, Blocks, WaitsFor
<1>2. ASSUME NEW r \in R PROVE pc[r] # "claim"
  <2>1. \E x \in Tokens \cup Families : Holds(r, x)
    BY DEF Deadlock, Blocks
  <2>2. wrote[r] # {} \/ staged[r] # {}
    BY <2>1 DEF Holds, HoldsToken, HoldsFamily
  <2> QED
    BY <2>2 DEF ShapeOf, Lockless
<1>3. ASSUME NEW r \in R, NEW x \in Tokens \cup Families, WaitsFor(r, x)
      PROVE  x \in Families
  BY <1>2, <1>3 DEF WaitsFor, ShapeOf, Session
\* The purge is on a cycle only with its families.
<1>4. ASSUME Purger \in S PROVE doomed \cap Tokens = {}
  <2>1. PICK q \in R : Blocks(Purger, q)
    BY <1>4 DEF Deadlock
  <2>2. PICK x \in Tokens \cup Families : WaitsFor(q, x) /\ x \in cut
    BY <2>1 DEF Blocks, Holds
  <2>3. x \in Families
    BY <1>3, <2>2
  <2> QED
    BY <2>2, <2>3 DEF PurgeOrder
<1>5. ASSUME NEW q \in S, NEW x \in Tokens \cup Families, WaitsFor(q, x)
      PROVE  x \in Families
  <2>1. CASE q = Purger
    <3>1. x \in doomed
      BY <1>5, <2>1 DEF WaitsFor, NextRows
    <3> QED
      BY <1>4, <2>1, <3>1
  <2> QED
    BY <1>3, <1>5, <2>1
<1>6. ASSUME NEW r \in R
      PROVE  \E x \in Families : HoldsFamily(r, x)
  <2>1. PICK q \in S, x \in Tokens \cup Families : WaitsFor(q, x) /\ Holds(r, x)
    BY DEF Deadlock, Blocks
  <2>2. x \in Families
    BY <1>5, <2>1
  <2>3. ~HoldsToken(r, x)
    BY <2>2, RowAssumption DEF HoldsToken, ShapeOf, Lockless
  <2> QED
    BY <2>1, <2>2, <2>3 DEF Holds
<1>7. \A r \in R : pc[r] = "revoke"
  BY <1>1, <1>2, <1>6 DEF HoldsFamily, ShapeOf, OrderOf
<1> SUFFICES ASSUME NEW r \in R, op[r] # "logout_all" PROVE FALSE
  OBVIOUS
<1>8. cur[r] = Session(r) /\ staged[r] = {} /\ cur[r] \in Families
  BY <1>7 DEF OrderOf, ShapeOf
<1>9. HoldsFamily(r, Session(r))
  BY <1>6, <1>8 DEF HoldsFamily
<1>10. PICK q \in S \ {r} : Holds(q, Session(r))
  <2>1. PICK q \in S \ {r}, x \in Tokens \cup Families :
           WaitsFor(r, x) /\ Holds(q, x)
    BY DEF Deadlock, Blocks
  <2>2. x = Session(r)
    BY <1>7, <1>8, <2>1 DEF WaitsFor
  <2> QED
    BY <2>1, <2>2
<1>11. CASE q = Purger
  BY <1>8, <1>9, <1>10, <1>11 DEF PurgeOrder, Holds
<1>12. CASE q # Purger
  <2>1. ~HoldsToken(q, Session(r))
    BY <1>8, <1>12, RowAssumption DEF HoldsToken, ShapeOf, Lockless
  <2> QED
    BY <1>8, <1>9, <1>10, <1>12, <2>1 DEF OneHolder, Holds
<1> QED
  BY <1>11, <1>12

-----------------------------------------------------------------------------
(* The theorems about the window and about waiting.                        *)

\* _grace_put() runs after the rotation's own transaction: as long as nobody
\* puts the view in another one, what the window serves is what redeeming the
\* token has stored.
THEOREM ReplaysAreSuccessors ==
    ASSUME ~AtomicRequests PROVE Spec => []ReplayServesSuccessor
<1>1. Init => GraceTrue
  BY DEF Init, GraceTrue, TellsTrue
<1>2. Secure /\ Faithful /\ GraceTrue /\ [Next]_vars => GraceTrue'
  BY GraceTrueNext
<1>3. GraceTrue => ReplayServesSuccessor
  BY DEF GraceTrue, TellsTrue, Follows, ReplayServesSuccessor, Session
<1> QED
  BY <1>1, <1>2, <1>3, FaithfulInvariant, PTL DEF Spec

\* In a view that is one transaction, and with a cache that keeps its entries
\* for the window, a token is never seen as replaced before the pair that
\* replaces it is in the window: no worker answers that a token was reused.
THEOREM NobodyIsAThief ==
    ASSUME AtomicRequests, ReliableCache PROVE Spec => []NoFalseAlarm
<1>1. Init => GraceKept
  BY DEF Init, GraceKept, EntryOf, NoThief
<1>2. Secure /\ Faithful /\ GraceKept /\ [Next]_vars => GraceKept'
  BY GraceKeptNext
<1>3. GraceKept => NoFalseAlarm
  BY DEF GraceKept, NoThief, NoFalseAlarm
<1> QED
  BY <1>1, <1>2, <1>3, FaithfulInvariant, PTL DEF Spec

\* consume() locks the token's row, then its family's, and so does the purge:
\* waits for rows come full circle among logout-alls, whose loops have no
\* order, and the purge's DELETE of several families, and nowhere else.
THEOREM OnlyLogoutAllsWaitInACircle == Spec => []OnlyLogoutAllDeadlocks
<1>1. Init => InOrder
  <2>1. ASSUME Init PROVE \A r \in Requests : OrderOf(r)
    BY <2>1 DEF Init, OrderOf
  <2>2. ASSUME Init PROVE OneHolder /\ PurgeOrder
    BY <2>2 DEF Init, OneHolder, PurgeOrder, HoldsFamily
  <2> QED
    BY <2>1, <2>2 DEF InOrder
<1>2. Secure /\ Faithful /\ InOrder /\ [Next]_vars => InOrder'
  BY InOrderNext
<1>3. Secure /\ InOrder => OnlyLogoutAllDeadlocks
  BY CyclesAreLogoutAlls
<1> QED
  BY <1>1, <1>2, <1>3, FaithfulInvariant, PTL DEF Spec

-----------------------------------------------------------------------------
(* SessionRotation implements SessionLedger, for every number of workers,   *)
(* sessions, tokens and users: each statement changes nothing a ledger      *)
(* shows, or is one of its atomic steps.  A request ends sessions of one    *)
(* user only.                                                               *)

OwnersOf(r) ==
    pc[r] # "idle" => \A f \in Ending(r) : Owner[f] = Owner[Session(r)]

Owners == \A r \in Requests : OwnersOf(r)

LEMMA OwnersInit == Init => Owners
<1> SUFFICES ASSUME Init PROVE Owners
  OBVIOUS
<1>1. ASSUME NEW r \in Requests PROVE OwnersOf(r)
  BY DEF Init, OwnersOf
<1> QED
  BY Zenon, <1>1 DEF Owners

\* What a step of its own may add to what a request ends.
OwnEndings(r) == {Session(r)} \cup LiveFamilies(Owner[Session(r)])

LEMMA StartRevokingOwners ==
    ASSUME Types, NEW r \in Requests, NEW fs \in SUBSET OwnEndings(r), NEW w,
           StartRevoking(r, fs, w), staged'[r] = staged[r],
           todo[r] = {} /\ cur[r] = None
    PROVE  Ending(r)' \subseteq Ending(r) \cup OwnEndings(r)
BY DEF StartRevoking, Types, Ending

LEMMA EndingSteps ==
    ASSUME Secure, NEW r \in Requests, Claim(r) \/ Commit(r) \/ Quiet(r)
    PROVE  \/ pc'[r] = "idle"
           \/ Ending(r)' \subseteq Ending(r) \cup OwnEndings(r)
<1> Types /\ ShapeOf(r)
  BY DEF Secure, Shape
<1> USE DEF Types, dbVars, txVars, reqVars
<1>1. CASE Claim(r) \/ Classify(r) \/ MatchClaim(r) \/ ResolveClaimConflict(r)
           \/ Issue(r) \/ GracePut(r)
  BY <1>1 DEF Claim, Classify, MatchClaim, ResolveClaimConflict, Issue, GracePut,
     Ending
<1>2. CASE Commit(r)
  BY <1>2 DEF Commit, EndTx, Ending
<1>3. CASE Fail(r) \/ DeadlockVictim(r) \/ Reply(r)
  BY <1>3 DEF Fail, DeadlockVictim, Reply, Abort, Release
<1>4. CASE Revoke(r)
  <2>1. cur[r] \in Families /\ None \notin Families
    BY <1>4, NoneAssumption DEF Revoke, ShapeOf
  <2>2. staged'[r] \subseteq staged[r] \cup {cur[r]}
    BY <1>4 DEF Revoke
  <2>3. todo'[r] \cup ({cur'[r]} \ {None}) \subseteq todo[r]
    BY <1>4 DEF Revoke
  <2> QED
    BY <2>1, <2>2, <2>3 DEF Ending
<1>5. CASE LoadUser(r) \/ Touch(r) \/ HandleReplay(r) \/ SelectFamilies(r)
  <2>1. staged'[r] = staged[r] /\ todo[r] = {} /\ cur[r] = None
    BY <1>5 DEF LoadUser, Touch, HandleReplay, SelectFamilies, ShapeOf
  <2>2. \/ todo' = todo /\ cur' = cur
        \/ \E fs \in SUBSET OwnEndings(r), w \in Reasons : StartRevoking(r, fs, w)
    <3>1. {Session(r)} \in SUBSET OwnEndings(r)
          /\ LiveFamilies(Owner[Session(r)]) \in SUBSET OwnEndings(r)
      BY DEF OwnEndings
    <3> QED
      BY <1>5, <3>1 DEF LoadUser, Touch, HandleReplay, SelectFamilies, Reasons
  <2> QED
    BY <2>1, <2>2, StartRevokingOwners DEF Ending
<1> QED
  BY <1>1, <1>2, <1>3, <1>4, <1>5 DEF Quiet

LEMMA OwnersNext == Secure /\ Rows /\ Owners /\ [Next]_vars => Owners'
<1> SUFFICES ASSUME Secure, Rows, Owners, [Next]_vars PROVE Owners'
  OBVIOUS
<1> Types /\ Shape
  BY DEF Secure, Shape
<1>1. CASE UNCHANGED vars
  BY <1>1 DEF Owners, OwnersOf, Ending, Session, vars, dbVars, txVars, reqVars
<1>2. ASSUME Next, NEW s \in Requests, pc[s] # "idle", arg'[s] = arg[s]
      PROVE  Session(s)' = Session(s)
  BY <1>2, Permanent, Hands DEF Session, Rows, HandOf
<1>3. ASSUME Next, NEW s \in Requests, Still(s) PROVE OwnersOf(s)'
  BY <1>2, <1>3 DEF Owners, OwnersOf, Ending, Still, Untouched
<1>4. ASSUME Next, NEW r \in Requests, Busy(r) PROVE Owners'
  <2>1. ASSUME NEW s \in Requests \ {r} PROVE OwnersOf(s)'
    BY <1>3, <1>4, OthersStill
  <2>2. OwnersOf(r)'
    <3>1. CASE \E o \in Operations, t \in Tokens : Arrive(r, o, t)
      <4>1. Ending(r)' = {}
        BY <3>1 DEF Arrive, txVars, Ending, Shape, ShapeOf, Lockless
      <4> QED
        BY <4>1 DEF OwnersOf
    <3>2. CASE pc'[r] = "idle"
      BY <3>2 DEF OwnersOf
    <3>3. CASE (Claim(r) \/ Commit(r) \/ Quiet(r)) /\ pc'[r] # "idle"
      <4>1. pc[r] # "idle" /\ arg'[r] = arg[r]
        <5>1. CASE Quiet(r)
          BY <3>3, <5>1, QuietRows DEF QuietFacts, Shape
        <5> QED
          BY <3>3, <5>1 DEF Claim, Commit, reqVars
      <4>2. Session(r)' = Session(r)
        BY <1>2, <1>4, <4>1
      <4>3. \A f \in OwnEndings(r) : Owner[f] = Owner[Session(r)]
        BY DEF OwnEndings, LiveFamilies
      <4> QED
        BY <3>3, <4>1, <4>2, <4>3, EndingSteps DEF Owners, OwnersOf
    <3> QED
      BY <1>4, <3>1, <3>2, <3>3 DEF Busy
  <2> QED
    BY <2>1, <2>2 DEF Owners
<1>5. ASSUME Next,
             \/ \E f \in Families, t \in Tokens : OpenSession(f, t)
             \/ Purging \/ PurgeCommit
             \/ \E f \in Families : Expire(f)
             \/ \E u \in Users : SetActive(u)
             \/ \E t \in Tokens : GraceExpire(t)
      PROVE  Owners'
  <2>1. ASSUME NEW s \in Requests PROVE Still(s)
    BY <1>5, PurgeStill DEF Still, Untouched, OpenSession, Expire, SetActive,
       GraceExpire, txVars, reqVars
  <2>2. ASSUME NEW s \in Requests PROVE OwnersOf(s)'
    BY <1>3, <1>5, <2>1
  <2> QED
    BY Zenon, <2>2 DEF Owners
<1> QED
  BY <1>1, <1>4, <1>5, Steps

-----------------------------------------------------------------------------
(* The simulation.                                                         *)

Unseen == UNCHANGED <<fam, reason, tok, sid>>

\* The row a rotation or sign-out spends, and what it leaves of the others.
LEMMA CommitTokens ==
    ASSUME Secure, Rows, ClaimRechecked, NEW r \in Requests, Commit(r)
    PROVE  /\ fam' = fam
           /\ "claim" \notin wrote[r] => tok' = tok /\ sid' = sid
           /\ "claim" \in wrote[r] => arg[r] \in Tokens /\ tok[arg[r]] = "unspent"
           /\ "claim" \in wrote[r] /\ "issue" \notin wrote[r] =>
                 tok' = [tok EXCEPT ![arg[r]] = "spent"] /\ sid' = sid
           /\ "issue" \in wrote[r] =>
                 /\ "claim" \in wrote[r]
                 /\ staged[r] = {}
                 /\ pair[r] \in Tokens /\ tok[pair[r]] = "absent"
                 /\ tok' = [tok EXCEPT ![arg[r]] = "spent", ![pair[r]] = "unspent"]
                 /\ sid' = [sid EXCEPT ![pair[r]] = sid[arg[r]]]
<1>1. Types /\ ShapeOf(r) /\ HandOf(r) /\ pc[r] = "commit"
  BY DEF Secure, Shape, Rows, Commit
<1>2. "issue" \in wrote[r] => /\ op[r] = "refresh" /\ staged[r] = {}
                              /\ "claim" \in wrote[r]
  BY <1>1 DEF ShapeOf
<1>3. "claim" \in wrote[r] => arg[r] \in Tokens /\ tok[arg[r]] = "unspent"
  BY <1>1 DEF ShapeOf, HandOf
<1>4. "issue" \in wrote[r] => pair[r] \in Tokens /\ tok[pair[r]] = "absent"
  BY <1>1, <1>2 DEF ShapeOf, HandOf, Signing
<1>5. /\ fam' = fam /\ tok' = TokensAfter(r)
      /\ sid' = IF "issue" \in wrote[r]
                   THEN [sid EXCEPT ![pair[r]] = sid[arg[r]]] ELSE sid
  BY DEF Commit, Session
<1>6. "claim" \notin wrote[r] => tok' = tok
  BY <1>1, <1>2, <1>5 DEF TokensAfter, Types
<1>7. "claim" \in wrote[r] /\ "issue" \notin wrote[r]
         => tok' = [tok EXCEPT ![arg[r]] = "spent"]
  BY <1>1, <1>3, <1>5 DEF TokensAfter, Types
<1>8. "issue" \in wrote[r]
         => tok' = [tok EXCEPT ![arg[r]] = "spent", ![pair[r]] = "unspent"]
  BY <1>1, <1>2, <1>3, <1>4, <1>5 DEF TokensAfter, Types
<1> QED
  BY <1>2, <1>3, <1>4, <1>5, <1>6, <1>7, <1>8

\* A commit rotates a token, spends it and ends its session, ends sessions, or
\* shows nothing.
LEMMA CommitStep ==
    ASSUME Secure, Rows, Ends, Owners, ClaimRechecked,
           NEW r \in Requests, Commit(r)
    PROVE  Ledger!Next \/ Unseen
<1>1. Types /\ ShapeOf(r) /\ OwnersOf(r) /\ EndingOf(r) /\ pc[r] = "commit"
  BY DEF Secure, Shape, Owners, Ends, EndsOf, Commit
<1>2. /\ staged[r] \in SUBSET Families
      /\ staged[r] # {} => why[r] \in Reasons
      /\ \A f \in staged[r] : reason[f] = None
      /\ reason' = [f \in Families |-> IF f \in staged[r] THEN why[r] ELSE reason[f]]
      /\ reason \in [Families -> Reasons \cup {None}]
  BY <1>1 DEF Commit, ReasonsAfter, Secure, Locks, Revocable, ShapeOf, Types
<1>3. Session(r) = sid[arg[r]] /\ Session(r) \in Families /\ Ending(r) = staged[r]
  BY <1>1 DEF Session, ShapeOf, Ending
<1>4. \A f \in staged[r] : Owner[f] = Owner[Session(r)]
  BY <1>1, <1>3 DEF OwnersOf
<1>5. CASE "issue" \in wrote[r]
  <2>1. reason' = reason
    BY <1>2, <1>5, CommitTokens
  <2>2. Ledger!Rotate(arg[r], pair[r])
    BY <1>5, <2>1, CommitTokens DEF Ledger!Rotate
  <2> QED
    BY <1>5, <2>2, CommitTokens DEF Ledger!Next
<1>6. CASE "claim" \in wrote[r] /\ "issue" \notin wrote[r]
  <2> DEFINE fs == staged[r] \cup {Session(r)}
  <2>1. Session(r) \in staged[r] \/ reason[Session(r)] # None
    <3>1. fam[Session(r)] # "purged"
      BY <1>3, <1>6, CommitTokens DEF Rows, RowsOf
    <3> QED
      BY <1>1, <1>3, <1>6, <3>1 DEF EndingOf, Dead
  <2>2. PICK w \in Reasons : staged[r] # {} => w = why[r]
    BY <1>2 DEF Reasons
  <2>3. reason' = [f \in Families |-> IF f \in fs /\ reason[f] = None THEN w
                                                              ELSE reason[f]]
    BY <1>2, <2>1, <2>2
  <2>4. /\ sid[arg[r]] \in fs /\ fs \in SUBSET Families
        /\ \A f \in fs : Owner[f] = Owner[sid[arg[r]]]
    BY <1>2, <1>3, <1>4
  <2> HIDE DEF fs
  <2>5. Ledger!SignOut(arg[r], fs, w)
    BY <1>6, <2>3, <2>4, CommitTokens DEF Ledger!SignOut, Ledger!EndSessions
  <2> QED
    BY <1>6, <2>4, <2>5, CommitTokens DEF Ledger!Next
<1>7. CASE "claim" \notin wrote[r] /\ staged[r] # {}
  <2>1. reason' = [f \in Families |-> IF f \in staged[r] /\ reason[f] = None
                                         THEN why[r] ELSE reason[f]]
    BY <1>2
  <2>2. Ledger!Revoke(staged[r], why[r])
    BY <1>4, <1>5, <1>7, <2>1, CommitTokens DEF Ledger!Revoke, Ledger!EndSessions
  <2> QED
    BY <1>2, <1>7, <2>2 DEF Ledger!Next
<1>8. CASE "claim" \notin wrote[r] /\ "issue" \notin wrote[r] /\ staged[r] = {}
  BY <1>2, <1>8, CommitTokens DEF Unseen
<1> QED
  BY <1>5, <1>6, <1>7, <1>8

\* A conditional UPDATE in autocommit ends one session.
LEMMA RevokeStep ==
    ASSUME Secure, NEW r \in Requests, Revoke(r)
    PROVE  Ledger!Next \/ Unseen
<1>1. /\ cur[r] \in Families /\ why[r] \in Reasons
      /\ reason \in [Families -> Reasons \cup {None}]
  BY DEF Secure, Shape, ShapeOf, Types, Revoke
<1>2. CASE reason' = reason
  BY <1>2 DEF Revoke, Unseen
<1>3. CASE reason' # reason
  <2>1. /\ reason[cur[r]] = None
        /\ reason' = [reason EXCEPT ![cur[r]] = why[r]]
        /\ UNCHANGED <<fam, tok, sid>>
    BY <1>3 DEF Revoke, Revocable
  <2>2. Ledger!Revoke({cur[r]}, why[r])
    BY <1>1, <2>1 DEF Ledger!Revoke, Ledger!EndSessions
  <2> QED
    BY <1>1, <2>2 DEF Ledger!Next
<1> QED
  BY <1>2, <1>3

LEMMA LedgerNext ==
    ASSUME Secure, Rows, Ends, Owners, ClaimRechecked, [Next]_vars
    PROVE  Ledger!Next \/ Unseen
<1>1. ASSUME NEW f \in Families, NEW t \in Tokens, OpenSession(f, t)
      PROVE  Ledger!Next
  BY <1>1 DEF OpenSession, Fresh, Ledger!Next, Ledger!Open
<1>2. ASSUME PurgeCommit, ~Unseen PROVE Ledger!Next
  <2> DEFINE old == cut \cap Families
  <2>1. old \in SUBSET Families /\ \A f \in old : fam[f] = "stored"
    BY DEF Secure, Locks
  <2>2. /\ fam' = [f \in Families |-> IF f \in cut THEN "purged" ELSE fam[f]]
        /\ tok' = [t \in Tokens |-> IF sid[t] \in cut THEN "purged" ELSE tok[t]]
        /\ UNCHANGED <<reason, sid>>
    BY <1>2 DEF PurgeCommit, Unseen
  <2>3. /\ \A f \in Families : f \in cut <=> f \in old
        /\ \A t \in Tokens : sid[t] \in cut <=> sid[t] \in old
    BY NoneAssumption DEF Secure, Shape, Types
  <2> HIDE DEF old
  <2>4. Ledger!Forget(old)
    BY <2>1, <2>2, <2>3 DEF Ledger!Forget
  <2> QED
    BY <2>1, <2>4 DEF Ledger!Next
<1>3. ASSUME NEW r \in Requests, Busy(r), ~Commit(r), ~Revoke(r) PROVE Unseen
  BY <1>3 DEF Busy, Quiet, Unseen, Arrive, Claim, Fail, DeadlockVictim, Abort, Reply,
     LoadUser, Classify, MatchClaim, Touch, ResolveClaimConflict, Issue,
     HandleReplay, SelectFamilies, GracePut, dbVars
<1>4. CASE \/ UNCHANGED vars
           \/ \E f \in Families : Expire(f)
           \/ \E u \in Users : SetActive(u)
           \/ \E t \in Tokens : GraceExpire(t)
           \/ Purging
  BY <1>4 DEF Unseen, vars, dbVars, Expire, SetActive, GraceExpire, Purging,
     PurgeSelect, PurgeTokens, PurgeRow, PurgeFail
<1> QED
  BY <1>1, <1>2, <1>3, <1>4, CommitStep, RevokeStep, Steps

\* On a database that evaluates the claim's WHERE clause again on the row it
\* has waited for, statements, locks, failures and the purge together do
\* nothing that the port in sessions/stores/base.py does not promise.
THEOREM StoreKeepsItsPromise == ASSUME ClaimRechecked PROVE Spec => ImplementsLedger
<1>1. Init => Ledger!Init
  BY DEF Init, Ledger!Init
<1>2. Secure /\ Faithful /\ Owners /\ [Next]_vars => [Ledger!Next]_(Ledger!ledger)
  BY LedgerNext DEF Faithful, Unseen, Ledger!ledger
<1>3. Init => Owners
  BY OwnersInit
<1>4. Secure /\ Faithful /\ Owners /\ [Next]_vars => Owners'
  BY OwnersNext DEF Faithful
<1> QED
  BY <1>1, <1>2, <1>3, <1>4, FaithfulInvariant, PTL
     DEF Spec, ImplementsLedger, Ledger!Spec

=============================================================================
