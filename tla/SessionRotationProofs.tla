----------------------- MODULE SessionRotationProofs -----------------------
(* Theorems about SessionRotation, for every set of workers, sessions and   *)
(* tokens and every setting.                                               *)
EXTENDS SessionRotation, TLAPS

-----------------------------------------------------------------------------
(* Where a worker is tells what it has written and what it is about to do. *)

\* Places where a worker holds no lock.
Lockless ==
    {"idle", "user", "classify", "match", "claim", "resolve", "replay", "done"}

ShapeOf(r) ==
    /\ pc[r] # "idle" =>
          op[r] \in Operations /\ arg[r] \in Tokens /\ sid[arg[r]] \in Families
    /\ pc[r] # "idle" /\ op[r] = "refresh" => pair[r] \in Tokens
    /\ pc[r] # "revoke" => todo[r] = {} /\ cur[r] = None
    /\ pc[r] \in Lockless => wrote[r] = {} /\ staged[r] = {}
    /\ pc[r] = "user" => op[r] = "refresh"
    /\ pc[r] = "touch" =>
          "claim" \in wrote[r] /\ "issue" \notin wrote[r] /\ staged[r] = {}
    /\ pc[r] = "issue" =>
          /\ op[r] = "refresh"
          /\ "claim" \in wrote[r] /\ "issue" \notin wrote[r] /\ staged[r] = {}
    /\ pc[r] = "select" =>
          /\ op[r] = "logout_all"
          /\ wrote[r] = {} \/ "claim" \in wrote[r]
          /\ "issue" \notin wrote[r] /\ staged[r] = {}
    /\ pc[r] = "revoke" =>
          /\ cur[r] \in Families
          /\ why[r] \in Reasons
          /\ wrote[r] = {} \/ "claim" \in wrote[r]
          /\ "issue" \notin wrote[r]
          /\ AtomicRequests \/ wrote[r] # {} \/ staged[r] = {}
    /\ pc[r] = "commit" =>
          /\ why[r] \in Reasons \/ staged[r] = {}
          /\ wrote[r] = {} \/ "claim" \in wrote[r]
          /\ "issue" \in wrote[r] =>
                op[r] = "refresh" /\ staged[r] = {}
    /\ pc[r] = "put" =>
          /\ op[r] = "refresh" /\ staged[r] = {}
          /\ IF AtomicRequests THEN {"claim", "issue"} \subseteq wrote[r]
             ELSE wrote[r] = {}

\* The request of r, as far as ShapeOf(r) goes, is as it was.
Untouched(r) ==
    /\ pc'[r] = pc[r] /\ op'[r] = op[r] /\ arg'[r] = arg[r] /\ pair'[r] = pair[r]
    /\ why'[r] = why[r] /\ todo'[r] = todo[r] /\ cur'[r] = cur[r]
    /\ wrote'[r] = wrote[r] /\ staged'[r] = staged[r]

\* A stored token names its family.
TokensNamed == \A t \in Tokens : tok[t] # "absent" => sid[t] \in Families

Shape == Types /\ TokensNamed /\ \A r \in Requests : ShapeOf(r)

\* Turning to the families of fs is well typed.
LEMMA StartRevokingTypes ==
    ASSUME Types, NEW r \in Requests, NEW fs \in SUBSET Families,
           NEW w \in Reasons, StartRevoking(r, fs, w)
    PROVE  /\ why' = [why EXCEPT ![r] = w]
           /\ todo' \in [Requests -> SUBSET Families]
           /\ cur' \in [Requests -> Families \cup {None}]
           /\ pc' \in [Requests -> PCs]
           /\ \/ /\ pc'[r] = "commit" /\ todo'[r] = todo[r] /\ cur'[r] = cur[r]
                 /\ fs = {}
              \/ /\ pc'[r] = "revoke" /\ cur'[r] \in fs
                 /\ todo'[r] = fs \ {cur'[r]}
           /\ \A s \in Requests \ {r} :
                 pc'[s] = pc[s] /\ todo'[s] = todo[s] /\ cur'[s] = cur[s]
<1>1. CASE fs = {} /\ pc' = [pc EXCEPT ![r] = "commit"] /\ UNCHANGED <<todo, cur>>
  BY <1>1 DEF Types, PCs, StartRevoking
<1>2. ASSUME NEW f \in fs,
             pc' = [pc EXCEPT ![r] = "revoke"],
             todo' = [todo EXCEPT ![r] = fs \ {f}],
             cur' = [cur EXCEPT ![r] = f]
      PROVE  /\ todo' \in [Requests -> SUBSET Families]
             /\ cur' \in [Requests -> Families \cup {None}]
             /\ pc' \in [Requests -> PCs]
             /\ pc'[r] = "revoke" /\ cur'[r] \in fs /\ todo'[r] = fs \ {cur'[r]}
             /\ \A s \in Requests \ {r} :
                   pc'[s] = pc[s] /\ todo'[s] = todo[s] /\ cur'[s] = cur[s]
  BY <1>2 DEF Types, PCs
<1> QED
  BY <1>1, <1>2 DEF StartRevoking

\* The same for the session of the request itself.
LEMMA RevokeOwn ==
    ASSUME Types, NEW r \in Requests, ShapeOf(r), pc[r] # "idle",
           NEW w \in Reasons, StartRevoking(r, {Session(r)}, w)
    PROVE  /\ why' \in [Requests -> Reasons \cup {None}]
           /\ todo' \in [Requests -> SUBSET Families]
           /\ cur' \in [Requests -> Families \cup {None}]
           /\ pc' \in [Requests -> PCs]
           /\ pc'[r] = "revoke" /\ why'[r] = w
           /\ cur'[r] = Session(r) /\ todo'[r] = {}
           /\ \A s \in Requests \ {r} :
                 /\ pc'[s] = pc[s] /\ why'[s] = why[s]
                 /\ todo'[s] = todo[s] /\ cur'[s] = cur[s]
<1>1. {Session(r)} \in SUBSET Families
  BY DEF ShapeOf, Session
<1>2. why' = [why EXCEPT ![r] = w]
  BY <1>1, StartRevokingTypes
<1>3. why' \in [Requests -> Reasons \cup {None}] /\ why'[r] = w
      /\ \A s \in Requests \ {r} : why'[s] = why[s]
  BY <1>2 DEF Types
<1> QED
  BY <1>1, <1>3, StartRevokingTypes

LEMMA ShapeFrame ==
    ASSUME NEW r \in Requests, Types, ShapeOf(r), Untouched(r),
           \A t \in Tokens : sid[t] \in Families => sid'[t] \in Families
    PROVE  ShapeOf(r)'
BY DEF ShapeOf, Untouched

LEMMA ShapeInit == Init => Shape
BY DEF Init, Shape, Types, TokensNamed, ShapeOf, Lockless, Operations, Reasons,
       PCs, Writes, Answers

\* The steps of the purge before its commit: they change no row that is
\* committed.
Purging ==
    PurgeSelect \/ PurgeTokens \/ PurgeFail
    \/ \E x \in Tokens \cup Families : PurgeRow(x)

LEMMA PurgeTypes ==
    ASSUME Types, TokensNamed, Purging \/ PurgeCommit
    PROVE  Types' /\ TokensNamed'
<1> USE DEF Types, TokensNamed, dbVars, txVars, reqVars
<1>1. CASE PurgeSelect
  BY <1>1 DEF PurgeSelect
<1>2. CASE PurgeTokens
  <2>1. doomed' \in SUBSET (Tokens \cup Families)
    BY <1>2 DEF PurgeTokens, TokensOf
  <2> QED
    BY <1>2, <2>1 DEF PurgeTokens
<1>3. CASE PurgeFail
  BY <1>3 DEF PurgeFail
<1>4. ASSUME NEW x \in Tokens \cup Families, PurgeRow(x) PROVE Types' /\ TokensNamed'
  BY <1>4 DEF PurgeRow
<1>5. CASE PurgeCommit
  <2>1. \A t \in Tokens : sid[t] \in cut => sid[t] \in Families
    BY NoneAssumption
  <2>2. fam' \in [Families -> {"absent", "stored", "purged"}]
        /\ tok' \in [Tokens -> {"absent", "unspent", "spent", "purged"}]
        /\ cut' = {} /\ doomed' = {}
    BY <1>5 DEF PurgeCommit
  <2>3. TokensNamed'
    BY <1>5, <2>1 DEF PurgeCommit
  <2> QED
    BY <1>5, <2>2, <2>3 DEF PurgeCommit
<1> QED
  BY <1>1, <1>2, <1>3, <1>4, <1>5 DEF Purging

LEMMA ShapeNext == Shape /\ [Next]_vars => Shape'
<1> SUFFICES ASSUME Shape, [Next]_vars PROVE Shape'
  OBVIOUS
<1> Types /\ TokensNamed /\ (\A s \in Requests : ShapeOf(s))
  BY DEF Shape
<1> USE NoneAssumption, FlagAssumption
    DEF Types, TokensNamed, dbVars, txVars, reqVars, purgeVars
<1>1. ASSUME NEW f \in Families, NEW t \in Tokens, OpenSession(f, t)
      PROVE  Shape'
  <2> USE <1>1 DEF OpenSession
  <2>1. Types' /\ TokensNamed'
    OBVIOUS
  <2>2. ASSUME NEW s \in Requests PROVE ShapeOf(s)'
    BY ShapeFrame DEF Untouched
  <2> QED
    BY <2>1, <2>2 DEF Shape
<1>2. ASSUME NEW f \in Families, Expire(f) PROVE Shape'
  <2> USE <1>2 DEF Expire
  <2>1. Types' /\ TokensNamed'
    OBVIOUS
  <2>2. ASSUME NEW s \in Requests PROVE ShapeOf(s)'
    BY ShapeFrame DEF Untouched
  <2> QED
    BY <2>1, <2>2 DEF Shape
<1>3. CASE Purging \/ PurgeCommit
  <2>1. Types' /\ TokensNamed'
    BY <1>3, PurgeTypes
  <2>2. UNCHANGED <<sid, pc, txVars, reqVars>>
    BY <1>3 DEF Purging, PurgeSelect, PurgeTokens, PurgeRow, PurgeFail, PurgeCommit
  <2>3. ASSUME NEW s \in Requests PROVE ShapeOf(s)'
    BY <2>2, ShapeFrame DEF Untouched
  <2> QED
    BY <2>1, <2>3 DEF Shape
<1>4. ASSUME NEW u \in Users, SetActive(u) PROVE Shape'
  <2> USE <1>4 DEF SetActive
  <2>1. Types' /\ TokensNamed'
    OBVIOUS
  <2>2. ASSUME NEW s \in Requests PROVE ShapeOf(s)'
    BY ShapeFrame DEF Untouched
  <2> QED
    BY <2>1, <2>2 DEF Shape
<1>5. ASSUME NEW t \in Tokens, GraceExpire(t) PROVE Shape'
  <2> USE <1>5 DEF GraceExpire
  <2>1. Types' /\ TokensNamed'
    OBVIOUS
  <2>2. ASSUME NEW s \in Requests PROVE ShapeOf(s)'
    BY ShapeFrame DEF Untouched
  <2> QED
    BY <2>1, <2>2 DEF Shape
<1> USE DEF PCs, Reasons, Operations, Writes, Answers, Lockless
<1>6. ASSUME NEW r \in Requests, NEW o \in Operations, NEW t \in Tokens,
             Arrive(r, o, t)
      PROVE  Shape'
  <2> USE <1>6 DEF Arrive, LiveFamilies
  <2>1. ShapeOf(r)
    OBVIOUS
  <2>2. Types' /\ TokensNamed'
    BY <2>1 DEF ShapeOf
  <2>3. ShapeOf(r)'
    BY <2>1 DEF ShapeOf
  <2>4. ASSUME NEW s \in Requests \ {r} PROVE ShapeOf(s)'
    <3>1. Untouched(s)
      BY <2>1 DEF Untouched, ShapeOf
    <3> QED
      BY <2>1, <3>1, ShapeFrame DEF ShapeOf
  <2> QED
    BY <2>2, <2>3, <2>4 DEF Shape
<1>7. ASSUME NEW r \in Requests, Fail(r) PROVE Shape'
  <2> USE <1>7 DEF Fail, Abort, EndTx, Release
  <2>1. ShapeOf(r)
    OBVIOUS
  <2>2. Types' /\ TokensNamed'
    BY <2>1 DEF ShapeOf
  <2>3. ShapeOf(r)'
    BY <2>1 DEF ShapeOf
  <2>4. ASSUME NEW s \in Requests \ {r} PROVE ShapeOf(s)'
    <3>1. Untouched(s)
      BY <2>1 DEF Untouched, ShapeOf
    <3> QED
      BY <2>1, <3>1, ShapeFrame DEF ShapeOf
  <2> QED
    BY <2>2, <2>3, <2>4 DEF Shape
<1>8. ASSUME NEW r \in Requests, DeadlockVictim(r) PROVE Shape'
  <2> USE <1>8 DEF DeadlockVictim, Abort, EndTx, Release
  <2>1. ShapeOf(r)
    OBVIOUS
  <2>2. Types' /\ TokensNamed'
    BY <2>1 DEF ShapeOf
  <2>3. ShapeOf(r)'
    BY <2>1 DEF ShapeOf
  <2>4. ASSUME NEW s \in Requests \ {r} PROVE ShapeOf(s)'
    <3>1. Untouched(s)
      BY <2>1 DEF Untouched, ShapeOf
    <3> QED
      BY <2>1, <3>1, ShapeFrame DEF ShapeOf
  <2> QED
    BY <2>2, <2>3, <2>4 DEF Shape
<1>9. ASSUME NEW r \in Requests, Reply(r) PROVE Shape'
  <2> USE <1>9 DEF Reply, Release
  <2>1. ShapeOf(r)
    OBVIOUS
  <2>2. Types' /\ TokensNamed'
    BY <2>1 DEF ShapeOf
  <2>3. ShapeOf(r)'
    BY <2>1 DEF ShapeOf
  <2>4. ASSUME NEW s \in Requests \ {r} PROVE ShapeOf(s)'
    <3>1. Untouched(s)
      BY <2>1 DEF Untouched, ShapeOf
    <3> QED
      BY <2>1, <3>1, ShapeFrame DEF ShapeOf
  <2> QED
    BY <2>2, <2>3, <2>4 DEF Shape
<1>10. ASSUME NEW r \in Requests, LoadUser(r) PROVE Shape'
  <2> USE <1>10 DEF LoadUser, Session
  <2>1. ShapeOf(r)
    OBVIOUS
  <2>0. ASSUME NEW w \in Reasons, StartRevoking(r, {Session(r)}, w)
        PROVE  /\ why' \in [Requests -> Reasons \cup {None}]
               /\ todo' \in [Requests -> SUBSET Families]
               /\ cur' \in [Requests -> Families \cup {None}]
               /\ pc' \in [Requests -> PCs]
               /\ pc'[r] = "revoke" /\ why'[r] = w
               /\ cur'[r] = Session(r) /\ todo'[r] = {}
               /\ \A s \in Requests \ {r} :
                     /\ pc'[s] = pc[s] /\ why'[s] = why[s]
                     /\ todo'[s] = todo[s] /\ cur'[s] = cur[s]
    <3> HIDE DEF Types, PCs, Reasons, Session
    <3> QED
      BY <2>0, <2>1, RevokeOwn
  <2>2. Types' /\ TokensNamed'
    <3>1. /\ todo' \in [Requests -> SUBSET Families]
          /\ cur' \in [Requests -> Families \cup {None}]
          /\ pc' \in [Requests -> PCs]
          /\ why' \in [Requests -> Reasons \cup {None}]
          /\ ans' \in [Requests -> Answers]
      BY <2>0
    <3> QED
      BY <3>1
  <2>3. ShapeOf(r)'
    BY <2>1, <2>0 DEF ShapeOf
  <2>4. ASSUME NEW s \in Requests \ {r} PROVE ShapeOf(s)'
    <3>1. Untouched(s)
      BY <2>1, <2>0 DEF Untouched, ShapeOf
    <3> QED
      BY <2>1, <3>1, ShapeFrame DEF ShapeOf
  <2> QED
    BY <2>2, <2>3, <2>4 DEF Shape
<1>11. ASSUME NEW r \in Requests, Classify(r) PROVE Shape'
  <2> USE <1>11 DEF Classify, Finish
  <2>1. ShapeOf(r)
    OBVIOUS
  <2>2. Types' /\ TokensNamed'
    BY SMTT(30)
  <2>3. ShapeOf(r)'
    BY <2>1 DEF ShapeOf
  <2>4. ASSUME NEW s \in Requests \ {r} PROVE ShapeOf(s)'
    <3>1. Untouched(s)
      BY <2>1 DEF Untouched, ShapeOf
    <3> QED
      BY <2>1, <3>1, ShapeFrame DEF ShapeOf
  <2> QED
    BY <2>2, <2>3, <2>4 DEF Shape
<1>12. ASSUME NEW r \in Requests, MatchClaim(r) PROVE Shape'
  <2> USE <1>12 DEF MatchClaim
  <2>1. ShapeOf(r)
    OBVIOUS
  <2>2. Types' /\ TokensNamed'
    BY <2>1 DEF ShapeOf
  <2>3. ShapeOf(r)'
    BY <2>1 DEF ShapeOf
  <2>4. ASSUME NEW s \in Requests \ {r} PROVE ShapeOf(s)'
    <3>1. Untouched(s)
      BY <2>1 DEF Untouched, ShapeOf
    <3> QED
      BY <2>1, <3>1, ShapeFrame DEF ShapeOf
  <2> QED
    BY <2>2, <2>3, <2>4 DEF Shape
<1>13. ASSUME NEW r \in Requests, Claim(r) PROVE Shape'
  <2> USE <1>13 DEF Claim
  <2>1. ShapeOf(r)
    OBVIOUS
  <2>2. Types' /\ TokensNamed'
    <3>1. seen' \in [Requests -> SUBSET Families]
      BY DEF StillLive
    <3>2. wrote' \in [Requests -> SUBSET Writes] /\ pc' \in [Requests -> PCs]
      OBVIOUS
    <3> QED
      BY <3>1, <3>2
  <2>3. ShapeOf(r)'
    BY <2>1 DEF ShapeOf
  <2>4. ASSUME NEW s \in Requests \ {r} PROVE ShapeOf(s)'
    <3>1. Untouched(s)
      BY <2>1 DEF Untouched, ShapeOf
    <3> QED
      BY <2>1, <3>1, ShapeFrame DEF ShapeOf
  <2> QED
    BY <2>2, <2>3, <2>4 DEF Shape
<1>14. ASSUME NEW r \in Requests, Touch(r) PROVE Shape'
  <2> USE <1>14 DEF Touch, Session
  <2>1. ShapeOf(r)
    OBVIOUS
  <2>0. ASSUME NEW w \in Reasons, StartRevoking(r, {Session(r)}, w)
        PROVE  /\ why' \in [Requests -> Reasons \cup {None}]
               /\ todo' \in [Requests -> SUBSET Families]
               /\ cur' \in [Requests -> Families \cup {None}]
               /\ pc' \in [Requests -> PCs]
               /\ pc'[r] = "revoke" /\ why'[r] = w
               /\ cur'[r] = Session(r) /\ todo'[r] = {}
               /\ \A s \in Requests \ {r} :
                     /\ pc'[s] = pc[s] /\ why'[s] = why[s]
                     /\ todo'[s] = todo[s] /\ cur'[s] = cur[s]
    <3> HIDE DEF Types, PCs, Reasons, Session
    <3> QED
      BY <2>0, <2>1, RevokeOwn
  <2>2. Types' /\ TokensNamed'
    BY <2>0, <2>1 DEF ShapeOf
  <2>3. ShapeOf(r)'
    BY <2>1, <2>0 DEF ShapeOf
  <2>4. ASSUME NEW s \in Requests \ {r} PROVE ShapeOf(s)'
    <3>1. Untouched(s)
      BY <2>1, <2>0 DEF Untouched, ShapeOf
    <3> QED
      BY <2>1, <3>1, ShapeFrame DEF ShapeOf
  <2> QED
    BY <2>2, <2>3, <2>4 DEF Shape
<1>15. ASSUME NEW r \in Requests, ResolveClaimConflict(r) PROVE Shape'
  <2> USE <1>15 DEF ResolveClaimConflict, Finish, StillLive
  <2>1. ShapeOf(r)
    OBVIOUS
  <2>2. Types' /\ TokensNamed'
    BY <2>1 DEF ShapeOf
  <2>3. ShapeOf(r)'
    BY <2>1 DEF ShapeOf
  <2>4. ASSUME NEW s \in Requests \ {r} PROVE ShapeOf(s)'
    <3>1. Untouched(s)
      BY <2>1 DEF Untouched, ShapeOf
    <3> QED
      BY <2>1, <3>1, ShapeFrame DEF ShapeOf
  <2> QED
    BY <2>2, <2>3, <2>4 DEF Shape
<1>16. ASSUME NEW r \in Requests, Issue(r) PROVE Shape'
  <2> USE <1>16 DEF Issue, PutBeforeCommit
  <2>1. ShapeOf(r)
    OBVIOUS
  <2>2. Types' /\ TokensNamed'
    BY <2>1 DEF ShapeOf
  <2>3. ShapeOf(r)'
    BY <2>1 DEF ShapeOf
  <2>4. ASSUME NEW s \in Requests \ {r} PROVE ShapeOf(s)'
    <3>1. Untouched(s)
      BY <2>1 DEF Untouched, ShapeOf
    <3> QED
      BY <2>1, <3>1, ShapeFrame DEF ShapeOf
  <2> QED
    BY <2>2, <2>3, <2>4 DEF Shape
<1>17. ASSUME NEW r \in Requests, HandleReplay(r) PROVE Shape'
  <2> USE <1>17 DEF HandleReplay, Finish, Session
  <2>1. ShapeOf(r)
    OBVIOUS
  <2>0. ASSUME NEW w \in Reasons, StartRevoking(r, {Session(r)}, w)
        PROVE  /\ why' \in [Requests -> Reasons \cup {None}]
               /\ todo' \in [Requests -> SUBSET Families]
               /\ cur' \in [Requests -> Families \cup {None}]
               /\ pc' \in [Requests -> PCs]
               /\ pc'[r] = "revoke" /\ why'[r] = w
               /\ cur'[r] = Session(r) /\ todo'[r] = {}
               /\ \A s \in Requests \ {r} :
                     /\ pc'[s] = pc[s] /\ why'[s] = why[s]
                     /\ todo'[s] = todo[s] /\ cur'[s] = cur[s]
    <3> HIDE DEF Types, PCs, Reasons, Session
    <3> QED
      BY <2>0, <2>1, RevokeOwn
  <2>2. Types' /\ TokensNamed'
    <3>1. pair' \in [Requests -> Tokens \cup {None}]
      BY <2>1 DEF ShapeOf
    <3>2. ans' \in [Requests -> Answers]
      OBVIOUS
    <3>3. /\ todo' \in [Requests -> SUBSET Families]
          /\ cur' \in [Requests -> Families \cup {None}]
          /\ pc' \in [Requests -> PCs]
          /\ why' \in [Requests -> Reasons \cup {None}]
      BY <2>0
    <3> QED
      BY <3>1, <3>2, <3>3
  <2>3. ShapeOf(r)'
    BY <2>1, <2>0 DEF ShapeOf
  <2>4. ASSUME NEW s \in Requests \ {r} PROVE ShapeOf(s)'
    <3>1. Untouched(s)
      BY <2>1, <2>0 DEF Untouched, ShapeOf
    <3> QED
      BY <2>1, <3>1, ShapeFrame DEF ShapeOf
  <2> QED
    BY <2>2, <2>3, <2>4 DEF Shape
<1>18. ASSUME NEW r \in Requests, SelectFamilies(r) PROVE Shape'
  <2> USE <1>18 DEF SelectFamilies, LiveFamilies
  <2>1. ShapeOf(r)
    OBVIOUS
  <2>2. Types' /\ TokensNamed'
    BY SMTT(30), <2>1, StartRevokingTypes DEF ShapeOf
  <2>3. ShapeOf(r)'
    BY <2>1, StartRevokingTypes DEF ShapeOf
  <2>4. ASSUME NEW s \in Requests \ {r} PROVE ShapeOf(s)'
    <3>1. Untouched(s)
      BY <2>1, StartRevokingTypes DEF Untouched, ShapeOf
    <3> QED
      BY <2>1, <3>1, ShapeFrame DEF ShapeOf
  <2> QED
    BY <2>2, <2>3, <2>4 DEF Shape
<1>19. ASSUME NEW r \in Requests, Revoke(r) PROVE Shape'
  <2> USE <1>19 DEF Revoke, InTx
  <2>1. ShapeOf(r)
    OBVIOUS
  <2>2. Types' /\ TokensNamed'
    <3>1. cur[r] \in Families /\ why[r] \in Reasons
      BY <2>1 DEF ShapeOf
    <3>2. reason' \in [Families -> Reasons \cup {None}]
      BY <3>1
    <3>3. staged' \in [Requests -> SUBSET Families]
      BY <3>1
    <3>4. /\ todo' \in [Requests -> SUBSET Families]
          /\ cur' \in [Requests -> Families \cup {None}]
          /\ pc' \in [Requests -> PCs]
      OBVIOUS
    <3> QED
      BY <3>2, <3>3, <3>4
  <2>3. ShapeOf(r)'
    BY <2>1 DEF ShapeOf
  <2>4. ASSUME NEW s \in Requests \ {r} PROVE ShapeOf(s)'
    <3>1. Untouched(s)
      BY <2>1 DEF Untouched, ShapeOf
    <3> QED
      BY <2>1, <3>1, ShapeFrame DEF ShapeOf
  <2> QED
    BY <2>2, <2>3, <2>4 DEF Shape
<1>20. ASSUME NEW r \in Requests, Commit(r) PROVE Shape'
  <2> USE <1>20 DEF Commit, EndTx, TokensAfter, ReasonsAfter, PutBeforeCommit, Session
  <2>1. ShapeOf(r)
    OBVIOUS
  <2>2. Types' /\ TokensNamed'
    BY <2>1 DEF ShapeOf
  <2>3. ShapeOf(r)'
    BY <2>1 DEF ShapeOf
  <2>4. ASSUME NEW s \in Requests \ {r} PROVE ShapeOf(s)'
    <3>1. Untouched(s)
      BY <2>1 DEF Untouched, ShapeOf
    <3> QED
      BY <2>1, <3>1, ShapeFrame DEF ShapeOf
  <2> QED
    BY <2>2, <2>3, <2>4 DEF Shape
<1>21. ASSUME NEW r \in Requests, GracePut(r) PROVE Shape'
  <2> USE <1>21 DEF GracePut, PutBeforeCommit
  <2>1. ShapeOf(r)
    OBVIOUS
  <2>2. Types' /\ TokensNamed'
    <3>1. grace' \in [Tokens -> Tokens \cup {None}]
      BY <2>1 DEF ShapeOf
    <3>2. pc' \in [Requests -> PCs]
      OBVIOUS
    <3> QED
      BY <3>1, <3>2
  <2>3. ShapeOf(r)'
    BY <2>1 DEF ShapeOf
  <2>4. ASSUME NEW s \in Requests \ {r} PROVE ShapeOf(s)'
    <3>1. Untouched(s)
      BY <2>1 DEF Untouched, ShapeOf
    <3> QED
      BY <2>1, <3>1, ShapeFrame DEF ShapeOf
  <2> QED
    BY <2>2, <2>3, <2>4 DEF Shape
<1>22. CASE UNCHANGED vars
  <2> USE <1>22 DEF vars
  <2>1. Types' /\ TokensNamed'
    OBVIOUS
  <2>2. ASSUME NEW s \in Requests PROVE ShapeOf(s)'
    BY ShapeFrame DEF Untouched
  <2> QED
    BY <2>1, <2>2 DEF Shape
<1> HIDE DEF Types, TokensNamed, dbVars, txVars, reqVars, purgeVars, PCs, Reasons,
             Operations, Writes, Answers, Lockless
<1> QED
  BY <1>1, <1>2, <1>3, <1>4, <1>5, <1>6, <1>7, <1>8, <1>9, <1>10, <1>11, <1>12, <1>13, <1>14, <1>15, <1>16, <1>17, <1>18, <1>19, <1>20, <1>21, <1>22
     DEF Next, Environment, Step, PurgeStep, PurgeRows, Purging
-----------------------------------------------------------------------------
(* The first reason wins: a revocation waiting to be committed holds the    *)
(* lock of a family nobody has revoked yet, and no purge has deleted.      *)

Locks ==
    /\ \A r \in Requests : \A f \in staged[r] : Revocable(f)
    /\ \A r, s \in Requests : r # s => staged[r] \cap staged[s] = {}
    /\ \A r \in Requests : staged[r] \cap cut = {}
    /\ \A f \in Families : f \in doomed \cup cut => fam[f] = "stored"

Secure == Shape /\ Locks

\* Few steps change what families there are, which are revoked, or the
\* uncommitted revocations and deletions.
LEMMA RevocationSteps ==
    ASSUME Next
    PROVE  \/ UNCHANGED <<fam, reason, staged, purgeVars>>
           \/ \E f \in Families, t \in Tokens : OpenSession(f, t)
           \/ Purging
           \/ PurgeCommit
           \/ \E r \in Requests : \/ Fail(r) \/ DeadlockVictim(r)
                                  \/ Revoke(r) \/ Commit(r)
<1> USE DEF dbVars, txVars, reqVars
<1>1. ASSUME Environment, ~\E f \in Families, t \in Tokens : OpenSession(f, t)
      PROVE  UNCHANGED <<fam, reason, staged, purgeVars>>
  BY <1>1 DEF Environment, Expire, SetActive, GraceExpire
<1>2. ASSUME NEW r \in Requests,
             \/ \E o \in Operations, t \in Tokens : Arrive(r, o, t)
             \/ Reply(r)
      PROVE  UNCHANGED <<fam, reason, staged, purgeVars>>
  BY <1>2 DEF Arrive, Reply
<1>3. ASSUME NEW r \in Requests, Step(r), ~Revoke(r), ~Commit(r)
      PROVE  UNCHANGED <<fam, reason, staged, purgeVars>>
  BY <1>3 DEF Step, LoadUser, Classify, MatchClaim, Claim, Touch,
     ResolveClaimConflict, Issue, HandleReplay, SelectFamilies, GracePut
<1> QED
  BY <1>1, <1>2, <1>3 DEF Next, PurgeStep, PurgeRows, Purging

LEMMA LocksNext == Secure /\ [Next]_vars => Locks'
<1> SUFFICES ASSUME Shape, Locks, [Next]_vars PROVE Locks'
  BY DEF Secure
<1> Types /\ (\A s \in Requests : ShapeOf(s))
  BY DEF Shape
<1> USE DEF Locks, Revocable, purgeVars
<1>1. CASE UNCHANGED <<fam, reason, staged, purgeVars>>
  BY <1>1
<1>2. ASSUME NEW f \in Families, NEW t \in Tokens, OpenSession(f, t)
      PROVE  Locks'
  BY <1>2 DEF OpenSession, Types, txVars
<1>3. CASE Purging
  <2>1. UNCHANGED <<fam, reason, staged>>
    BY <1>3 DEF Purging, PurgeSelect, PurgeTokens, PurgeFail, PurgeRow, dbVars, txVars
  <2>2. CASE PurgeSelect \/ PurgeFail
    BY <2>1, <2>2 DEF PurgeSelect, PurgeFail
  <2>3. CASE PurgeTokens
    <3>1. \A f \in Families : f \in doomed' => f \in doomed
      BY <2>3, RowAssumption DEF PurgeTokens, TokensOf
    <3> QED
      BY <2>1, <2>3, <3>1 DEF PurgeTokens
  <2>4. ASSUME NEW x \in Tokens \cup Families, PurgeRow(x) PROVE Locks'
    <3>1. x \in doomed /\ doomed' = doomed \ {x} /\ cut' = cut \cup {x}
      BY <2>4 DEF PurgeRow, NextRows
    <3>2. \A r \in Requests : x \notin staged[r]
      BY <2>4 DEF PurgeRow, HoldsFamily
    <3> QED
      BY <2>1, <3>1, <3>2
  <2> QED
    BY <1>3, <2>2, <2>3, <2>4 DEF Purging
<1>7. CASE PurgeCommit
  <2>1. /\ doomed' = {} /\ cut' = {} /\ UNCHANGED <<reason, staged>>
        /\ \A f \in Families \ cut : fam'[f] = fam[f]
    BY <1>7 DEF PurgeCommit, Types, txVars
  <2> QED
    BY <2>1 DEF Types
<1>4. ASSUME NEW r \in Requests, Fail(r) \/ DeadlockVictim(r) PROVE Locks'
  <2>1. /\ UNCHANGED <<fam, reason, purgeVars>>
        /\ staged' = [staged EXCEPT ![r] = {}]
    BY <1>4 DEF Fail, DeadlockVictim, Abort, EndTx, dbVars
  <2> QED
    BY <2>1 DEF Types
<1>5. ASSUME NEW r \in Requests, Revoke(r) PROVE Locks'
  <2>1. cur[r] \in Families /\ why[r] \in Reasons
    BY <1>5 DEF Revoke, ShapeOf
  <2>2. CASE ~Revocable(cur[r])
    BY <1>5, <2>2 DEF Revoke
  <2>3. CASE Revocable(cur[r]) /\ InTx(r)
    <3>1. /\ staged' = [staged EXCEPT ![r] = @ \cup {cur[r]}]
          /\ UNCHANGED <<fam, reason, purgeVars>>
      BY <1>5, <2>3 DEF Revoke
    <3>2. cur[r] \notin cut /\ \A s \in Requests \ {r} : cur[r] \notin staged[s]
      BY <1>5, <2>3 DEF Revoke, FamilyFree, HoldsFamily
    <3> QED
      BY <2>3, <3>1, <3>2 DEF Types
  <2>4. CASE Revocable(cur[r]) /\ ~InTx(r)
    <3>1. /\ reason' = [reason EXCEPT ![cur[r]] = why[r]]
          /\ UNCHANGED <<fam, staged, purgeVars>>
      BY <1>5, <2>4 DEF Revoke
    <3>2. \A s \in Requests \ {r} : cur[r] \notin staged[s]
      BY <1>5, <2>4 DEF Revoke, FamilyFree, HoldsFamily
    <3>3. cur[r] \notin staged[r]
      BY <1>5, <2>4 DEF Revoke, InTx, ShapeOf
    <3> QED
      BY <2>4, <3>1, <3>2, <3>3 DEF Types
  <2> QED
    BY <2>2, <2>3, <2>4
<1>6. ASSUME NEW r \in Requests, Commit(r) PROVE Locks'
  <2>1. /\ staged' = [staged EXCEPT ![r] = {}]
        /\ reason' = [f \in Families |-> IF f \in staged[r] THEN why[r] ELSE reason[f]]
        /\ UNCHANGED <<fam, purgeVars>>
    BY <1>6 DEF Commit, EndTx, ReasonsAfter
  <2> QED
    BY <2>1 DEF Types
<1> QED
  BY <1>1, <1>2, <1>3, <1>4, <1>5, <1>6, <1>7, RevocationSteps
     DEF vars, dbVars, txVars

LEMMA SecureInvariant == Spec => []Secure
<1>1. Init => Secure
  <2>1. Init => Locks
    BY DEF Init, Locks
  <2> QED
    BY <2>1, ShapeInit DEF Secure
<1>2. Secure /\ [Next]_vars => Secure'
  BY ShapeNext, LocksNext DEF Secure
<1> QED
  BY <1>1, <1>2, PTL DEF Spec

\* Every variable keeps its type and no lock outlives its request, whatever
\* the interleaving and the failures.
THEOREM TypeCorrect == Spec => []TypeOK
<1>1. Secure => TypeOK
  BY DEF Secure, Shape, TypeOK, ShapeOf, Lockless
<1> QED
  BY <1>1, SecureInvariant, PTL

LEMMA ReasonsKept ==
    ASSUME Secure, Next
    PROVE  \A f \in Families : reason[f] # None => reason'[f] = reason[f]
<1> Types /\ Locks
  BY DEF Secure, Shape
<1>1. CASE UNCHANGED <<fam, reason, staged, purgeVars>>
  BY <1>1
<1>2. CASE \/ \E f \in Families, t \in Tokens : OpenSession(f, t)
           \/ Purging \/ PurgeCommit
           \/ \E r \in Requests : Fail(r) \/ DeadlockVictim(r)
  BY <1>2 DEF OpenSession, Purging, PurgeSelect, PurgeTokens, PurgeRow, PurgeFail,
     PurgeCommit, Fail, DeadlockVictim, Abort, dbVars
<1>3. CASE \E r \in Requests : Revoke(r)
  BY <1>3 DEF Revoke, Revocable, Types
<1>4. CASE \E r \in Requests : Commit(r)
  BY <1>4 DEF Commit, ReasonsAfter, Locks, Revocable, Types
<1> QED
  BY <1>1, <1>2, <1>3, <1>4, RevocationSteps

\* TokenFamily.revoke() is first-reason-wins however revocations race.
THEOREM FirstReasonIsFinal == Spec => FirstReasonWins
<1> DEFINE Kept == \A f \in Families : reason[f] # None => reason'[f] = reason[f]
<1>1. Secure /\ [Next]_vars => [Kept]_vars
  BY ReasonsKept
<1> QED
  BY <1>1, SecureInvariant, PTL DEF Spec, FirstReasonWins

=============================================================================
