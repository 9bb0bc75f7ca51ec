------------------------ MODULE PasswordChangeProofs ------------------------
(***************************************************************************)
(* What PasswordChange promises for any number of requests, hashes and     *)
(* sessions, in either store and in or out of transactions.                *)
(***************************************************************************)
EXTENDS PasswordChange, TLAPS

Loaded == {"login", "change", "profile", "touch"}
Saving == {"compare", "select", "save"}

\* What a request holds at each statement.
ShapeOf(r) ==
    /\ pc[r] = "idle" => /\ op[r] = None /\ inst[r] = None /\ mine[r] = None
                         /\ before[r] = {} /\ killed[r] = {}
    /\ pc[r] # "idle" => op[r] # None
    /\ pc[r] # "revoke" => todo[r] = {}
    /\ op[r] \in Loaded => inst[r] \in Hashes
    /\ IF op[r] = "login" THEN mine[r] \in Sessions ELSE mine[r] = None
    /\ op[r] \in {"login", "logout"} => save[r] # "all"
    /\ op[r] = "change" => save[r] = "all"
    /\ op[r] = "logout" => pc[r] \in {"revoke", "commit", "done"}
    /\ pc[r] \in {"open", "issued"} => op[r] = "login" /\ save[r] # "last_login"
    /\ save[r] = "password" => op[r] = "login"
    /\ pc[r] \in Saving \cup {"revoke"} => save[r] # None \/ op[r] = "logout"
    /\ wrote[r] \in {None, inst[r]}
    /\ ~atomic[r] => wrote[r] = None /\ staged[r] = {}

Shape == \A r \in Requests : ShapeOf(r)

\* Has r's login not yet reached open_session()?
Early(r) == /\ op[r] = "login" /\ save[r] # "last_login"
            /\ pc[r] \in Saving \cup {"revoke", "open"}

\* Hashes in use were made from a password, and nobody who has loaded a user
\* has loaded none.
Made ==
    /\ hash # None => secret[hash] # None
    /\ \A r \in Requests : inst[r] # None => secret[inst[r]] # None
    /\ \A r \in Requests : op[r] \in Loaded \ {"change"} => hash # None

\* A session has a name of its own and is opened once.
Opened ==
    /\ \A q, r \in Requests : q # r => mine[r] = None \/ mine[q] # mine[r]
    /\ \A s \in Sessions : fam[s] # "none" => with[s] # None /\ hash # None
    /\ \A r \in Requests : \A s \in staged[r] : with[s] # None /\ hash # None
    /\ \A r \in Requests : \A s \in before[r] : fam[s] # "none"
    /\ \A r \in Requests : Early(r) => with[mine[r]] = None

\* The new hash of r is nobody's yet; or what stood at its comparison is over.
Unpublished(r) == /\ hash # inst[r]
                  /\ \A q \in Requests \ {r} : inst[q] # inst[r]
Over(r, but)   == \A s \in before[r] : fam[s] # "live" \/ s \in but

\* A change on its way from the comparison to the commit, in the ORM store.
ChangeOf(r) ==
    store = "orm" /\ op[r] = "change" =>
        /\ Unpublished(r) \/ Over(r, {})
        /\ pc[r] = "compare" => Unpublished(r) /\ wrote[r] = None
        /\ pc[r] = "revoke" => Over(r, todo[r] \cup staged[r])
        /\ pc[r] \in {"save", "commit"} => Over(r, staged[r])

Changes == \A r \in Requests : ChangeOf(r)

\* A login past its own save, and an edit, compare equal unless somebody else
\* has saved a password meanwhile; a login saves one if a hash is outdated.
QuietOf(r) ==
    ~rival[r] =>
        /\ op[r] = "login" =>
              /\ mine[r] \notin killed[r]
              /\ weak = {} => killed[r] = {} /\ save[r] # "password"
              /\ \/ Early(r) /\ pc[r] # "open"
                 \/ pc[r] \in {"commit", "done"}
                 \/ Seen(r) = inst[r] /\ pc[r] \notin {"select", "revoke"}
        /\ op[r] \in {"profile", "touch"} =>
              hash = inst[r] /\ killed[r] = {} /\ pc[r] \notin {"select", "revoke"}

Quiet == \A r \in Requests : QuietOf(r)

IInv == TypeOK /\ Shape /\ Made /\ Opened /\ Changes /\ Quiet

-----------------------------------------------------------------------------
(* What a statement leaves alone, and how a request begins.                *)

\* The locals of a request are as they were.
Same(q) ==
    /\ pc'[q] = pc[q] /\ op'[q] = op[q] /\ atomic'[q] = atomic[q]
    /\ inst'[q] = inst[q] /\ save'[q] = save[q] /\ todo'[q] = todo[q]
    /\ wrote'[q] = wrote[q] /\ staged'[q] = staged[q] /\ mine'[q] = mine[q]
    /\ before'[q] = before[q] /\ killed'[q] = killed[q]

Others(r) == \A q \in Requests \ {r} : Same(q)

\* r begins, with these locals, outside every transaction.
Begun(r, o, label, h, fields) ==
    /\ Others(r)
    /\ pc[r] = "idle" /\ wrote[r] = None /\ staged[r] = {}
    /\ pc'[r] = label /\ op'[r] = o /\ inst'[r] = h /\ save'[r] = fields
    /\ UNCHANGED <<store, weak, database, wrote, staged, history>>

\* A hash that nobody holds.
Fresh(h) == h # hash /\ \A q \in Requests : inst[q] # h

\* The four ways a request begins.
Changing(r) ==
    /\ \E h \in Hashes :
          /\ Begun(r, "change", "compare", h, "all")
          /\ Fresh(h) /\ secret'[h] # None
          /\ \A g \in Hashes \ {h} : secret'[g] = secret[g]
    /\ UNCHANGED <<todo, mine>>

Editing(r) ==
    /\ hash # None
    /\ \/ Begun(r, "profile", "compare", hash, "all")
       \/ Begun(r, "touch", "compare", hash, "last_login")
    /\ UNCHANGED <<secret, todo, mine>>

Entering(r, s) ==
    /\ hash # None
    /\ with[s] = None /\ \A q \in Requests : mine[q] # s
    /\ mine'[r] = s
    /\ \/ Begun(r, "login", "open", hash, None) /\ UNCHANGED secret
       \/ \E h \in Hashes :
             /\ weak # {}
             /\ Begun(r, "login", "compare", h, "password")
             /\ Fresh(h) /\ secret'[h] = secret[hash]
             /\ \A g \in Hashes \ {h} : secret'[g] = secret[g]
    /\ UNCHANGED todo

Leaving(r, s) ==
    /\ fam[s] # "none"
    /\ Begun(r, "logout", "revoke", None, None)
    /\ todo'[r] = {s}
    /\ UNCHANGED <<secret, mine>>

Labels == {"idle", "compare", "select", "revoke", "save", "open", "issued",
           "commit", "done"}

\* Begin() is what Begun() says, and typed.
LEMMA Begins ==
    ASSUME TypeOK, NEW r \in Requests, NEW o \in Operations,
           NEW label \in Labels \ {"idle", "done"}, NEW h \in Hashes \cup {None},
           NEW fields \in Fields \cup {None}, Begin(r, o, label, h, fields)
    PROVE  /\ pc' \in [Requests -> Labels] /\ pc'[r] = label
           /\ op' \in [Requests -> Operations \cup {None}] /\ op'[r] = o
           /\ atomic' \in [Requests -> BOOLEAN]
           /\ inst' \in [Requests -> Hashes \cup {None}] /\ inst'[r] = h
           /\ save' \in [Requests -> Fields \cup {None}] /\ save'[r] = fields
           /\ \A q \in Requests \ {r} :
                 /\ pc'[q] = pc[q] /\ op'[q] = op[q] /\ atomic'[q] = atomic[q]
                 /\ inst'[q] = inst[q] /\ save'[q] = save[q]
           /\ UNCHANGED <<store, weak, database, wrote, staged, history>>
           /\ pc[r] = "idle" /\ wrote[r] = None /\ staged[r] = {}
           /\ \A q \in Requests :
                 pc'[q] \in {"idle", "done"} => wrote[q] = None /\ staged[q] = {}
BY DEF TypeOK, Begin, Goto, Labels, database, history

LEMMA BeginsBegun ==
    ASSUME TypeOK, NEW r \in Requests, NEW o \in Operations,
           NEW label \in Labels \ {"idle", "done"}, NEW h \in Hashes \cup {None},
           NEW fields \in Fields \cup {None}, Begin(r, o, label, h, fields),
           \A q \in Requests \ {r} : todo'[q] = todo[q] /\ mine'[q] = mine[q]
    PROVE  Begun(r, o, label, h, fields)
<1>1. Others(r)
  BY Begins DEF Others, Same, history
<1> QED BY <1>1, Begins DEF Begun

LEMMA SetPasswordEffect ==
    ASSUME TypeOK, NEW r \in Requests, SetPassword(r)
    PROVE  TypeOK' /\ Changing(r)
<1>1. PICK h \in Hashes, p \in Passwords :
         MakeHash(h, p) /\ Begin(r, "change", "compare", h, "all")
  BY DEF SetPassword
<1>2. UNCHANGED <<todo, mine>>
  BY DEF SetPassword
<1>3. /\ secret' \in [Hashes -> Passwords \cup {None}] /\ secret'[h] # None
      /\ \A g \in Hashes \ {h} : secret'[g] = secret[g]
      /\ Fresh(h)
  BY <1>1, NoneAssumption DEF MakeHash, TypeOK, Fresh
<1>4. TypeOK'
  BY <1>1, <1>2, <1>3, Begins
     DEF TypeOK, Labels, Operations, Fields, database, history
<1>5. Begun(r, "change", "compare", h, "all")
  BY <1>1, <1>2, BeginsBegun DEF Labels, Operations, Fields
<1> QED BY <1>2, <1>3, <1>4, <1>5 DEF Changing

LEMMA EditEffect ==
    ASSUME TypeOK, NEW r \in Requests, Edit(r)
    PROVE  TypeOK' /\ Editing(r)
<1>1. PICK o \in {"profile", "touch"}, fields \in {"all", "last_login"} :
         /\ o = "profile" <=> fields = "all"
         /\ Begin(r, o, "compare", hash, fields)
  BY DEF Edit
<1>2. UNCHANGED <<secret, todo, mine>> /\ hash # None /\ hash \in Hashes
  BY DEF Edit, TypeOK
<1>3. TypeOK'
  BY <1>1, <1>2, Begins
     DEF TypeOK, Labels, Operations, Fields, database, history
<1>4. Begun(r, o, "compare", hash, fields)
  BY <1>1, <1>2, BeginsBegun DEF Labels, Operations, Fields
<1> QED BY <1>1, <1>2, <1>3, <1>4 DEF Editing

LEMMA AuthenticateEffect ==
    ASSUME TypeOK, NEW r \in Requests, NEW s \in Sessions, Authenticate(r, s)
    PROVE  TypeOK' /\ Entering(r, s)
<1>1. /\ hash # None /\ hash \in Hashes
      /\ with[s] = None /\ \A q \in Requests : mine[q] # s
      /\ mine' = [mine EXCEPT ![r] = s]
      /\ UNCHANGED todo
  BY DEF Authenticate, TypeOK
<1>2. /\ mine' \in [Requests -> Sessions \cup {None}] /\ mine'[r] = s
      /\ \A q \in Requests \ {r} : mine'[q] = mine[q]
  BY <1>1 DEF TypeOK
<1>3. CASE Begin(r, "login", "open", hash, None) /\ UNCHANGED secret
  <2>1. TypeOK'
    BY <1>1, <1>2, <1>3, Begins
       DEF TypeOK, Labels, Operations, Fields, database, history
  <2>2. Begun(r, "login", "open", hash, None)
    BY <1>1, <1>2, <1>3, BeginsBegun DEF Labels, Operations, Fields
  <2> QED BY <1>1, <1>2, <1>3, <2>1, <2>2 DEF Entering
<1>4. ASSUME NEW h \in Hashes, hash \in weak, MakeHash(h, secret[hash]),
             Begin(r, "login", "compare", h, "password")
      PROVE  TypeOK' /\ Entering(r, s)
  <2>1. /\ secret' \in [Hashes -> Passwords \cup {None}]
        /\ secret'[h] = secret[hash]
        /\ \A g \in Hashes \ {h} : secret'[g] = secret[g]
        /\ Fresh(h)
    BY <1>1, <1>4 DEF MakeHash, TypeOK, Fresh
  <2>2. TypeOK'
    BY <1>1, <1>2, <1>4, <2>1, Begins
       DEF TypeOK, Labels, Operations, Fields, database, history
  <2>3. Begun(r, "login", "compare", h, "password")
    BY <1>1, <1>2, <1>4, BeginsBegun DEF Labels, Operations, Fields
  <2> QED BY <1>1, <1>2, <1>4, <2>1, <2>2, <2>3 DEF Entering
<1> QED BY <1>3, <1>4 DEF Authenticate

LEMMA LogoutEffect ==
    ASSUME TypeOK, NEW r \in Requests, NEW s \in Sessions, Logout(r, s)
    PROVE  TypeOK' /\ Leaving(r, s)
<1>1. /\ fam[s] # "none" /\ Begin(r, "logout", "revoke", None, None)
      /\ UNCHANGED <<secret, mine>>
  BY DEF Logout
<1>2. /\ todo' \in [Requests -> SUBSET Sessions] /\ todo'[r] = {s}
      /\ \A q \in Requests \ {r} : todo'[q] = todo[q]
  BY DEF Logout, TypeOK
<1>3. TypeOK'
  BY <1>1, <1>2, Begins
     DEF TypeOK, Labels, Operations, Fields, database, history
<1>4. Begun(r, "logout", "revoke", None, None)
  BY <1>1, <1>2, BeginsBegun DEF Labels, Operations, Fields
<1> QED BY <1>1, <1>2, <1>3, <1>4 DEF Leaving

-----------------------------------------------------------------------------
(* Types, and the shape of a request.                                      *)

LEMMA OthersStep ==
    ASSUME NEW r \in Requests, Step(r),
           TypeOK
    PROVE  Others(r)
<1>1. CASE SetPassword(r)
  BY <1>1, SetPasswordEffect DEF Changing, Begun
<1>2. CASE Edit(r)
  BY <1>2, EditEffect DEF Editing, Begun
<1>3. ASSUME NEW s \in Sessions, Authenticate(r, s) PROVE  Others(r)
  BY <1>3, AuthenticateEffect DEF Entering, Begun
<1>4. ASSUME NEW s \in Sessions, Logout(r, s) PROVE  Others(r)
  BY <1>4, LogoutEffect DEF Leaving, Begun
<1>5. ASSUME NEW s \in Sessions, Revoke(r, s) PROVE  Others(r)
  BY <1>5
     DEF Revoke, Reason, Goto, TypeOK, database, local, history, Others,
         Same
<1>6. CASE Compare(r)
  BY <1>6 DEF Compare, Goto, TypeOK, database, local, history, Others, Same
<1>7. CASE SelectFamilies(r)
  BY <1>7
     DEF SelectFamilies, Standing, Goto, TypeOK, database, local, history,
         Others, Same
<1>8. CASE StoreError(r)
  BY <1>8
     DEF StoreError, Abort, EndTx, Goto, TypeOK, database, local, history,
         Others, Same
<1>9. CASE Save(r)
  BY <1>9
     DEF Save, Publish, Goto, TypeOK, database, local, history, Others, Same
<1>10. CASE Open(r)
  BY <1>10 DEF Open, Goto, TypeOK, database, local, history, Others, Same
<1>11. CASE Issued(r)
  BY <1>11 DEF Issued, Goto, TypeOK, database, local, history, Others, Same
<1>12. CASE ReceiverRaises(r)
  BY <1>12
     DEF ReceiverRaises, Goto, TypeOK, database, local, history, Others,
         Same
<1>13. CASE Commit(r)
  BY <1>13
     DEF Commit, EndTx, Publish, Reason, Goto, TypeOK, database, local,
         history, Others, Same
<1>14. CASE Fail(r)
  BY <1>14
     DEF Fail, Abort, EndTx, Goto, TypeOK, database, local, history, Others,
         Same
<1>15. CASE Release(r)
  BY <1>15 DEF Release, Goto, TypeOK, database, local, history, Others, Same
<1> QED BY <1>1, <1>2, <1>3, <1>4, <1>5, <1>6, <1>7, <1>8, <1>9, <1>10,
        <1>11, <1>12, <1>13, <1>14, <1>15
   DEF Step

LEMMA TypeStep ==
    ASSUME NEW r \in Requests, Step(r),
           TypeOK, pc[r] = "open" => inst[r] \in Hashes
    PROVE  TypeOK'
<1>1. CASE SetPassword(r)
  BY <1>1, SetPasswordEffect DEF Changing, Begun
<1>2. CASE Edit(r)
  BY <1>2, EditEffect DEF Editing, Begun
<1>3. ASSUME NEW s \in Sessions, Authenticate(r, s) PROVE  TypeOK'
  BY <1>3, AuthenticateEffect DEF Entering, Begun
<1>4. ASSUME NEW s \in Sessions, Logout(r, s) PROVE  TypeOK'
  BY <1>4, LogoutEffect DEF Leaving, Begun
<1>5. ASSUME NEW s \in Sessions, Revoke(r, s) PROVE  TypeOK'
  BY <1>5
     DEF Revoke, Reason, Goto, TypeOK, Operations, Fields, database, local,
         history
<1>6. CASE Compare(r)
  BY <1>6
     DEF Compare, Goto, TypeOK, Operations, Fields, database, local, history
<1>7. CASE SelectFamilies(r)
  BY <1>7
     DEF SelectFamilies, Standing, Goto, TypeOK, Operations, Fields,
         database, local, history
<1>8. CASE StoreError(r)
  BY <1>8
     DEF StoreError, Abort, EndTx, Goto, TypeOK, Operations, Fields,
         database, local, history
<1>9. CASE Save(r)
  BY <1>9
     DEF Save, Publish, Goto, TypeOK, Operations, Fields, database, local,
         history
<1>10. CASE Open(r)
  BY <1>10
     DEF Open, Goto, TypeOK, Operations, Fields, database, local, history
<1>11. CASE Issued(r)
  BY <1>11
     DEF Issued, Goto, TypeOK, Operations, Fields, database, local, history
<1>12. CASE ReceiverRaises(r)
  BY <1>12
     DEF ReceiverRaises, Goto, TypeOK, Operations, Fields, database, local,
         history
<1>13. CASE Commit(r)
  BY <1>13
     DEF Commit, EndTx, Publish, Reason, Goto, TypeOK, Operations, Fields,
         database, local, history
<1>14. CASE Fail(r)
  BY <1>14
     DEF Fail, Abort, EndTx, Goto, TypeOK, Operations, Fields, database,
         local, history
<1>15. CASE Release(r)
  BY <1>15
     DEF Release, Goto, TypeOK, Operations, Fields, database, local, history
<1> QED BY <1>1, <1>2, <1>3, <1>4, <1>5, <1>6, <1>7, <1>8, <1>9, <1>10,
        <1>11, <1>12, <1>13, <1>14, <1>15
   DEF Step

LEMMA ShapeOwn ==
    ASSUME NEW r \in Requests, Step(r),
           TypeOK, TypeOK', ShapeOf(r)
    PROVE  ShapeOf(r)'
<1>1. CASE SetPassword(r)
  BY <1>1, SetPasswordEffect, NoneAssumption
     DEF Changing, Begun, ShapeOf, Loaded, Saving, TypeOK, history,
         Operations, Fields
<1>2. CASE Edit(r)
  BY <1>2, EditEffect, NoneAssumption
     DEF Editing, Begun, ShapeOf, Loaded, Saving, TypeOK, history,
         Operations, Fields
<1>3. ASSUME NEW s \in Sessions, Authenticate(r, s) PROVE  ShapeOf(r)'
  BY <1>3, AuthenticateEffect, NoneAssumption
     DEF Entering, Begun, ShapeOf, Loaded, Saving, TypeOK, history,
         Operations, Fields
<1>4. ASSUME NEW s \in Sessions, Logout(r, s) PROVE  ShapeOf(r)'
  BY <1>4, LogoutEffect, NoneAssumption
     DEF Leaving, Begun, ShapeOf, Loaded, Saving, TypeOK, history,
         Operations, Fields
<1>5. ASSUME NEW s \in Sessions, Revoke(r, s) PROVE  ShapeOf(r)'
  <2>1. /\ pc[r] = "revoke" /\ s \in todo[r] /\ todo'[r] = todo[r] \ {s}
        /\ pc'[r] = IF todo[r] # {s} THEN "revoke"
                    ELSE IF op[r] = "logout" THEN "commit" ELSE "save"
        /\ UNCHANGED <<op, atomic, inst, save, wrote, mine>>
    BY <1>5 DEF Revoke, Goto, TypeOK
  <2>2. ~atomic[r] => staged' = staged
    BY <1>5 DEF Revoke, TypeOK
  <2>3. op[r] # "logout" => op[r] \in Loaded
    BY <2>1 DEF TypeOK, Operations, Loaded, ShapeOf
  <2> QED BY <2>1, <2>2, <2>3, NoneAssumption
          DEF ShapeOf, Saving, Loaded, Operations, Fields, TypeOK
<1>6. CASE Compare(r)
  BY <1>6, NoneAssumption
     DEF Compare, Goto, TypeOK, Operations, Fields, database, local,
         history, ShapeOf, Loaded, Saving
<1>7. CASE SelectFamilies(r)
  BY <1>7, NoneAssumption
     DEF SelectFamilies, Standing, Goto, TypeOK, Operations, Fields,
         database, local, history, ShapeOf, Loaded, Saving
<1>8. CASE StoreError(r)
  <2>1. CASE /\ pc' = [pc EXCEPT ![r] = "save"] /\ todo' = [todo EXCEPT ![r] = {}]
             /\ UNCHANGED <<op, atomic, inst, save, wrote, staged, mine>>
    BY <1>8, <2>1, NoneAssumption
       DEF StoreError, TypeOK, ShapeOf, Saving, Loaded, Operations, Fields
  <2>2. CASE Abort(r)
    BY <1>8, <2>2, NoneAssumption DEF StoreError, Abort, EndTx, Goto, TypeOK,
       Operations, Fields, database, local, history, ShapeOf, Loaded, Saving
  <2> QED BY <1>8, <2>1, <2>2 DEF StoreError, Goto
<1>9. CASE Save(r)
  BY <1>9, NoneAssumption
     DEF Save, Publish, Goto, TypeOK, Operations, Fields, database, local,
         history, ShapeOf, Loaded, Saving
<1>10. CASE Open(r)
  BY <1>10, NoneAssumption
     DEF Open, Goto, TypeOK, Operations, Fields, database, local, history,
         ShapeOf, Loaded, Saving
<1>11. CASE Issued(r)
  BY <1>11, NoneAssumption
     DEF Issued, Goto, TypeOK, Operations, Fields, database, local, history,
         ShapeOf, Loaded, Saving
<1>12. CASE ReceiverRaises(r)
  BY <1>12, NoneAssumption
     DEF ReceiverRaises, Goto, TypeOK, Operations, Fields, database, local,
         history, ShapeOf, Loaded, Saving
<1>13. CASE Commit(r)
  BY <1>13, NoneAssumption
     DEF Commit, EndTx, Publish, Reason, Goto, TypeOK, Operations, Fields,
         database, local, history, ShapeOf, Loaded, Saving
<1>14. CASE Fail(r)
  BY <1>14, NoneAssumption
     DEF Fail, Abort, EndTx, Goto, TypeOK, Operations, Fields, database,
         local, history, ShapeOf, Loaded, Saving
<1>15. CASE Release(r)
  BY <1>15, NoneAssumption
     DEF Release, Goto, TypeOK, Operations, Fields, database, local,
         history, ShapeOf, Loaded, Saving
<1> QED BY <1>1, <1>2, <1>3, <1>4, <1>5, <1>6, <1>7, <1>8, <1>9, <1>10,
        <1>11, <1>12, <1>13, <1>14, <1>15
   DEF Step

LEMMA ShapeStep ==
    ASSUME TypeOK, Shape, NEW r \in Requests, Step(r)
    PROVE  TypeOK' /\ Shape' /\ Others(r)
<1>1. TypeOK' /\ Others(r)
  BY TypeStep, OthersStep, NoneAssumption
     DEF Shape, ShapeOf, TypeOK, Loaded, Operations
<1>2. ShapeOf(r)'
  BY <1>1, ShapeOwn DEF Shape
<1>3. ASSUME NEW q \in Requests \ {r} PROVE ShapeOf(q)'
  BY <1>1, <1>3 DEF Others, Same, Shape, ShapeOf
<1> QED BY <1>1, <1>2, <1>3 DEF Shape

-----------------------------------------------------------------------------
(* Where hashes and sessions come from.                                    *)

\* The user's password becomes that of r's instance, if it changes; the other
\* requests at work are told.
HashBy(r) ==
    /\ hash' = hash \/ (hash' = inst[r] /\ inst[r] \in Hashes)
    /\ \A q \in Requests \ {r} :
          ~rival'[q] => ~rival[q] /\ (hash' = hash \/ pc[q] = "idle")

\* A hash that is made is nobody's.
InstBy(r) ==
    /\ \A h \in Hashes : secret[h] # None => secret'[h] # None
    /\ \/ inst'[r] \in {inst[r], hash, None}
       \/ /\ inst'[r] \in Hashes /\ Fresh(inst'[r])
          /\ secret'[inst'[r]] # None
    /\ store' = store
    /\ op'[r] = op[r] \/ op'[r] = None \/ pc[r] = "idle"
    /\ \/ op'[r] = op[r] \/ op'[r] \in {None, "change", "logout"}
       \/ hash # None

LEMMA HashStep ==
    ASSUME NEW r \in Requests, Step(r),
           TypeOK, ShapeOf(r)
    PROVE  HashBy(r)
<1>1. CASE SetPassword(r)
  BY <1>1, SetPasswordEffect, NoneAssumption
     DEF Changing, Begun, database, local, history, TypeOK, HashBy
<1>2. CASE Edit(r)
  BY <1>2, EditEffect, NoneAssumption
     DEF Editing, Begun, database, local, history, TypeOK, HashBy
<1>3. ASSUME NEW s \in Sessions, Authenticate(r, s) PROVE  HashBy(r)
  BY <1>3, AuthenticateEffect, NoneAssumption
     DEF Entering, Begun, database, local, history, TypeOK, HashBy
<1>4. ASSUME NEW s \in Sessions, Logout(r, s) PROVE  HashBy(r)
  BY <1>4, LogoutEffect, NoneAssumption
     DEF Leaving, Begun, database, local, history, TypeOK, HashBy
<1>5. ASSUME NEW s \in Sessions, Revoke(r, s) PROVE  HashBy(r)
  BY <1>5, NoneAssumption
     DEF Revoke, Reason, Goto, TypeOK, Operations, Fields, database, local,
         history, ShapeOf, Loaded, Saving, HashBy
<1>6. CASE Compare(r)
  BY <1>6, NoneAssumption
     DEF Compare, Goto, TypeOK, Operations, Fields, database, local,
         history, ShapeOf, Loaded, Saving, HashBy
<1>7. CASE SelectFamilies(r)
  BY <1>7, NoneAssumption
     DEF SelectFamilies, Standing, Goto, TypeOK, Operations, Fields,
         database, local, history, ShapeOf, Loaded, Saving, HashBy
<1>8. CASE StoreError(r)
  BY <1>8, NoneAssumption
     DEF StoreError, Abort, EndTx, Goto, TypeOK, Operations, Fields,
         database, local, history, ShapeOf, Loaded, Saving, HashBy
<1>9. CASE Save(r)
  BY <1>9, NoneAssumption
     DEF Save, Publish, Goto, TypeOK, Operations, Fields, database, local,
         history, ShapeOf, Loaded, Saving, HashBy
<1>10. CASE Open(r)
  BY <1>10, NoneAssumption
     DEF Open, Goto, TypeOK, Operations, Fields, database, local, history,
         ShapeOf, Loaded, Saving, HashBy
<1>11. CASE Issued(r)
  BY <1>11, NoneAssumption
     DEF Issued, Goto, TypeOK, Operations, Fields, database, local, history,
         ShapeOf, Loaded, Saving, HashBy
<1>12. CASE ReceiverRaises(r)
  BY <1>12, NoneAssumption
     DEF ReceiverRaises, Goto, TypeOK, Operations, Fields, database, local,
         history, ShapeOf, Loaded, Saving, HashBy
<1>13. CASE Commit(r)
  BY <1>13, NoneAssumption
     DEF Commit, EndTx, Publish, Reason, Goto, TypeOK, Operations, Fields,
         database, local, history, ShapeOf, Loaded, Saving, HashBy
<1>14. CASE Fail(r)
  BY <1>14, NoneAssumption
     DEF Fail, Abort, EndTx, Goto, TypeOK, Operations, Fields, database,
         local, history, ShapeOf, Loaded, Saving, HashBy
<1>15. CASE Release(r)
  BY <1>15, NoneAssumption
     DEF Release, Goto, TypeOK, Operations, Fields, database, local,
         history, ShapeOf, Loaded, Saving, HashBy
<1> QED BY <1>1, <1>2, <1>3, <1>4, <1>5, <1>6, <1>7, <1>8, <1>9, <1>10,
        <1>11, <1>12, <1>13, <1>14, <1>15
   DEF Step

LEMMA InstStep ==
    ASSUME NEW r \in Requests, Step(r),
           TypeOK, ShapeOf(r), hash # None => secret[hash] # None
    PROVE  InstBy(r)
<1>1. CASE SetPassword(r)
  BY <1>1, SetPasswordEffect, NoneAssumption
     DEF Changing, Begun, database, local, history, TypeOK, InstBy
<1>2. CASE Edit(r)
  BY <1>2, EditEffect, NoneAssumption
     DEF Editing, Begun, database, local, history, TypeOK, InstBy
<1>3. ASSUME NEW s \in Sessions, Authenticate(r, s) PROVE  InstBy(r)
  BY <1>3, AuthenticateEffect, NoneAssumption
     DEF Entering, Begun, database, local, history, TypeOK, InstBy
<1>4. ASSUME NEW s \in Sessions, Logout(r, s) PROVE  InstBy(r)
  BY <1>4, LogoutEffect, NoneAssumption
     DEF Leaving, Begun, database, local, history, TypeOK, InstBy
<1>5. ASSUME NEW s \in Sessions, Revoke(r, s) PROVE  InstBy(r)
  BY <1>5, NoneAssumption
     DEF Revoke, Reason, Goto, TypeOK, Operations, Fields, database, local,
         history, InstBy
<1>6. CASE Compare(r)
  BY <1>6, NoneAssumption
     DEF Compare, Goto, TypeOK, Operations, Fields, database, local,
         history, InstBy
<1>7. CASE SelectFamilies(r)
  BY <1>7, NoneAssumption
     DEF SelectFamilies, Standing, Goto, TypeOK, Operations, Fields,
         database, local, history, InstBy
<1>8. CASE StoreError(r)
  BY <1>8, NoneAssumption
     DEF StoreError, Abort, EndTx, Goto, TypeOK, Operations, Fields,
         database, local, history, InstBy
<1>9. CASE Save(r)
  BY <1>9, NoneAssumption
     DEF Save, Publish, Goto, TypeOK, Operations, Fields, database, local,
         history, InstBy
<1>10. CASE Open(r)
  BY <1>10, NoneAssumption
     DEF Open, Goto, TypeOK, Operations, Fields, database, local, history,
         InstBy
<1>11. CASE Issued(r)
  BY <1>11, NoneAssumption
     DEF Issued, Goto, TypeOK, Operations, Fields, database, local, history,
         InstBy
<1>12. CASE ReceiverRaises(r)
  BY <1>12, NoneAssumption
     DEF ReceiverRaises, Goto, TypeOK, Operations, Fields, database, local,
         history, InstBy
<1>13. CASE Commit(r)
  BY <1>13, NoneAssumption
     DEF Commit, EndTx, Publish, Reason, Goto, TypeOK, Operations, Fields,
         database, local, history, InstBy
<1>14. CASE Fail(r)
  BY <1>14, NoneAssumption
     DEF Fail, Abort, EndTx, Goto, TypeOK, Operations, Fields, database,
         local, history, InstBy
<1>15. CASE Release(r)
  BY <1>15, NoneAssumption
     DEF Release, Goto, TypeOK, Operations, Fields, database, local,
         history, InstBy
<1> QED BY <1>1, <1>2, <1>3, <1>4, <1>5, <1>6, <1>7, <1>8, <1>9, <1>10,
        <1>11, <1>12, <1>13, <1>14, <1>15
   DEF Step

LEMMA MadeStep ==
    ASSUME TypeOK, Shape, Made, NEW r \in Requests, Step(r)
    PROVE  Made'
<1>1. TypeOK' /\ Others(r) /\ HashBy(r) /\ InstBy(r)
  BY ShapeStep, HashStep, InstStep DEF Shape, Made
<1>2. hash' # None => secret'[hash'] # None
  BY <1>1 DEF HashBy, InstBy, Made, TypeOK
<1>3. ASSUME NEW q \in Requests \ {r}, inst'[q] # None
      PROVE  secret'[inst'[q]] # None
  BY <1>1, <1>3 DEF InstBy, Others, Same, Made, TypeOK
<1>5. inst'[r] # None => secret'[inst'[r]] # None
  BY <1>1 DEF InstBy, Made, TypeOK
<1>4. ASSUME NEW q \in Requests, op'[q] \in Loaded \ {"change"}
      PROVE  hash' # None
  BY <1>1, <1>4, NoneAssumption
     DEF HashBy, InstBy, Others, Same, Made, TypeOK, Loaded, Operations
<1> QED BY <1>2, <1>3, <1>4, <1>5 DEF Made

\* A session is opened by the login that has its name, and then only ends;
\* what r has ended stood.
FamBy(r) ==
    /\ \A s \in Sessions :
          /\ fam'[s] # fam[s] =>
                /\ fam'[s] # "none"
                /\ \/ s \in staged[r] \/ fam[s] = "live"
                   \/ s = mine[r] /\ with[s] # None
                   \/ s = mine[r] /\ pc[r] = "open" /\ pc'[r] # "done"
          /\ fam'[s] = "live" => fam[s] \in {"live", "none"}
    /\ staged'[r] \subseteq staged[r] \cup Standing(r)
    /\ \/ before'[r] \subseteq before[r]
       \/ before'[r] = {s \in Sessions : fam[s] = "live"} /\ fam' = fam

\* A login takes a new name, and opens the session once.
WithBy(r) ==
    /\ with' = IF pc[r] = "open" /\ pc'[r] # "done"
                THEN [with EXCEPT ![mine[r]] = secret[inst[r]]] ELSE with
    /\ \/ mine'[r] \in {mine[r], None}
       \/ with[mine'[r]] = None /\ \A q \in Requests : mine[q] # mine'[r]

\* A login that has not opened its session has not done so before either.
EarlyBy(r) ==
    Early(r)' => /\ pc[r] # "open"
                 /\ \/ with[mine'[r]] = None
                    \/ Early(r) /\ mine'[r] = mine[r]

LEMMA FamStep ==
    ASSUME NEW r \in Requests, Step(r),
           TypeOK, Shape, Opened
    PROVE  FamBy(r)
<1>1. CASE SetPassword(r)
  BY <1>1, SetPasswordEffect, NoneAssumption
     DEF Changing, Begun, database, local, history, TypeOK, FamBy
<1>2. CASE Edit(r)
  BY <1>2, EditEffect, NoneAssumption
     DEF Editing, Begun, database, local, history, TypeOK, FamBy
<1>3. ASSUME NEW s \in Sessions, Authenticate(r, s) PROVE  FamBy(r)
  BY <1>3, AuthenticateEffect, NoneAssumption
     DEF Entering, Begun, database, local, history, TypeOK, FamBy
<1>4. ASSUME NEW s \in Sessions, Logout(r, s) PROVE  FamBy(r)
  BY <1>4, LogoutEffect, NoneAssumption
     DEF Leaving, Begun, database, local, history, TypeOK, FamBy
<1>5. ASSUME NEW s \in Sessions, Revoke(r, s) PROVE  FamBy(r)
  BY <1>5, NoneAssumption
     DEF Revoke, Reason, Goto, TypeOK, Operations, Fields, database, local,
         history, Standing, Unseen, FamBy
<1>6. CASE Compare(r)
  BY <1>6, NoneAssumption
     DEF Compare, Goto, TypeOK, Operations, Fields, database, local,
         history, Standing, Unseen, FamBy
<1>7. CASE SelectFamilies(r)
  BY <1>7, NoneAssumption
     DEF SelectFamilies, Standing, Goto, TypeOK, Operations, Fields,
         database, local, history, Standing, Unseen, FamBy
<1>8. CASE StoreError(r)
  BY <1>8, NoneAssumption
     DEF StoreError, Abort, EndTx, Goto, TypeOK, Operations, Fields,
         database, local, history, Standing, Unseen, FamBy
<1>9. CASE Save(r)
  BY <1>9, NoneAssumption
     DEF Save, Publish, Goto, TypeOK, Operations, Fields, database, local,
         history, Standing, Unseen, FamBy
<1>10. CASE Open(r)
  <2>1. /\ mine[r] \in Sessions /\ fam[mine[r]] = "none"
        /\ staged' = staged /\ before' = before
        /\ pc[r] = "open" /\ pc'[r] = "issued"
        /\ fam' = IF atomic[r] THEN fam ELSE [fam EXCEPT ![mine[r]] = "live"]
    BY <1>10 DEF Open, Goto, Opened, Early, Shape, ShapeOf, TypeOK, Saving
  <2> QED BY <2>1 DEF FamBy, TypeOK
<1>11. CASE Issued(r)
  BY <1>11, NoneAssumption
     DEF Issued, Goto, TypeOK, Operations, Fields, database, local, history,
         Standing, Unseen, FamBy
<1>12. CASE ReceiverRaises(r)
  BY <1>12, NoneAssumption
     DEF ReceiverRaises, Goto, TypeOK, Operations, Fields, database, local,
         history, Standing, Unseen, FamBy
<1>13. CASE Commit(r)
  BY <1>13, NoneAssumption
     DEF Commit, EndTx, Publish, Reason, Goto, TypeOK, Operations, Fields,
         database, local, history, Standing, Unseen, FamBy
<1>14. CASE Fail(r)
  BY <1>14, NoneAssumption
     DEF Fail, Abort, EndTx, Goto, TypeOK, Operations, Fields, database,
         local, history, Standing, Unseen, FamBy
<1>15. CASE Release(r)
  BY <1>15, NoneAssumption
     DEF Release, Goto, TypeOK, Operations, Fields, database, local,
         history, Standing, Unseen, FamBy
<1> QED BY <1>1, <1>2, <1>3, <1>4, <1>5, <1>6, <1>7, <1>8, <1>9, <1>10,
        <1>11, <1>12, <1>13, <1>14, <1>15
   DEF Step

LEMMA WithStep ==
    ASSUME NEW r \in Requests, Step(r),
           TypeOK
    PROVE  WithBy(r)
<1>1. CASE SetPassword(r)
  BY <1>1, SetPasswordEffect, NoneAssumption
     DEF Changing, Begun, database, local, history, TypeOK, WithBy
<1>2. CASE Edit(r)
  BY <1>2, EditEffect, NoneAssumption
     DEF Editing, Begun, database, local, history, TypeOK, WithBy
<1>3. ASSUME NEW s \in Sessions, Authenticate(r, s) PROVE  WithBy(r)
  BY <1>3, AuthenticateEffect, NoneAssumption
     DEF Entering, Begun, database, local, history, TypeOK, WithBy
<1>4. ASSUME NEW s \in Sessions, Logout(r, s) PROVE  WithBy(r)
  BY <1>4, LogoutEffect, NoneAssumption
     DEF Leaving, Begun, database, local, history, TypeOK, WithBy
<1>5. ASSUME NEW s \in Sessions, Revoke(r, s) PROVE  WithBy(r)
  BY <1>5, NoneAssumption
     DEF Revoke, Reason, Goto, TypeOK, Operations, Fields, database, local,
         history, WithBy
<1>6. CASE Compare(r)
  BY <1>6, NoneAssumption
     DEF Compare, Goto, TypeOK, Operations, Fields, database, local,
         history, WithBy
<1>7. CASE SelectFamilies(r)
  BY <1>7, NoneAssumption
     DEF SelectFamilies, Standing, Goto, TypeOK, Operations, Fields,
         database, local, history, WithBy
<1>8. CASE StoreError(r)
  BY <1>8, NoneAssumption
     DEF StoreError, Abort, EndTx, Goto, TypeOK, Operations, Fields,
         database, local, history, WithBy
<1>9. CASE Save(r)
  BY <1>9, NoneAssumption
     DEF Save, Publish, Goto, TypeOK, Operations, Fields, database, local,
         history, WithBy
<1>10. CASE Open(r)
  BY <1>10, NoneAssumption
     DEF Open, Goto, TypeOK, Operations, Fields, database, local, history,
         WithBy
<1>11. CASE Issued(r)
  BY <1>11, NoneAssumption
     DEF Issued, Goto, TypeOK, Operations, Fields, database, local, history,
         WithBy
<1>12. CASE ReceiverRaises(r)
  BY <1>12, NoneAssumption
     DEF ReceiverRaises, Goto, TypeOK, Operations, Fields, database, local,
         history, WithBy
<1>13. CASE Commit(r)
  BY <1>13, NoneAssumption
     DEF Commit, EndTx, Publish, Reason, Goto, TypeOK, Operations, Fields,
         database, local, history, WithBy
<1>14. CASE Fail(r)
  BY <1>14, NoneAssumption
     DEF Fail, Abort, EndTx, Goto, TypeOK, Operations, Fields, database,
         local, history, WithBy
<1>15. CASE Release(r)
  BY <1>15, NoneAssumption
     DEF Release, Goto, TypeOK, Operations, Fields, database, local,
         history, WithBy
<1> QED BY <1>1, <1>2, <1>3, <1>4, <1>5, <1>6, <1>7, <1>8, <1>9, <1>10,
        <1>11, <1>12, <1>13, <1>14, <1>15
   DEF Step

LEMMA EarlyStep ==
    ASSUME NEW r \in Requests, Step(r),
           TypeOK
    PROVE  EarlyBy(r)
<1>1. CASE SetPassword(r)
  BY <1>1, SetPasswordEffect, NoneAssumption
     DEF Changing, Begun, database, local, history, TypeOK, EarlyBy, Early,
         Saving, Operations, Fields
<1>2. CASE Edit(r)
  BY <1>2, EditEffect, NoneAssumption
     DEF Editing, Begun, database, local, history, TypeOK, EarlyBy, Early,
         Saving, Operations, Fields
<1>3. ASSUME NEW s \in Sessions, Authenticate(r, s) PROVE  EarlyBy(r)
  BY <1>3, AuthenticateEffect, NoneAssumption
     DEF Entering, Begun, database, local, history, TypeOK, EarlyBy, Early,
         Saving, Operations, Fields
<1>4. ASSUME NEW s \in Sessions, Logout(r, s) PROVE  EarlyBy(r)
  BY <1>4, LogoutEffect, NoneAssumption
     DEF Leaving, Begun, database, local, history, TypeOK, EarlyBy, Early,
         Saving, Operations, Fields
<1>5. ASSUME NEW s \in Sessions, Revoke(r, s) PROVE  EarlyBy(r)
  BY <1>5, NoneAssumption
     DEF Revoke, Reason, Goto, TypeOK, Operations, Fields, database, local,
         history, Early, Saving, EarlyBy
<1>6. CASE Compare(r)
  BY <1>6, NoneAssumption
     DEF Compare, Goto, TypeOK, Operations, Fields, database, local,
         history, Early, Saving, EarlyBy
<1>7. CASE SelectFamilies(r)
  BY <1>7, NoneAssumption
     DEF SelectFamilies, Standing, Goto, TypeOK, Operations, Fields,
         database, local, history, Early, Saving, EarlyBy
<1>8. CASE StoreError(r)
  BY <1>8, NoneAssumption
     DEF StoreError, Abort, EndTx, Goto, TypeOK, Operations, Fields,
         database, local, history, Early, Saving, EarlyBy
<1>9. CASE Save(r)
  BY <1>9, NoneAssumption
     DEF Save, Publish, Goto, TypeOK, Operations, Fields, database, local,
         history, Early, Saving, EarlyBy
<1>10. CASE Open(r)
  BY <1>10, NoneAssumption
     DEF Open, Goto, TypeOK, Operations, Fields, database, local, history,
         Early, Saving, EarlyBy
<1>11. CASE Issued(r)
  BY <1>11, NoneAssumption
     DEF Issued, Goto, TypeOK, Operations, Fields, database, local, history,
         Early, Saving, EarlyBy
<1>12. CASE ReceiverRaises(r)
  BY <1>12, NoneAssumption
     DEF ReceiverRaises, Goto, TypeOK, Operations, Fields, database, local,
         history, Early, Saving, EarlyBy
<1>13. CASE Commit(r)
  BY <1>13, NoneAssumption
     DEF Commit, EndTx, Publish, Reason, Goto, TypeOK, Operations, Fields,
         database, local, history, Early, Saving, EarlyBy
<1>14. CASE Fail(r)
  BY <1>14, NoneAssumption
     DEF Fail, Abort, EndTx, Goto, TypeOK, Operations, Fields, database,
         local, history, Early, Saving, EarlyBy
<1>15. CASE Release(r)
  BY <1>15, NoneAssumption
     DEF Release, Goto, TypeOK, Operations, Fields, database, local,
         history, Early, Saving, EarlyBy
<1> QED BY <1>1, <1>2, <1>3, <1>4, <1>5, <1>6, <1>7, <1>8, <1>9, <1>10,
        <1>11, <1>12, <1>13, <1>14, <1>15
   DEF Step

LEMMA OpenedStep ==
    ASSUME TypeOK, Shape, Made, Opened, NEW r \in Requests, Step(r)
    PROVE  Opened'
<1>1. /\ TypeOK' /\ Shape' /\ Others(r)
      /\ HashBy(r) /\ FamBy(r) /\ WithBy(r) /\ EarlyBy(r)
  BY ShapeStep, HashStep, FamStep, WithStep, EarlyStep DEF Shape
<1>2. hash # None => hash' # None
  BY <1>1, NoneAssumption DEF HashBy
<1>3. mine[r] # None => op[r] = "login" /\ mine[r] \in Sessions /\ hash # None
  BY DEF Shape, ShapeOf, Made, Loaded
<1>4. /\ pc[r] = "open" => secret[inst[r]] # None /\ inst[r] \in Hashes
      /\ pc[r] = "open" => mine[r] \in Sessions
  BY NoneAssumption DEF Shape, ShapeOf, Made, Loaded
<1>5. \A s \in Sessions :
         /\ with[s] # None => with'[s] # None
         /\ with'[s] # with[s] => s = mine[r] /\ pc[r] = "open"
  BY <1>1, <1>4 DEF WithBy, TypeOK
<1>6. ASSUME NEW p \in Requests, NEW q \in Requests, p # q
      PROVE  mine'[q] = None \/ mine'[p] # mine'[q]
  BY <1>1, <1>6 DEF WithBy, Opened, Others, Same
<1>7. ASSUME NEW s \in Sessions, fam'[s] # "none"
      PROVE  with'[s] # None /\ hash' # None
  <2>1. CASE fam[s] # "none" \/ s \in staged[r]
    BY <1>2, <1>5, <2>1 DEF Opened
  <2>2. CASE s = mine[r] /\ with[s] # None
    BY <1>2, <1>3, <1>5, <2>2, NoneAssumption
  <2>3. CASE s = mine[r] /\ pc[r] = "open" /\ pc'[r] # "done"
    <3>1. with'[s] # None
      BY <1>1, <1>4, <2>3 DEF WithBy, TypeOK
    <3> QED BY <1>2, <1>3, <2>3, <3>1, NoneAssumption
  <2> QED BY <1>1, <1>7, <2>1, <2>2, <2>3 DEF FamBy
<1>8. ASSUME NEW q \in Requests, NEW s \in staged'[q]
      PROVE  with'[s] # None /\ hash' # None
  <2>1. s \in Sessions
    BY <1>1 DEF TypeOK
  <2>2. CASE s \in staged[q]
    BY <1>2, <1>5, <2>1, <2>2 DEF Opened
  <2>3. CASE q = r /\ s \in Standing(r)
    <3>1. fam[s] = "live" \/ (s = mine[r] /\ with[s] # None)
      BY <2>3 DEF Standing, Unseen
    <3> QED BY <1>2, <1>3, <1>5, <2>1, <3>1, NoneAssumption DEF Opened
  <2> QED BY <1>1, <2>2, <2>3 DEF FamBy, Others, Same
<1>9. ASSUME NEW q \in Requests, NEW s \in before'[q] PROVE fam'[s] # "none"
  BY <1>1 DEF FamBy, Others, Same, Opened, TypeOK
<1>10. ASSUME NEW q \in Requests, Early(q)' PROVE with'[mine'[q]] = None
  <2>1. CASE q = r
    BY <1>1, <1>10, <2>1 DEF EarlyBy, WithBy, Opened
  <2>2. CASE q # r
    <3>1. Early(q) /\ mine'[q] = mine[q] /\ mine[q] \in Sessions
      BY <1>1, <1>10, <2>2 DEF Others, Same, Early, Shape, ShapeOf
    <3>2. mine[q] # mine[r] /\ with[mine[q]] = None
      BY <2>2, <3>1, NoneAssumption DEF Opened
    <3> QED BY <1>5, <3>1, <3>2
  <2> QED BY <2>1, <2>2
<1> QED BY <1>6, <1>7, <1>8, <1>9, <1>10 DEF Opened

-----------------------------------------------------------------------------
(* A change of the password.                                               *)

\* Nobody else takes or publishes a new hash.
LEMMA StaysUnpublished ==
    ASSUME TypeOK, Shape, Made, NEW r \in Requests, Step(r), NEW q \in Requests,
           inst'[q] = inst[q], inst[q] \in Hashes, Unpublished(q),
           q = r => hash' = hash
    PROVE  Unpublished(q)'
<1>1. Others(r) /\ HashBy(r) /\ InstBy(r)
  BY ShapeStep, HashStep, InstStep DEF Shape, Made
<1>2. CASE q = r
  BY <1>1, <1>2 DEF Others, Same, Unpublished
<1>3. CASE q # r
  <2>1. hash' # inst[q]
    BY <1>1, <1>3 DEF HashBy, Unpublished
  <2>2. inst'[r] # inst[q]
    BY <1>1, <1>3, NoneAssumption DEF InstBy, Fresh, Unpublished
  <2> QED BY <1>1, <1>3, <2>1, <2>2 DEF Others, Same, Unpublished
<1> QED BY <1>2, <1>3

\* What is over stays over.
LEMMA StaysOver ==
    ASSUME TypeOK, Shape, Opened, NEW r \in Requests, Step(r),
           NEW q \in Requests, NEW s \in before[q], fam[s] # "live"
    PROVE  fam'[s] # "live"
BY FamStep DEF FamBy, TypeOK, Opened

\* r is a change in the ORM store.
On(r) == store = "orm" /\ op[r] = "change" /\ inst[r] \in Hashes

\* What is new or over for r is so after a step that keeps the password.
Kept(r) ==
    UNCHANGED <<hash, inst, before>> => Unpublished(r)' \/ Over(r, {})'

LEMMA ChangeBegins ==
    ASSUME TypeOK, Shape, Made, Opened, NEW r \in Requests, Step(r),
           pc[r] = "idle"
    PROVE  ChangeOf(r)'
<1>1. CASE SetPassword(r)
  <2>1. Changing(r)
    BY <1>1, SetPasswordEffect
  <2>2. Unpublished(r)' /\ pc'[r] = "compare" /\ wrote'[r] = None
    BY <2>1 DEF Changing, Begun, Others, Same, Fresh, Unpublished, database
  <2> QED BY <2>2 DEF ChangeOf
<1>2. CASE Edit(r)
  BY <1>2, EditEffect DEF Editing, Begun, ChangeOf
<1>3. ASSUME NEW s \in Sessions, Authenticate(r, s) PROVE  ChangeOf(r)'
  BY <1>3, AuthenticateEffect DEF Entering, Begun, ChangeOf
<1>4. ASSUME NEW s \in Sessions, Logout(r, s) PROVE  ChangeOf(r)'
  BY <1>4, LogoutEffect DEF Leaving, Begun, ChangeOf
<1>5. ASSUME NEW s \in Sessions PROVE ~Revoke(r, s)
  BY DEF Revoke
<1> QED BY <1>1, <1>2, <1>3, <1>4, <1>5
       DEF Step, Compare, SelectFamilies, StoreError, Save, Open, Issued,
           ReceiverRaises, Commit, Fail, Release

LEMMA ChangeGoesOn ==
    ASSUME TypeOK, Shape, Made, Opened, NEW r \in Requests, Step(r),
           pc[r] # "idle", On(r), ChangeOf(r)
    PROVE  ChangeOf(r)'
<1>1. Kept(r)
  BY StaysUnpublished, StaysOver DEF Kept, ChangeOf, On, Over
<1>2. ASSUME NEW s \in Sessions, Revoke(r, s) PROVE  ChangeOf(r)'
  <2>1. /\ pc[r] = "revoke" /\ todo'[r] = todo[r] \ {s}
        /\ pc'[r] = IF todo[r] # {s} THEN "revoke" ELSE "save"
        /\ UNCHANGED <<hash, inst, before>>
    BY <1>2 DEF Revoke, Goto, TypeOK, On
  <2>2. /\ staged[r] \subseteq staged'[r]
        /\ fam'[s] # "live" \/ s \in staged'[r]
    BY <1>2 DEF Revoke, Standing, Reason, TypeOK
  <2>3. todo[r] = {s} => todo'[r] = {}
    BY <2>1
  <2>4. \A x \in before'[r] : fam'[x] # "live" \/ x \in todo'[r] \cup staged'[r]
    <3>1. \A x \in before[r] : fam[x] # "live" \/ x \in todo[r] \cup staged[r]
      BY <2>1 DEF ChangeOf, On, Over
    <3> QED BY <2>1, <2>2, <3>1, StaysOver
  <2> QED BY <1>1, <2>1, <2>3, <2>4 DEF ChangeOf, On, Over, Kept
<1>3. CASE Compare(r)
  <2>1. /\ pc[r] = "compare" /\ pc'[r] \in {"save", "select"}
        /\ pc'[r] = "save" => hash = None
        /\ before'[r] = {s \in Sessions : fam[s] = "live"}
        /\ UNCHANGED <<hash, fam, inst, wrote>>
    BY <1>3
       DEF Compare, Goto, Unchanged, Seen, ChangeOf, Unpublished, On,
           TypeOK, database
  <2>2. hash = None => before'[r] = {}
    BY <2>1 DEF Opened
  <2>3. Unpublished(r)'
    BY <1>1, <2>1, StaysUnpublished DEF ChangeOf, On
  <2> QED BY <2>1, <2>2, <2>3 DEF ChangeOf, On, Over
<1>4. CASE SelectFamilies(r)
  <2>1. /\ pc'[r] = IF Standing(r) = {} THEN "save" ELSE "revoke"
        /\ todo'[r] = Standing(r)
        /\ UNCHANGED <<hash, fam, inst, wrote, staged, before>>
    BY <1>4 DEF SelectFamilies, Goto, TypeOK, database, history
  <2>2. \A s \in before[r] : fam[s] # "live" \/ s \in Standing(r) \cup staged[r]
    BY DEF Standing, TypeOK
  <2> QED BY <1>1, <2>1, <2>2 DEF ChangeOf, On, Over, Kept
<1>5. CASE StoreError(r)
  <2>1. Abort(r)
    BY <1>5 DEF StoreError, Caught, On
  <2>2. pc'[r] = "done" /\ UNCHANGED <<hash, inst, before>>
    BY <2>1 DEF Abort, Goto, TypeOK, database
  <2> QED BY <1>1, <2>2 DEF ChangeOf, Kept
<1>6. CASE Save(r)
  <2>1. /\ pc[r] = "save" /\ pc'[r] = "commit" /\ save[r] = "all"
        /\ UNCHANGED <<fam, inst, staged, before>>
    BY <1>6 DEF Save, Goto, TypeOK, On, Shape, ShapeOf
  <2>2. CASE atomic[r]
    BY <1>6, <1>1, <2>1, <2>2 DEF Save, ChangeOf, On, Kept, Over
  <2>3. CASE ~atomic[r]
    BY <1>6, <2>1, <2>3 DEF ChangeOf, On, Over, Shape, ShapeOf
  <2> QED BY <2>2, <2>3
<1>7. CASE Open(r)
  BY <1>7 DEF Open, Shape, ShapeOf, On
<1>8. CASE Issued(r)
  BY <1>8 DEF Issued, Shape, ShapeOf, On
<1>9. CASE ReceiverRaises(r)
  BY <1>9 DEF ReceiverRaises, On
<1>10. CASE Commit(r)
  <2>1. /\ pc[r] = "commit" /\ pc'[r] = "done" /\ UNCHANGED <<inst, before>>
        /\ \A s \in staged[r] : fam'[s] # "live"
    BY <1>10 DEF Commit, Goto, TypeOK, Reason
  <2>2. Over(r, {})'
    BY <2>1, StaysOver DEF ChangeOf, On, Over
  <2> QED BY <2>1, <2>2 DEF ChangeOf
<1>11. CASE Fail(r)
  <2>1. pc'[r] = "done" /\ UNCHANGED <<hash, inst, before>>
    BY <1>11 DEF Fail, Abort, Goto, TypeOK, database
  <2> QED BY <1>1, <2>1 DEF ChangeOf, Kept
<1>12. CASE Release(r)
  <2>1. op'[r] = None
    BY <1>12 DEF Release, TypeOK
  <2> QED BY <2>1, NoneAssumption DEF ChangeOf, Operations
<1>13. ASSUME NEW s \in Sessions PROVE ~Authenticate(r, s) /\ ~Logout(r, s)
  BY DEF Authenticate, Logout, Begin
<1> QED BY <1>2, <1>3, <1>4, <1>5, <1>6, <1>7, <1>8, <1>9, <1>10, <1>11,
        <1>12, <1>13
   DEF Step, SetPassword, Edit, Begin

LEMMA ChangesStep ==
    ASSUME TypeOK, Shape, Made, Opened, Changes, NEW r \in Requests, Step(r)
    PROVE  Changes'
<1>1. Others(r) /\ InstBy(r)
  BY ShapeStep, InstStep DEF Shape, Made
<1>2. ChangeOf(r)'
  <2>1. CASE pc[r] = "idle"
    BY <2>1, ChangeBegins
  <2>2. CASE pc[r] # "idle" /\ On(r)
    BY <2>2, ChangeGoesOn DEF Changes
  <2>3. CASE pc[r] # "idle" /\ ~On(r)
    BY <1>1, <2>3, NoneAssumption
       DEF On, InstBy, ChangeOf, Shape, ShapeOf, Loaded, Operations
  <2> QED BY <2>1, <2>2, <2>3
<1>3. ASSUME NEW q \in Requests \ {r}, store = "orm", op[q] = "change"
      PROVE  ChangeOf(q)'
  <2>1. inst[q] \in Hashes /\ Same(q)
    BY <1>1, <1>3 DEF Others, Shape, ShapeOf, Loaded
  <2>2. Unpublished(q) => Unpublished(q)'
    BY <2>1, StaysUnpublished DEF Same
  <2>3. ASSUME NEW but, Over(q, but) PROVE Over(q, but)'
    BY <2>1, <2>3, StaysOver DEF Same, Over
  <2> QED BY <1>3, <2>1, <2>2, <2>3 DEF ChangeOf, Changes, Same
<1>4. ASSUME NEW q \in Requests \ {r} PROVE ChangeOf(q)'
  BY <1>1, <1>3 DEF ChangeOf, InstBy, Others, Same
<1> QED BY <1>2, <1>4 DEF Changes

-----------------------------------------------------------------------------
(* Logins and edits.                                                       *)

LEMMA WeakStays ==
    ASSUME NEW r \in Requests, Step(r)
    PROVE  weak' = weak
BY DEF Step, SetPassword, Edit, Authenticate, Logout, Begin, Revoke, Compare,
   SelectFamilies, StoreError, Save, Open, Issued, ReceiverRaises, Commit, Fail,
   Abort, Release

LEMMA QuietOwn ==
    ASSUME TypeOK, Shape, Made, Opened, NEW r \in Requests, Step(r), QuietOf(r)
    PROVE  QuietOf(r)'
<1>0. weak' = weak
  BY WeakStays
<1>1. CASE SetPassword(r)
  BY <1>1, SetPasswordEffect, NoneAssumption
     DEF Changing, Begun, QuietOf
<1>2. CASE Edit(r)
  BY <1>2, EditEffect, NoneAssumption
     DEF Editing, Begun, QuietOf, Shape, ShapeOf, database, history
<1>3. ASSUME NEW s \in Sessions, Authenticate(r, s) PROVE  QuietOf(r)'
  <2>1. /\ op'[r] = "login" /\ killed'[r] = {}
        /\ \/ /\ pc'[r] = "open" /\ inst'[r] = hash /\ save'[r] = None
              /\ hash' = hash /\ wrote'[r] = None
           \/ pc'[r] = "compare" /\ save'[r] = "password" /\ weak # {}
    BY <1>3, AuthenticateEffect
       DEF Entering, Begun, Shape, ShapeOf, database, history
  <2> QED BY <1>0, <2>1, NoneAssumption DEF QuietOf, Early, Saving, Seen, Fields
<1>4. ASSUME NEW s \in Sessions, Logout(r, s) PROVE  QuietOf(r)'
  BY <1>4, LogoutEffect DEF Leaving, Begun, QuietOf
<1>5. ASSUME NEW s \in Sessions, Revoke(r, s) PROVE  QuietOf(r)'
  <2>1. /\ pc[r] = "revoke"
        /\ pc'[r] \in {"revoke", "save"} \/ op[r] = "logout"
        /\ \/ killed'[r] = killed[r]
           \/ killed'[r] = killed[r] \cup {s} /\ s \in Standing(r)
        /\ UNCHANGED <<op, save, mine, rival>>
    BY <1>5 DEF Revoke, Goto, TypeOK
  <2>2. Early(r) => mine[r] \notin Standing(r)
    BY NoneAssumption DEF Standing, Unseen, Opened, Early
  <2>3. Early(r) => save[r] = "password"
    BY <2>1, NoneAssumption
       DEF Early, Shape, ShapeOf, Saving, Fields, Operations, TypeOK
  <2> QED BY <1>0, <1>5, <2>1, <2>2, <2>3 DEF QuietOf, Early, Saving, Revoke
<1>6. CASE Compare(r)
  <2>1. /\ pc[r] = "compare"
        /\ pc'[r] = IF Seen(r) \in {None, inst[r]} THEN "save" ELSE "select"
        /\ UNCHANGED <<op, save, mine, rival, hash, inst, wrote, killed>>
    BY <1>6 DEF Compare, Goto, TypeOK, Unchanged, database
  <2>2. hash = inst[r] => Seen(r) = inst[r]
    BY DEF Seen, Shape, ShapeOf
  <2> QED BY <1>0, <2>1, <2>2 DEF QuietOf, Early, Saving, Seen
<1>7. CASE SelectFamilies(r)
  <2>1. /\ pc[r] = "select" /\ pc'[r] \in {"save", "revoke"}
        /\ UNCHANGED <<op, save, mine, rival, hash, inst, wrote, killed>>
    BY <1>7 DEF SelectFamilies, Goto, TypeOK, database, history
  <2> QED BY <1>0, <2>1 DEF QuietOf, Early, Saving, Seen
<1>8. CASE StoreError(r)
  <2>1. /\ pc[r] \in {"select", "revoke"} /\ pc'[r] \in {"save", "done"}
        /\ killed'[r] \subseteq killed[r]
        /\ UNCHANGED <<op, save, mine, rival, hash, inst>>
    BY <1>8 DEF StoreError, Abort, Goto, TypeOK, database, history
  <2> QED BY <1>0, <2>1 DEF QuietOf, Early, Saving
<1>9. CASE Save(r)
  <2>1. /\ pc[r] = "save" /\ op[r] # "logout"
        /\ pc'[r] = IF save[r] = "password" THEN "open" ELSE "commit"
        /\ rival'[r] = rival[r]
        /\ UNCHANGED <<op, save, mine, inst, killed>>
    BY <1>9 DEF Save, Goto, TypeOK, Publish, Shape, ShapeOf
  <2>2. hash' \in {hash, inst[r]}
    BY <1>9 DEF Save, Publish
  <2>3. save[r] = "password" => Seen(r)' = inst[r]
    BY <1>9, NoneAssumption
       DEF Save, Publish, Seen, TypeOK, Shape, ShapeOf, Loaded, Fields
  <2>4. op[r] = "login" => save[r] \in {"password", "last_login"}
    BY <2>1 DEF Shape, ShapeOf, Saving, TypeOK, Fields
  <2> QED BY <1>0, <2>1, <2>2, <2>3, <2>4 DEF QuietOf, Early, Saving
<1>10. CASE Open(r)
  <2>1. /\ pc[r] = "open" /\ pc'[r] = "issued"
        /\ UNCHANGED <<op, save, mine, rival, hash, inst, wrote, killed>>
    BY <1>10 DEF Open, Goto, TypeOK
  <2> QED BY <1>0, <2>1 DEF QuietOf, Seen
<1>11. CASE Issued(r)
  <2>1. /\ pc[r] = "issued" /\ pc'[r] \in {"compare", "commit"}
        /\ save'[r] \in {save[r], "last_login"}
        /\ UNCHANGED <<op, mine, rival, hash, inst, wrote, killed>>
    BY <1>11 DEF Issued, Goto, TypeOK, database, history
  <2> QED BY <1>0, <2>1 DEF QuietOf, Early, Saving, Seen
<1>12. CASE ReceiverRaises(r)
  <2>1. /\ op[r] = "login" /\ pc'[r] = "commit"
        /\ killed'[r] \subseteq killed[r]
        /\ UNCHANGED <<op, save, mine, rival>>
    BY <1>12 DEF ReceiverRaises, Goto, TypeOK
  <2> QED BY <1>0, <2>1 DEF QuietOf
<1>13. CASE Commit(r)
  <2>1. /\ pc[r] = "commit" /\ pc'[r] = "done" /\ rival'[r] = rival[r]
        /\ UNCHANGED <<op, save, mine, inst, killed>>
    BY <1>13 DEF Commit, Goto, TypeOK, Publish
  <2>2. hash' \in {hash, inst[r]}
    BY <1>13 DEF Commit, Publish, Shape, ShapeOf
  <2> QED BY <1>0, <2>1, <2>2 DEF QuietOf
<1>14. CASE Fail(r)
  <2>1. /\ pc'[r] = "done" /\ killed'[r] \subseteq killed[r]
        /\ UNCHANGED <<op, save, mine, rival, hash, inst>>
    BY <1>14 DEF Fail, Abort, Goto, TypeOK, database
  <2> QED BY <1>0, <2>1 DEF QuietOf
<1>15. CASE Release(r)
  <2>1. op'[r] = None
    BY <1>15 DEF Release, TypeOK
  <2> QED BY <1>0, <2>1, NoneAssumption DEF QuietOf, Operations
<1> QED BY <1>1, <1>2, <1>3, <1>4, <1>5, <1>6, <1>7, <1>8, <1>9, <1>10,
        <1>11, <1>12, <1>13, <1>14, <1>15
   DEF Step

LEMMA QuietStep ==
    ASSUME TypeOK, Shape, Made, Opened, Quiet, NEW r \in Requests, Step(r)
    PROVE  Quiet'
<1>1. Others(r) /\ HashBy(r)
  BY ShapeStep, HashStep DEF Shape
<1>2. QuietOf(r)'
  BY QuietOwn DEF Quiet
<1>3. ASSUME NEW q \in Requests \ {r} PROVE QuietOf(q)'
  <2>1. CASE pc[q] = "idle"
    BY <1>1, <2>1, NoneAssumption
       DEF Others, Same, Shape, ShapeOf, QuietOf, Operations
  <2>2. CASE pc[q] # "idle"
    BY <1>1, <2>2, WeakStays
       DEF Others, Same, HashBy, Quiet, QuietOf, Early, Seen
  <2> QED BY <2>1, <2>2
<1> QED BY <1>2, <1>3 DEF Quiet

-----------------------------------------------------------------------------
(* The theorems.                                                           *)

LEMMA InvInit == Init => IInv
<1> SUFFICES ASSUME Init PROVE IInv
  OBVIOUS
<1>1. TypeOK
  BY DEF Init, TypeOK
<1>2. Shape
  BY NoneAssumption
     DEF Init, Shape, ShapeOf, Loaded, Saving, Operations, Fields
<1>3. Made
  BY NoneAssumption DEF Init, Made, Loaded, Operations
<1>4. Opened
  BY NoneAssumption DEF Init, Opened, Early, Operations
<1>5. Changes
  BY NoneAssumption DEF Init, Changes, ChangeOf, Operations
<1>6. Quiet
  BY NoneAssumption DEF Init, Quiet, QuietOf, Operations
<1> QED BY <1>1, <1>2, <1>3, <1>4, <1>5, <1>6 DEF IInv

LEMMA InvNext == IInv /\ [Next]_vars => IInv'
<1> SUFFICES ASSUME IInv, [Next]_vars PROVE IInv'
  OBVIOUS
<1>1. CASE UNCHANGED vars
  BY <1>1 DEF vars, database, local, history, IInv, TypeOK, Shape, ShapeOf,
     Made, Opened, Early, Changes, ChangeOf, Unpublished, Over, Quiet, QuietOf,
     Seen
<1>2. ASSUME NEW r \in Requests, Step(r) PROVE IInv'
  BY <1>2, ShapeStep, MadeStep, OpenedStep, ChangesStep, QuietStep DEF IInv
<1> QED BY <1>1, <1>2 DEF Next

LEMMA Invariance == Spec => []IInv
BY InvInit, InvNext, PTL DEF Spec

\* Every variable of PasswordChange keeps its type, and a request that is not
\* at work has nothing uncommitted.
THEOREM SavesTyped == Spec => []TypeOK
<1>1. IInv => TypeOK
  BY DEF IInv
<1> QED BY <1>1, Invariance, PTL

\* revoke_on_password_change(): under the ORM store nobody sees a changed
\* password beside a session that stood when the change was saved, however
\* many requests save, log in and log out at once, whatever fails, and whether
\* or not they run inside a transaction.
THEOREM ChangedMeansRevoked == Spec => []NewPasswordMeansRevoked
<1>1. IInv => NewPasswordMeansRevoked
  BY DEF IInv, Changes, ChangeOf, Unpublished, Over, NewPasswordMeansRevoked
<1> QED BY <1>1, Invariance, PTL

\* Unless another request saved a password meanwhile, an edit of the user ends
\* no session, nor does a login while no hash is outdated; and a login that
\* upgrades a hash ends the user's other sessions, never its own.
THEOREM WithoutAChangeNothingEnds == Spec => []UnchangedEndsNothing
<1>1. IInv => UnchangedEndsNothing
  BY DEF IInv, Quiet, QuietOf, UnchangedEndsNothing
<1> QED BY <1>1, Invariance, PTL

=============================================================================
