---------------------------- MODULE SignalsProofs ----------------------------
(***************************************************************************)
(* What the model of receivers promises, for any number of requests,       *)
(* families and receivers: no receiver changes an outcome, what receivers  *)
(* record is true, and what one writes in autocommit stays.                *)
(***************************************************************************)
EXTENDS Signals, SequenceTheorems, TLAPS

-----------------------------------------------------------------------------
(* The invariant.                                                          *)

Reporting == {"logout", "logout_all", "burn"}

\* r is in an atomic() of its own: that of open_session(), or of _redeem().
Within(r) ==
    \/ pc[r] \in {"open", "select", "end"}
    \/ pc[r] \in {"update", "family_revoked"} /\ op[r] # "burn"

\* What a request is called for, at each of its steps.
StepOf(r) ==
    /\ op[r] = None => pc[r] = "done" /\ answer[r] = None
    /\ op[r] # None => cur[r] \in Families
    /\ pc[r] \in {"open", "token_issued"} => op[r] = "login"
    /\ pc[r] = "select" => op[r] = "logout_all"
    /\ pc[r] \in {"update", "family_revoked"} => op[r] \in Reporting
    /\ pc[r] \in {"token_reuse_detected", "on_reuse_detected"} => op[r] = "burn"
    /\ pc[r] \in {"begin", "end"} => op[r] \in {"login", "logout", "logout_all"}
    /\ sending[r] # None => pc[r] \in Events
    /\ todo[r] # {} => op[r] = "logout_all" /\ pc[r] \in {"update", "family_revoked"}
    /\ op[r] \in {"login", "logout", "burn"} => promised[r] = {cur[r]}

\* One frame for a transaction of its own, one for the savepoint of a dispatch,
\* and at most one around them, ATOMIC_REQUESTS; a savepoint is inside one of
\* the others, holds rows of receivers only, and is all that can be broken.
Around(r) ==
    Depth(r) - (IF Within(r) THEN 1 ELSE 0) - (IF sending[r] = "saved" THEN 1 ELSE 0)

StackOf(r) ==
    /\ op[r] = None => frames[r] = <<>>
    /\ Around(r) \in {0, 1}
    /\ sending[r] = "bare" => Depth(r) = 0
    /\ sending[r] = "saved" =>
          Depth(r) >= 2 /\ frames[r][Depth(r)] \subseteq {"heard"} \X Rows
    /\ r \in broken => sending[r] = "saved"

Stacks == \A r \in Requests : StepOf(r) /\ StackOf(r)

\* The family of a login is nobody's until that has opened it, and stays: what r
\* has opened is not committed, and is what its login was called for.
LoginOf(r) ==
    /\ \A f \in Families : Opened(f) \in Pending(r) =>
          op[r] = "login" /\ cur[r] = f /\ fam[f] = "none"
    /\ op[r] = "login" =>
          IF pc[r] \in {"begin", "open"} THEN fam[cur[r]] = "none"
          ELSE answer[r] # "error" =>
                  fam[cur[r]] # "none" \/ Opened(cur[r]) \in Pending(r)

\* What r has revoked and not committed lived, and still does for the others.
RevokedOf(r) == \A f \in Families : Revoked(f) \in Pending(r) => fam[f] = "live"

\* The families r is to end exist; each has been ended, or is still to come.
PromiseOf(r) ==
    op[r] \in Reporting =>
        /\ \A f \in promised[r] \cup todo[r] \cup {cur[r]} : fam[f] # "none"
        /\ pc[r] \notin {"begin", "select"} /\ answer[r] # "error" =>
              \A f \in promised[r] :
                  \/ fam[f] = "revoked" \/ Revoked(f) \in Pending(r)
                  \/ pc[r] = "update" /\ f = cur[r]
                  \/ f \in todo[r]

\* No two logins are about one family, no two requests have ended the same, and
\* no two report the end of the same.
ApartFrom(r, s) ==
    /\ op[r] = "login" /\ op[s] = "login" => cur[r] # cur[s]
    /\ pc[r] = "family_revoked" /\ pc[s] = "family_revoked" => cur[r] # cur[s]
    /\ \A f \in Families : ~(Revoked(f) \in Pending(r) /\ Revoked(f) \in Pending(s))

Truth ==
    /\ \A r \in Requests : LoginOf(r) /\ RevokedOf(r) /\ PromiseOf(r)
    /\ \A r, s \in Requests : r # s => ApartFrom(r, s)

\* A row not committed tells of what is committed, or will be with it.
TellsOf(r) ==
    \A c \in Receivers, f \in Families :
        /\ Heard(<<c, "token_issued", f>>) \in Pending(r) =>
              fam[f] # "none" \/ Opened(f) \in Pending(r)
        /\ Heard(<<c, "family_revoked", f>>) \in Pending(r) => Revoked(f) \in Pending(r)

\* Who reports the end of a family has ended it, in the same transaction or in
\* autocommit; and then whoever has still to hear of it has recorded nothing yet.
ReportOf(r) ==
    pc[r] = "family_revoked" =>
        \/ Revoked(cur[r]) \in Pending(r)
        \/ /\ Depth(r) = 0 /\ fam[cur[r]] = "revoked"
           /\ \A c \in Receivers :
                 sending[r] = None \/ c \in queue[r] =>
                     heard[<<c, "family_revoked", cur[r]>>] = 0

Rowed ==
    /\ \A r \in Requests : TellsOf(r) /\ ReportOf(r)
    /\ RowsAreTrue

\* Types and stacks, which the rest stands on.
Base == TypeOK /\ Stacks

Inv == Base /\ Truth /\ Rowed

-----------------------------------------------------------------------------
(* What a stack of frames holds.                                           *)

Held(s) == UNION {s[i] : i \in 1..Len(s)}

Stack == Seq(SUBSET Changes)

LEMMA HeldEmpty == Held(<<>>) = {}
BY DEF Held

LEMMA HeldAppend ==
    ASSUME NEW s \in Stack
    PROVE  /\ Append(s, {}) \in Stack
           /\ Len(Append(s, {})) = Len(s) + 1
           /\ Append(s, {})[Len(s) + 1] = {}
           /\ Held(Append(s, {})) = Held(s)
<1> DEFINE t == Append(s, {})
<1>1. /\ t \in Stack /\ Len(s) \in Nat /\ Len(t) = Len(s) + 1
      /\ \A i \in 1..Len(s) : t[i] = s[i]
      /\ t[Len(s) + 1] = {}
  BY AppendProperties, LenProperties DEF Stack
<1> HIDE DEF t
<1>2. ASSUME NEW x PROVE x \in Held(t) <=> x \in Held(s)
  BY <1>1 DEF Held
<1> QED
  BY <1>1, <1>2 DEF t

LEMMA HeldWrite ==
    ASSUME NEW s \in Stack, Len(s) # 0, NEW w \in SUBSET Changes
    PROVE  LET t == [s EXCEPT ![Len(s)] = @ \cup w]
           IN  /\ t \in Stack /\ Len(t) = Len(s)
               /\ t[Len(s)] = s[Len(s)] \cup w
               /\ Held(t) = Held(s) \cup w
<1> DEFINE n == Len(s)
           t == [s EXCEPT ![n] = @ \cup w]
<1>1. n \in Nat /\ n \in 1..n /\ s \in [1..n -> SUBSET Changes]
  BY LenProperties DEF Stack
<1>2. s[n] \cup w \in SUBSET Changes
  BY <1>1
<1>3. /\ t \in Stack /\ Len(t) = n
      /\ \A i \in 1..n : t[i] = IF i = n THEN s[n] \cup w ELSE s[i]
  <2>1. t = [s EXCEPT ![n] = s[n] \cup w]
    OBVIOUS
  <2> HIDE DEF t
  <2> QED
    BY <1>1, <1>2, <2>1, ExceptSeq DEF Stack
<1> HIDE DEF t
<1>4. ASSUME NEW x PROVE x \in Held(t) <=> x \in Held(s) \cup w
  BY <1>1, <1>3 DEF Held
<1> QED
  BY <1>1, <1>3, <1>4 DEF t

\* What is left of a stack without its innermost frame, and with that kept by
\* the frame around it.
LEMMA HeldPop ==
    ASSUME NEW s \in Stack, Len(s) # 0
    PROVE  LET n     == Len(s)
               outer == SubSeq(s, 1, n - 1)
               merged == [outer EXCEPT ![n - 1] = @ \cup s[n]]
           IN  /\ s[n] \in SUBSET Changes
               /\ outer \in Stack /\ Len(outer) = n - 1
               /\ Held(s) = Held(outer) \cup s[n]
               /\ n = 1 => outer = <<>>
               /\ n # 1 => merged \in Stack /\ Len(merged) = n - 1 /\ Held(merged) = Held(s)
<1> DEFINE n == Len(s)
           outer == SubSeq(s, 1, n - 1)
           merged == [outer EXCEPT ![n - 1] = @ \cup s[n]]
<1>1. n \in Nat /\ n \in 1..n /\ s \in [1..n -> SUBSET Changes]
  BY LenProperties DEF Stack
<1>2. /\ outer \in Stack /\ Len(outer) = n - 1
      /\ \A i \in 1..(n - 1) : outer[i] = s[i]
  <2>1. \A i \in 1..(n - 1) : s[i] \in SUBSET Changes
    BY <1>1
  <2>2. /\ outer \in Stack
        /\ Len(outer) = IF 1 <= n - 1 THEN n - 1 - 1 + 1 ELSE 0
        /\ \A i \in 1..(n - 1 - 1 + 1) : outer[i] = s[1 + i - 1]
    BY <1>1, <2>1, SubSeqProperties DEF Stack
  <2> HIDE DEF outer
  <2>3. Len(outer) = n - 1
    <3> HIDE DEF n
    <3>1. CASE n = 1
      BY <2>2, <3>1
    <3>2. CASE n > 1
      BY <1>1, <2>2, <3>2
    <3> QED
      BY <1>1, <3>1, <3>2
  <2>4. ASSUME NEW i \in 1..(n - 1) PROVE outer[i] = s[i]
    <3>1. i \in 1..(n - 1 - 1 + 1) /\ 1 + i - 1 = i
      BY <1>1
    <3> QED
      BY <2>2, <3>1
  <2> QED
    BY <2>2, <2>3, <2>4
<1> HIDE DEF outer
<1>3. s[n] \in SUBSET Changes
  BY <1>1
<1>4. Held(s) = Held(outer) \cup s[n]
  <2>1. ASSUME NEW x PROVE x \in Held(s) <=> x \in Held(outer) \cup s[n]
    BY <1>1, <1>2 DEF Held
  <2> QED
    BY <2>1
<1>5. n = 1 => outer = <<>>
  BY <1>2, EmptySeq DEF Stack
<1>6. n # 1 => merged \in Stack /\ Len(merged) = n - 1 /\ Held(merged) = Held(outer) \cup s[n]
  <2> SUFFICES ASSUME n # 1
               PROVE  merged \in Stack /\ Len(merged) = n - 1
                      /\ Held(merged) = Held(outer) \cup s[n]
    OBVIOUS
  <2>1. PICK w : w = s[n]
    OBVIOUS
  <2>2. /\ Len(outer) # 0 /\ w \in SUBSET Changes
        /\ merged = [outer EXCEPT ![Len(outer)] = @ \cup w]
    BY <1>1, <1>2, <1>3, <2>1
  <2> HIDE DEF merged
  <2> QED
    BY <1>2, <2>1, <2>2, HeldWrite
<1> QED
  BY <1>1, <1>2, <1>3, <1>4, <1>5, <1>6 DEF outer

\* What a statement of r, the beginning and the end of one of its frames do to
\* what it has pending, and to the database.
OthersKept(r) ==
    /\ frames' \in [Requests -> Stack]
    /\ \A s \in Requests \ {r} : frames'[s] = frames[s]

Committed(w) == fam' = FamAfter(w) /\ heard' = HeardAfter(w)

LEMMA Frames == ASSUME TypeOK, NEW r \in Requests
                PROVE  frames[r] \in Stack /\ Depth(r) \in Nat
BY LenProperties DEF TypeOK, Stack, Depth

LEMMA StackUpdate ==
    ASSUME TypeOK, NEW r \in Requests, NEW t \in Stack,
           frames' = [frames EXCEPT ![r] = t]
    PROVE  /\ OthersKept(r) /\ frames'[r] = t
           /\ Pending(r)' = Held(t) /\ Depth(r)' = Len(t)
BY DEF TypeOK, OthersKept, Stack, Pending, Depth, Held

LEMMA PendingHeld == ASSUME NEW r PROVE Pending(r) = Held(frames[r])
BY DEF Pending, Held, Depth

LEMMA PushEffect ==
    ASSUME TypeOK, NEW r \in Requests, Push(r)
    PROVE  /\ OthersKept(r)
           /\ Depth(r)' = Depth(r) + 1 /\ frames'[r][Depth(r) + 1] = {}
           /\ Pending(r)' = Pending(r)
<1>1. PICK t : t = Append(frames[r], {})
  OBVIOUS
<1>2. frames' = [frames EXCEPT ![r] = t]
  BY <1>1 DEF Push
<1>3. t \in Stack /\ Len(t) = Depth(r) + 1 /\ t[Depth(r) + 1] = {} /\ Held(t) = Pending(r)
  BY <1>1, HeldAppend, Frames, PendingHeld DEF Depth
<1> QED
  BY <1>2, <1>3, StackUpdate

LEMMA WriteEffect ==
    ASSUME TypeOK, NEW r \in Requests, NEW w \in SUBSET Changes, Write(r, w)
    PROVE  /\ OthersKept(r) /\ Depth(r)' = Depth(r)
           /\ \/ Depth(r) = 0 /\ Pending(r)' = Pending(r) /\ Committed(w)
                 /\ frames'[r] = frames[r]
              \/ /\ Depth(r) # 0 /\ Pending(r)' = Pending(r) \cup w
                 /\ frames'[r][Depth(r)] = frames[r][Depth(r)] \cup w
                 /\ UNCHANGED database
<1>1. CASE Depth(r) = 0
  <2>1. frames' = [frames EXCEPT ![r] = frames[r]] /\ Committed(w)
    BY <1>1 DEF Write, Committed, TypeOK
  <2>2. frames[r] \in Stack /\ Held(frames[r]) = Pending(r)
    BY Frames, PendingHeld
  <2> QED
    BY <1>1, <2>1, <2>2, StackUpdate DEF Depth
<1>2. CASE Depth(r) # 0
  <2>1. PICK t : t = [frames[r] EXCEPT ![Depth(r)] = @ \cup w]
    OBVIOUS
  <2>2. frames' = [frames EXCEPT ![r] = t] /\ UNCHANGED database
    BY <1>2, <2>1 DEF Write, TypeOK
  <2>3. /\ t \in Stack /\ Len(t) = Depth(r) /\ Held(t) = Pending(r) \cup w
        /\ t[Depth(r)] = frames[r][Depth(r)] \cup w
    BY <1>2, <2>1, HeldWrite, Frames, PendingHeld DEF Depth
  <2> QED
    BY <1>2, <2>2, <2>3, StackUpdate
<1> QED
  BY <1>1, <1>2

LEMMA PopEffect ==
    ASSUME TypeOK, NEW r \in Requests, Depth(r) # 0, Pop(r)
    PROVE  /\ OthersKept(r) /\ Depth(r)' = Depth(r) - 1
           /\ broken' = broken \ {r}
           /\ frames[r][Depth(r)] \in SUBSET Changes
           /\ \/ /\ r \notin broken /\ Depth(r) = 1
                 /\ Pending(r)' = {} /\ Committed(Pending(r))
              \/ /\ r \notin broken /\ Depth(r) # 1
                 /\ Pending(r)' = Pending(r) /\ UNCHANGED database
              \/ /\ r \in broken
                 /\ Pending(r)' \subseteq Pending(r)
                 /\ Pending(r) \subseteq Pending(r)' \cup frames[r][Depth(r)]
                 /\ UNCHANGED database
<1> DEFINE n == Depth(r)
           outer == SubSeq(frames[r], 1, n - 1)
           within == [outer EXCEPT ![n - 1] = @ \cup frames[r][n]]
<1>1. /\ n \in Nat /\ frames[r][n] \in SUBSET Changes
      /\ outer \in Stack /\ Len(outer) = n - 1
      /\ Pending(r) = Held(outer) \cup frames[r][n]
      /\ n = 1 => outer = <<>>
      /\ n # 1 => within \in Stack /\ Len(within) = n - 1 /\ Held(within) = Pending(r)
  BY Frames, PendingHeld, HeldPop DEF Depth
<1>2. /\ broken' = broken \ {r}
      /\ r \in broken \/ n = 1 => frames' = [frames EXCEPT ![r] = outer]
      /\ ~(r \in broken \/ n = 1) => frames' = [frames EXCEPT ![r] = within]
      /\ n = 1 /\ r \notin broken => Committed(frames[r][n])
      /\ ~(n = 1 /\ r \notin broken) => UNCHANGED database
  <2>1. broken' = broken \ {r}
    BY DEF Pop
  <2>2. r \in broken \/ n = 1 => frames' = [frames EXCEPT ![r] = outer]
    BY <1>1 DEF Pop
  <2>3. ~(r \in broken \/ n = 1) => frames' = [frames EXCEPT ![r] = within]
    <3>1. frames' = [frames EXCEPT ![r] =
                        IF r \in broken \/ n - 1 = 0 THEN outer ELSE within]
      BY Zenon DEF Pop
    <3> HIDE DEF n, outer, within
    <3> QED
      BY <1>1, <3>1
  <2>4. n = 1 /\ r \notin broken => Committed(frames[r][n])
    BY <1>1 DEF Pop, Committed
  <2>5. ~(n = 1 /\ r \notin broken) => UNCHANGED database
    BY <1>1 DEF Pop
  <2> QED
    BY <2>1, <2>2, <2>3, <2>4, <2>5
<1> HIDE DEF n, outer, within
<1>3. CASE r \notin broken /\ n = 1
  <2>1. Pending(r) = frames[r][n] /\ Held(outer) = {}
    BY <1>1, <1>3, HeldEmpty
  <2> QED
    BY <1>1, <1>2, <1>3, <2>1, StackUpdate DEF n
<1>4. CASE r \notin broken /\ n # 1
  BY <1>1, <1>2, <1>4, StackUpdate DEF n
<1>5. CASE r \in broken
  BY <1>1, <1>2, <1>5, StackUpdate DEF n
<1> QED
  BY <1>3, <1>4, <1>5

-----------------------------------------------------------------------------
(* Steps of one request leave the others alone.                            *)

Step(r) ==
    \/ \E o \in Operations, f \in Families : Arrive(r, o, f)
    \/ Begin(r) \/ End(r)
    \/ OpenFamily(r) \/ SelectFamilies(r) \/ Update(r)
    \/ BeginSend(r) \/ (\E c \in Callees : Call(r, c)) \/ EndSend(r)
    \/ Answer(r) \/ Fail(r) \/ Release(r)

Untouched(s) ==
    /\ op'[s] = op[s] /\ pc'[s] = pc[s] /\ cur'[s] = cur[s] /\ todo'[s] = todo[s]
    /\ frames'[s] = frames[s] /\ (s \in broken' <=> s \in broken)
    /\ sending'[s] = sending[s] /\ queue'[s] = queue[s] /\ answer'[s] = answer[s]
    /\ promised'[s] = promised[s]

\* The request a step is of, and the step it comes from or goes to.
LEMMA GoOnSteps ==
    ASSUME TypeOK, NEW r \in Requests, NEW left \in SUBSET Families, GoOn(r, left)
    PROVE  /\ pc' \in [Requests -> Steps] /\ cur' \in [Requests -> Families \cup {None}]
           /\ todo[r] = {} \/ left # {} => todo' \in [Requests -> SUBSET Families]
           /\ \A s \in Requests \ {r} :
                 pc'[s] = pc[s] /\ cur'[s] = cur[s] /\ todo'[s] = todo[s]
           /\ \/ /\ left = {} /\ pc'[r] = AfterRevoking(op[r])
                 /\ cur' = cur /\ todo' = todo
              \/ /\ pc'[r] = "update" /\ cur'[r] \in left
                 /\ todo'[r] = left \ {cur'[r]}
<1>1. CASE left = {}
  <2>1. AfterRevoking(op[r]) \in Steps
    BY DEF AfterRevoking, Steps, Events
  <2> QED
    BY <1>1, <2>1 DEF GoOn, Proceed, TypeOK
<1>2. CASE left # {}
  <2>1. PICK f \in left : /\ pc' = [pc EXCEPT ![r] = "update"]
                          /\ cur' = [cur EXCEPT ![r] = f]
                          /\ todo' = [todo EXCEPT ![r] = left \ {f}]
    BY <1>2 DEF GoOn
  <2>2. "update" \in Steps
    BY DEF Steps
  <2> QED
    BY <1>2, <2>1, <2>2 DEF TypeOK
<1> QED
  BY <1>1, <1>2

LEMMA ProceedSteps ==
    ASSUME TypeOK, NEW r \in Requests, NEW p \in Steps, Proceed(r, p)
    PROVE  /\ pc' \in [Requests -> Steps] /\ cur' = cur /\ todo' = todo
           /\ \A s \in Requests \ {r} : pc'[s] = pc[s]
           /\ pc'[r] = p
BY DEF Proceed, TypeOK

LEMMA FollowingSteps == ASSUME NEW o, NEW p PROVE Following(o, p) \in Steps
BY DEF Following, Steps, Events

LEMMA CommittedTypes ==
    ASSUME TypeOK, NEW w, Committed(w)
    PROVE  fam' \in [Families -> {"none", "live", "revoked"}] /\ heard' \in [Rows -> Counted]
<1>1. \A f \in Families : fam'[f] \in {"none", "live", "revoked"}
  BY DEF Committed, FamAfter, TypeOK
<1>2. \A row \in Rows : heard'[row] \in Counted
  BY DEF Committed, HeardAfter, TypeOK, Counted, CountUp
<1> QED
  BY <1>1, <1>2 DEF Committed, FamAfter, HeardAfter

LEMMA ChangesOf ==
    /\ \A f \in Families : Opened(f) \in Changes /\ Revoked(f) \in Changes
    /\ \A row \in Rows : Heard(row) \in Changes
BY DEF Changes, Opened, Revoked, Heard

LEMMA WhereFrames ==
    ASSUME Base, NEW r \in Requests
    PROVE  /\ At(r, "end") => Depth(r) # 0
           /\ sending[r] = "saved" => Depth(r) >= 2
           /\ r \in broken => sending[r] = "saved"
           /\ pc[r] # "done" => cur[r] \in Families /\ op[r] # None
           /\ sending[r] # None => pc[r] \in Events /\ pc[r] # "done"
<1>1. StepOf(r) /\ StackOf(r) /\ Depth(r) \in Nat
  BY Frames DEF Base, Stacks
<1>2. pc[r] = "end" => Depth(r) # 0
  BY <1>1 DEF StackOf, Around, Within
<1> QED
  BY <1>1, <1>2 DEF StepOf, StackOf, At, Events

LEMMA UpdateSteps ==
    ASSUME Base, NEW r \in Requests, Update(r)
    PROVE  /\ pc' \in [Requests -> Steps] /\ cur' \in [Requests -> Families \cup {None}]
           /\ todo' \in [Requests -> SUBSET Families]
           /\ \A s \in Requests \ {r} :
                 pc'[s] = pc[s] /\ cur'[s] = cur[s] /\ todo'[s] = todo[s]
           /\ \/ /\ Stands(r, cur[r])
                 /\ pc'[r] = "family_revoked" /\ cur' = cur /\ todo' = todo
              \/ /\ ~Stands(r, cur[r]) /\ GoOn(r, todo[r])
<1> TypeOK /\ todo[r] \in SUBSET Families /\ "family_revoked" \in Steps
  BY DEF Base, TypeOK, Steps, Events
<1>1. CASE Stands(r, cur[r])
  BY <1>1, ProceedSteps DEF Update, AfterUpdate, TypeOK
<1>2. CASE ~Stands(r, cur[r])
  <2>1. GoOn(r, todo[r])
    BY <1>2 DEF Update, AfterUpdate
  <2> QED
    BY <1>2, <2>1, GoOnSteps
<1> QED
  BY <1>1, <1>2

LEMMA EndSendSteps ==
    ASSUME Base, NEW r \in Requests, EndSend(r)
    PROVE  /\ pc' \in [Requests -> Steps] /\ cur' \in [Requests -> Families \cup {None}]
           /\ todo' \in [Requests -> SUBSET Families]
           /\ \A s \in Requests \ {r} :
                 pc'[s] = pc[s] /\ cur'[s] = cur[s] /\ todo'[s] = todo[s]
           /\ \/ pc[r] = "family_revoked" /\ GoOn(r, todo[r])
              \/ /\ pc[r] # "family_revoked" /\ pc'[r] = Following(op[r], pc[r])
                 /\ cur' = cur /\ todo' = todo
<1> TypeOK /\ todo[r] \in SUBSET Families
  BY DEF Base, TypeOK
<1>1. CASE pc[r] = "family_revoked"
  BY <1>1, GoOnSteps DEF EndSend
<1>2. CASE pc[r] # "family_revoked"
  BY <1>2, ProceedSteps, FollowingSteps DEF EndSend, TypeOK
<1> QED
  BY <1>1, <1>2

LEMMA OthersUntouched ==
    ASSUME Base, NEW r \in Requests, Step(r), NEW s \in Requests, s # r
    PROVE  Untouched(s)
<1> TypeOK
  BY DEF Base
<1> USE DEF Untouched, history
<1>1. ASSUME NEW o \in Operations, NEW f \in Families, Arrive(r, o, f)
      PROVE  Untouched(s)
  <2>1. frames'[s] = frames[s]
    BY <1>1, PushEffect DEF Arrive, OthersKept
  <2> QED
    BY <1>1, <2>1 DEF Arrive, TypeOK
<1>2. CASE Begin(r)
  BY <1>2, PushEffect, ProceedSteps, FollowingSteps DEF Begin, OthersKept
<1>3. CASE End(r)
  BY <1>3, PopEffect, ProceedSteps, FollowingSteps, WhereFrames DEF End, OthersKept
<1>4. CASE OpenFamily(r)
  <2>1. {Opened(cur[r])} \in SUBSET Changes
    BY <1>4, WhereFrames, ChangesOf DEF OpenFamily, At
  <2> QED
    BY <1>4, <2>1, WriteEffect, ProceedSteps, FollowingSteps DEF OpenFamily, OthersKept
<1>5. CASE SelectFamilies(r)
  <2>1. PICK left \in SUBSET Families :
           GoOn(r, left) /\ promised' = [promised EXCEPT ![r] = left]
    BY <1>5 DEF SelectFamilies
  <2>2. pc'[s] = pc[s] /\ cur'[s] = cur[s] /\ todo'[s] = todo[s]
    BY <2>1, GoOnSteps
  <2>3. promised'[s] = promised[s]
    BY <2>1 DEF TypeOK
  <2> QED
    BY <1>5, <2>2, <2>3 DEF SelectFamilies
<1>6. CASE Update(r)
  <2>1. {Revoked(cur[r])} \in SUBSET Changes
    BY <1>6, WhereFrames, ChangesOf DEF Update, At
  <2>2. frames'[s] = frames[s]
    BY <1>6, <2>1, WriteEffect DEF Update, OthersKept
  <2> QED
    BY <1>6, <2>2, UpdateSteps DEF Update
<1>7. CASE BeginSend(r)
  <2>1. frames'[s] = frames[s]
    BY <1>7, PushEffect DEF BeginSend, OthersKept
  <2> QED
    BY <1>7, <2>1 DEF BeginSend, TypeOK
<1>8. ASSUME NEW c \in Callees, Call(r, c) PROVE Untouched(s)
  <2>1. frames'[s] = frames[s]
    <3>1. CASE UNCHANGED frames
      BY <3>1
    <3>2. CASE <<c, pc[r], cur[r]>> \in Rows /\ Write(r, {Heard(<<c, pc[r], cur[r]>>)})
      BY <3>2, WriteEffect, ChangesOf DEF OthersKept
    <3> QED
      BY <1>8, <3>1, <3>2 DEF Call
  <2>2. s \in broken' <=> s \in broken
    BY <1>8 DEF Call
  <2>3. queue'[s] = queue[s]
    BY <1>8 DEF Call, TypeOK
  <2> QED
    BY <1>8, <2>1, <2>2, <2>3 DEF Call
<1>9. CASE EndSend(r)
  <2>1. frames'[s] = frames[s] /\ (s \in broken' <=> s \in broken)
    BY <1>9, PopEffect, WhereFrames, Frames DEF EndSend, OthersKept
  <2>2. pc'[s] = pc[s] /\ cur'[s] = cur[s] /\ todo'[s] = todo[s]
    BY <1>9, EndSendSteps
  <2>3. sending'[s] = sending[s]
    BY <1>9 DEF EndSend, TypeOK
  <2> QED
    BY <1>9, <2>1, <2>2, <2>3 DEF EndSend
<1>10. CASE Answer(r)
  <2>1. frames'[s] = frames[s] /\ (s \in broken' <=> s \in broken)
    BY <1>10, PopEffect DEF Answer, OthersKept
  <2> QED
    BY <1>10, <2>1 DEF Answer, TypeOK
<1>11. CASE Fail(r) \/ Release(r)
  BY <1>11 DEF Fail, Release, TypeOK
<1> QED
  BY <1>1, <1>2, <1>3, <1>4, <1>5, <1>6, <1>7, <1>8, <1>9, <1>10, <1>11 DEF Step

-----------------------------------------------------------------------------
(* Types and stacks are kept.                                              *)

DbTyped ==
    fam \in [Families -> {"none", "live", "revoked"}] /\ heard \in [Rows -> Counted]

StepsTyped ==
    /\ pc \in [Requests -> Steps]
    /\ cur \in [Requests -> Families \cup {None}]
    /\ todo \in [Requests -> SUBSET Families]

RestTyped ==
    /\ op \in [Requests -> Operations \cup {None}]
    /\ broken \subseteq Requests
    /\ sending \in [Requests -> {None, "bare", "saved"}]
    /\ queue \in [Requests -> SUBSET Callees]
    /\ answer \in [Requests -> {None, "ok", "error"}]
    /\ promised \in [Requests -> SUBSET Families]
    /\ kept \subseteq Rows
    /\ sent \in [Families -> Counted]

OverOf(r) ==
    /\ sending[r] = None => queue[r] = {}
    /\ answer[r] # None => frames[r] = <<>> /\ pc[r] = "done"

LEMMA TypeParts ==
    TypeOK <=> /\ DbTyped /\ StepsTyped /\ RestTyped
               /\ frames \in [Requests -> Stack]
               /\ \A r \in Requests : OverOf(r)
BY DEF TypeOK, DbTyped, StepsTyped, RestTyped, Stack, OverOf

BaseOf(r) ==
    /\ DbTyped /\ StepsTyped /\ RestTyped /\ frames \in [Requests -> Stack]
    /\ OverOf(r) /\ StepOf(r) /\ StackOf(r)

LEMMA UntouchedBase ==
    ASSUME Base, NEW s \in Requests, Untouched(s)
    PROVE  OverOf(s)' /\ StepOf(s)' /\ StackOf(s)'
<1>1. OverOf(s) /\ StepOf(s) /\ StackOf(s)
  BY TypeParts DEF Base, Stacks
<1>2. OverOf(s)'
  BY <1>1 DEF OverOf, Untouched
<1>3. StepOf(s)'
  BY <1>1 DEF StepOf, Untouched
<1>4. StackOf(s)'
  BY <1>1 DEF StackOf, Untouched, Around, Within, Depth
<1> QED
  BY <1>2, <1>3, <1>4

\* What holds of r where it runs.
LEMMA BaseHere ==
    ASSUME Base, NEW r \in Requests
    PROVE  /\ TypeOK /\ BaseOf(r) /\ Depth(r) \in Nat
           /\ OverOf(r) /\ StepOf(r) /\ StackOf(r)
BY TypeParts, Frames DEF Base, Stacks, BaseOf

LEMMA ArriveBase ==
    ASSUME Base, NEW r \in Requests, NEW o \in Operations, NEW f \in Families,
           Arrive(r, o, f)
    PROVE  BaseOf(r)'
<1> TypeOK /\ BaseOf(r) /\ Depth(r) \in Nat
  BY BaseHere
<1>1. DbTyped' /\ StepsTyped' /\ RestTyped'
  <2>1. First(o) \in Steps
    BY DEF First, Steps
  <2> QED
    BY <2>1 DEF BaseOf, DbTyped, StepsTyped, RestTyped, Arrive, database
<1>2. frames[r] = <<>> /\ Depth(r) = 0 /\ answer[r] = None /\ sending[r] = None /\ todo[r] = {}
  BY DEF BaseOf, StepOf, StackOf, Arrive, Depth, Events, Operations
<1>3. frames' \in [Requests -> Stack] /\ Depth(r)' \in {0, 1}
  <2>1. CASE Push(r)
    BY <1>2, <2>1, PushEffect DEF OthersKept
  <2>2. CASE UNCHANGED frames
    BY <1>2, <2>2 DEF BaseOf, Depth
  <2> QED
    BY <2>1, <2>2 DEF Arrive
<1>4. /\ pc'[r] = First(o) /\ op'[r] = o /\ cur'[r] = f /\ promised'[r] = {f}
      /\ sending'[r] = None /\ answer'[r] = None /\ todo'[r] = {} /\ queue'[r] = {}
      /\ (r \in broken' <=> r \in broken)
  BY <1>2 DEF Arrive, TypeOK
<1>5. OverOf(r)' /\ StepOf(r)'
  BY <1>4, NoneAssumption DEF OverOf, StepOf, First, Operations, Reporting
<1>6. StackOf(r)'
  <2>1. ~Within(r)'
    BY <1>4 DEF Within, First
  <2>2. Around(r)' \in {0, 1}
    BY <1>3, <1>4, <2>1, NoneAssumption DEF Around
  <2> QED
    BY <1>2, <1>4, <2>2, NoneAssumption DEF StackOf, BaseOf, Operations
<1> QED
  BY <1>1, <1>3, <1>5, <1>6 DEF BaseOf

LEMMA BeginBase ==
    ASSUME Base, NEW r \in Requests, Begin(r)
    PROVE  BaseOf(r)'
<1> TypeOK /\ BaseOf(r) /\ Depth(r) \in Nat
  BY BaseHere
<1>1. /\ OthersKept(r) /\ Depth(r)' = Depth(r) + 1
      /\ pc' \in [Requests -> Steps] /\ cur' = cur /\ todo' = todo
      /\ pc'[r] = Following(op[r], "begin") /\ pc[r] = "begin" /\ sending[r] = None
  BY PushEffect, ProceedSteps, FollowingSteps DEF Begin, At
<1>2. DbTyped' /\ StepsTyped' /\ RestTyped'
  BY <1>1 DEF BaseOf, DbTyped, StepsTyped, RestTyped, Begin, database, history
<1>3. OverOf(r)' /\ StepOf(r)'
  BY <1>1 DEF BaseOf, OverOf, StepOf, Begin, history, Following, Reporting
<1>4. StackOf(r)'
  <2>1. Within(r)' /\ ~Within(r)
    BY <1>1 DEF Within, Following, BaseOf, StepOf, Begin
  <2>2. Around(r)' = Around(r)
    BY <1>1, <2>1, NoneAssumption DEF Around, Begin
  <2> QED
    BY <1>1, <2>2, NoneAssumption DEF StackOf, BaseOf, StepOf, Begin
<1> QED
  BY <1>1, <1>2, <1>3, <1>4 DEF BaseOf, OthersKept

LEMMA EndBase ==
    ASSUME Base, NEW r \in Requests, End(r)
    PROVE  BaseOf(r)'
<1> TypeOK /\ BaseOf(r) /\ Depth(r) \in Nat
  BY BaseHere
<1>1. /\ OthersKept(r) /\ Depth(r)' = Depth(r) - 1 /\ broken' = broken \ {r}
      /\ pc' \in [Requests -> Steps] /\ cur' = cur /\ todo' = todo
      /\ pc'[r] = Following(op[r], "end") /\ pc[r] = "end" /\ sending[r] = None
  BY PopEffect, WhereFrames, ProceedSteps, FollowingSteps DEF End, At
<1>2. DbTyped'
  <2>1. CASE UNCHANGED database
    BY <2>1 DEF BaseOf, DbTyped, database
  <2>2. CASE Committed(Pending(r))
    BY <2>2, CommittedTypes DEF DbTyped
  <2> QED
    BY <2>1, <2>2, PopEffect, WhereFrames DEF End
<1>3. StepsTyped' /\ RestTyped'
  BY <1>1 DEF BaseOf, StepsTyped, RestTyped, End, history
<1>4. OverOf(r)' /\ StepOf(r)'
  BY <1>1 DEF BaseOf, OverOf, StepOf, End, history, Following, Reporting
<1>5. StackOf(r)'
  <2>1. ~Within(r)' /\ Within(r)
    BY <1>1 DEF Within, Following
  <2>2. Around(r)' = Around(r)
    BY <1>1, <2>1, NoneAssumption DEF Around, End
  <2> QED
    BY <1>1, <2>2, NoneAssumption DEF StackOf, BaseOf, StepOf, End
<1> QED
  BY <1>1, <1>2, <1>3, <1>4, <1>5 DEF BaseOf, OthersKept

LEMMA OpenFamilyBase ==
    ASSUME Base, NEW r \in Requests, OpenFamily(r)
    PROVE  BaseOf(r)'
<1> TypeOK /\ BaseOf(r) /\ Depth(r) \in Nat
  BY BaseHere
<1>1. {Opened(cur[r])} \in SUBSET Changes
  BY WhereFrames, ChangesOf DEF OpenFamily, At
<1>2. /\ OthersKept(r) /\ Depth(r)' = Depth(r)
      /\ Committed({Opened(cur[r])}) \/ UNCHANGED database
      /\ pc' \in [Requests -> Steps] /\ cur' = cur /\ todo' = todo
      /\ pc'[r] = "end" /\ pc[r] = "open" /\ sending[r] = None
  BY <1>1, WriteEffect, ProceedSteps, FollowingSteps DEF OpenFamily, At, Following
<1>3. DbTyped'
  BY <1>2, CommittedTypes DEF DbTyped, BaseOf, database
<1>4. StepsTyped' /\ RestTyped'
  BY <1>2 DEF BaseOf, StepsTyped, RestTyped, OpenFamily, history
<1>5. OverOf(r)' /\ StepOf(r)'
  BY <1>2 DEF BaseOf, OverOf, StepOf, OpenFamily, history, Reporting
<1>6. StackOf(r)'
  <2>1. Around(r)' = Around(r)
    BY <1>2 DEF Around, Within, OpenFamily
  <2> QED
    BY <1>2, <2>1, NoneAssumption DEF StackOf, BaseOf, StepOf, OpenFamily
<1> QED
  BY <1>2, <1>3, <1>4, <1>5, <1>6 DEF BaseOf, OthersKept

LEMMA SelectFamiliesBase ==
    ASSUME Base, NEW r \in Requests, SelectFamilies(r)
    PROVE  BaseOf(r)'
<1> TypeOK /\ BaseOf(r) /\ Depth(r) \in Nat
  BY BaseHere
<1>1. PICK left \in SUBSET Families :
         GoOn(r, left) /\ promised' = [promised EXCEPT ![r] = left]
  BY DEF SelectFamilies
<1>2. pc[r] = "select" /\ sending[r] = None /\ op[r] = "logout_all" /\ todo[r] = {}
  BY DEF SelectFamilies, At, BaseOf, StepOf
<1>3. /\ pc' \in [Requests -> Steps] /\ cur' \in [Requests -> Families \cup {None}]
      /\ todo' \in [Requests -> SUBSET Families]
      /\ \/ pc'[r] = "end" /\ cur' = cur /\ todo' = todo
         \/ pc'[r] = "update" /\ cur'[r] \in left
  BY <1>1, <1>2, GoOnSteps DEF AfterRevoking
<1>4. DbTyped' /\ StepsTyped' /\ RestTyped'
  BY <1>1, <1>3 DEF BaseOf, DbTyped, StepsTyped, RestTyped, SelectFamilies, database
<1>5. OverOf(r)' /\ StepOf(r)'
  BY <1>1, <1>2, <1>3, <1>4, NoneAssumption
     DEF BaseOf, OverOf, StepOf, SelectFamilies, Reporting, StepsTyped
<1>6. StackOf(r)'
  <2>1. Within(r)' /\ Within(r) /\ Depth(r)' = Depth(r)
    BY <1>2, <1>3 DEF Within, SelectFamilies, Depth
  <2>2. Around(r)' = Around(r)
    BY <2>1 DEF Around, SelectFamilies
  <2> QED
    BY <1>2, <2>1, <2>2, NoneAssumption DEF StackOf, BaseOf, StepOf, SelectFamilies
<1> QED
  BY <1>4, <1>5, <1>6 DEF BaseOf, SelectFamilies

LEMMA UpdateBase ==
    ASSUME Base, NEW r \in Requests, Update(r)
    PROVE  BaseOf(r)'
<1> TypeOK /\ BaseOf(r) /\ Depth(r) \in Nat
  BY BaseHere
<1>1. /\ pc[r] = "update" /\ sending[r] = None /\ cur[r] \in Families
      /\ op[r] \in Reporting /\ answer[r] = None
  BY WhereFrames DEF Update, At, BaseOf, StepOf, OverOf
<1>2. /\ frames' \in [Requests -> Stack] /\ Depth(r)' = Depth(r)
      /\ Committed({Revoked(cur[r])}) \/ UNCHANGED database
  <2>1. CASE Stands(r, cur[r])
    <3>1. {Revoked(cur[r])} \in SUBSET Changes
      BY <1>1, ChangesOf
    <3> QED
      BY <2>1, <3>1, WriteEffect DEF Update, OthersKept
  <2>2. CASE ~Stands(r, cur[r])
    BY <2>2 DEF Update, BaseOf, Depth
  <2> QED
    BY <2>1, <2>2
<1>3. /\ StepsTyped'
      /\ \/ pc'[r] \in {"family_revoked", AfterRevoking(op[r])} /\ cur' = cur /\ todo' = todo
         \/ pc'[r] = "update" /\ cur'[r] \in todo[r] /\ todo[r] # {}
  <2>1. todo[r] \in SUBSET Families
    BY DEF TypeOK
  <2> QED
    BY <2>1, UpdateSteps, GoOnSteps DEF StepsTyped
<1>4. pc'[r] = AfterRevoking(op[r]) /\ todo'[r] = todo[r] => todo'[r] = {}
  <2>1. todo[r] \in SUBSET Families
    BY DEF TypeOK
  <2> QED
    BY <1>1, <2>1, UpdateSteps, GoOnSteps DEF AfterRevoking
<1>5. DbTyped' /\ RestTyped'
  BY <1>2, CommittedTypes DEF BaseOf, DbTyped, RestTyped, Update, database, history
<1>6. OverOf(r)' /\ StepOf(r)'
  BY <1>1, <1>3, <1>4, NoneAssumption
     DEF BaseOf, OverOf, StepOf, Update, Reporting, StepsTyped, AfterRevoking, history
<1>7. StackOf(r)'
  <2>1. Within(r)' = Within(r)
    BY <1>1, <1>3 DEF Within, Update, AfterRevoking, Reporting
  <2>2. Around(r)' = Around(r)
    BY <1>2, <2>1 DEF Around, Update
  <2> QED
    BY <1>1, <2>2, NoneAssumption DEF StackOf, BaseOf, StepOf, Update, Reporting
<1> QED
  BY <1>2, <1>3, <1>5, <1>6, <1>7 DEF BaseOf

LEMMA BeginSendBase ==
    ASSUME Base, NEW r \in Requests, BeginSend(r)
    PROVE  BaseOf(r)'
<1> TypeOK /\ BaseOf(r) /\ Depth(r) \in Nat
  BY BaseHere
<1>1. /\ pc[r] \in Events /\ sending[r] = None /\ cur[r] \in Families /\ op[r] # None
      /\ answer[r] = None /\ r \notin broken
  BY WhereFrames, NoneAssumption DEF BeginSend, At, BaseOf, OverOf, Events, StackOf
<1>2. sending'[r] = IF Depth(r) > 0 THEN "saved" ELSE "bare"
  BY DEF BeginSend, Saved, TypeOK
<1>3. /\ frames' \in [Requests -> Stack]
      /\ Depth(r) > 0 => Depth(r)' = Depth(r) + 1 /\ frames'[r][Depth(r) + 1] = {}
      /\ ~(Depth(r) > 0) => Depth(r)' = Depth(r)
  BY PushEffect DEF BeginSend, Saved, OthersKept, BaseOf, Depth
<1>4. RestTyped'
  <2>1. sent' \in [Families -> Counted]
    BY <1>1 DEF BeginSend, TypeOK, Counted, CountUp
  <2>2. queue' \in [Requests -> SUBSET Callees]
    BY DEF BeginSend, TypeOK, Callees
  <2> QED
    BY <1>2, <2>1, <2>2 DEF BeginSend, BaseOf, RestTyped
<1>5. DbTyped' /\ StepsTyped'
  BY DEF BeginSend, BaseOf, DbTyped, StepsTyped, database
<1>6. OverOf(r)' /\ StepOf(r)'
  BY <1>1, <1>2, NoneAssumption DEF BaseOf, OverOf, StepOf, BeginSend
<1>7. StackOf(r)'
  <2>1. Within(r)' = Within(r)
    BY DEF Within, BeginSend
  <2>2. Around(r)' = Around(r)
    BY <1>1, <1>2, <1>3, <2>1, NoneAssumption DEF Around
  <2>3. Around(r) \in {0, 1} /\ op'[r] # None /\ r \notin broken'
    BY <1>1 DEF BaseOf, StackOf, BeginSend
  <2> QED
    BY <1>2, <1>3, <2>2, <2>3, NoneAssumption DEF StackOf
<1> QED
  BY <1>3, <1>4, <1>5, <1>6, <1>7 DEF BaseOf

\* What a callee does to the frames and to the database: it writes its row, or
\* nothing.
LEMMA CallEffect ==
    ASSUME Base, NEW r \in Requests, NEW c \in Callees, Call(r, c)
    PROVE  LET row == <<c, pc[r], cur[r]>>
           IN  /\ OthersKept(r) /\ Depth(r)' = Depth(r)
               /\ \/ UNCHANGED <<database, frames>>
                  \/ /\ row \in Rows /\ r \notin broken
                     /\ Heard(row) \in Changes /\ Write(r, {Heard(row)})
<1> DEFINE row == <<c, pc[r], cur[r]>>
<1> TypeOK
  BY DEF Base
<1>1. CASE UNCHANGED <<database, frames>>
  BY <1>1, TypeParts DEF OthersKept, Depth
<1>2. CASE row \in Rows /\ r \notin broken /\ Write(r, {Heard(row)})
  BY <1>2, WriteEffect, ChangesOf
<1> QED
  BY <1>1, <1>2 DEF Call

LEMMA CallBase ==
    ASSUME Base, NEW r \in Requests, NEW c \in Callees, Call(r, c)
    PROVE  BaseOf(r)'
<1> TypeOK /\ BaseOf(r) /\ Depth(r) \in Nat
  BY BaseHere
<1> DEFINE row == <<c, pc[r], cur[r]>>
<1>1. sending[r] # None /\ sending' = sending /\ pc[r] \in Events
  BY WhereFrames DEF Call
<1>2. /\ frames' \in [Requests -> Stack] /\ Depth(r)' = Depth(r)
      /\ DbTyped'
  <2>1. Heard(row) \in Changes /\ Write(r, {Heard(row)}) => DbTyped'
    BY WriteEffect, CommittedTypes DEF DbTyped, BaseOf, database
  <2> QED
    BY <2>1, CallEffect DEF OthersKept, BaseOf, DbTyped, database
<1>3. StepsTyped' /\ RestTyped'
  <2>1. queue' \in [Requests -> SUBSET Callees]
    <3>1. PICK q \in SUBSET Callees : queue' = [queue EXCEPT ![r] = q]
      <4>1. queue[r] \ {c} \in SUBSET Callees /\ {} \in SUBSET Callees
        BY DEF TypeOK
      <4> QED
        BY <4>1 DEF Call
    <3> QED
      BY <3>1 DEF TypeOK
  <2>2. broken' \subseteq Requests
    BY DEF Call, TypeOK
  <2>3. kept' \subseteq Rows
    <3>1. kept' = kept \/ (row \in Rows /\ kept' = kept \cup {row})
      BY DEF Call
    <3> QED
      BY <3>1 DEF TypeOK
  <2> QED
    BY <2>1, <2>2, <2>3 DEF Call, BaseOf, StepsTyped, RestTyped
<1>4. OverOf(r)' /\ StepOf(r)'
  <2>1. answer'[r] = answer[r] /\ sending'[r] # None
    BY <1>1 DEF Call
  <2>2. answer[r] = None
    BY <1>1 DEF BaseOf, OverOf, Events
  <2> QED
    BY <2>1, <2>2 DEF BaseOf, OverOf, StepOf, Call
<1>5. StackOf(r)'
  <2>1. Around(r)' = Around(r)
    BY <1>1, <1>2 DEF Around, Within, Call
  <2>2. r \in broken' => sending'[r] = "saved"
    BY <1>1 DEF Call, BaseOf, StackOf, TypeOK
  <2>3. ASSUME sending[r] = "saved"
        PROVE  frames'[r][Depth(r)] \subseteq {"heard"} \X Rows
    <3>1. /\ frames[r][Depth(r)] \subseteq {"heard"} \X Rows /\ Depth(r) # 0
      BY <2>3 DEF BaseOf, StackOf
    <3>2. CASE row \in Rows /\ Heard(row) \in Changes /\ Write(r, {Heard(row)})
      <4>1. frames'[r][Depth(r)] = frames[r][Depth(r)] \cup {Heard(row)}
        BY <3>1, <3>2, WriteEffect
      <4> QED
        BY <3>1, <3>2, <4>1 DEF Heard
    <3> QED
      BY <3>1, <3>2, CallEffect
  <2>4. op'[r] # None
    BY <1>1 DEF Call, BaseOf, StepOf, Events
  <2> QED
    BY <1>1, <1>2, <2>1, <2>2, <2>3, <2>4 DEF StackOf, BaseOf
<1> QED
  BY <1>2, <1>3, <1>4, <1>5 DEF BaseOf

LEMMA EndSendBase ==
    ASSUME Base, NEW r \in Requests, EndSend(r)
    PROVE  BaseOf(r)'
<1> TypeOK /\ BaseOf(r) /\ Depth(r) \in Nat /\ StepOf(r) /\ StackOf(r)
  BY BaseHere
<1>1. /\ sending[r] # None /\ pc[r] \in Events /\ op[r] # None /\ answer[r] = None
      /\ queue[r] = {}
  BY WhereFrames DEF EndSend, BaseOf, OverOf
<1>2. sending'[r] = None /\ queue'[r] = {} /\ answer'[r] = None /\ op'[r] = op[r]
      /\ promised'[r] = promised[r]
  BY <1>1 DEF EndSend, TypeOK, history
<1>3. /\ frames' \in [Requests -> Stack] /\ DbTyped' /\ broken' = broken \ {r}
      /\ Depth(r)' = Depth(r) - (IF sending[r] = "saved" THEN 1 ELSE 0)
  <2>1. CASE sending[r] = "saved"
    <3>1. Depth(r) # 0 /\ Pop(r)
      BY <2>1, WhereFrames DEF EndSend
    <3>2. DbTyped'
      BY <3>1, PopEffect, CommittedTypes DEF DbTyped, BaseOf, database
    <3> QED
      BY <2>1, <3>1, <3>2, PopEffect DEF OthersKept
  <2>2. CASE sending[r] # "saved"
    BY <2>2 DEF EndSend, BaseOf, StackOf, DbTyped, database, Depth
  <2> QED
    BY <2>1, <2>2
<1>4. /\ StepsTyped'
      /\ \/ pc'[r] \in {AfterRevoking(op[r]), Following(op[r], pc[r])}
            /\ cur' = cur /\ todo' = todo /\ todo[r] = {}
            /\ (pc'[r] = AfterRevoking(op[r]) => pc[r] = "family_revoked"
                \/ pc'[r] = Following(op[r], pc[r]))
         \/ pc'[r] = "update" /\ cur'[r] \in todo[r] /\ pc[r] = "family_revoked"
  <2>1. StepsTyped'
    BY EndSendSteps DEF StepsTyped
  <2>2. todo[r] \in SUBSET Families
    BY DEF TypeOK
  <2>3. CASE pc[r] = "family_revoked" /\ GoOn(r, todo[r])
    BY <2>1, <2>2, <2>3, GoOnSteps
  <2>4. CASE /\ pc[r] # "family_revoked" /\ pc'[r] = Following(op[r], pc[r])
             /\ cur' = cur /\ todo' = todo
    BY <1>1, <2>1, <2>4 DEF BaseOf, StepOf, Events
  <2> QED
    BY <2>3, <2>4, EndSendSteps
<1>5. RestTyped'
  BY <1>3 DEF EndSend, BaseOf, RestTyped, history
<1>6. OverOf(r)' /\ StepOf(r)'
  <2>1. OverOf(r)'
    BY <1>2 DEF OverOf
  <2>2. cur'[r] \in Families
    BY <1>1, <1>4 DEF BaseOf, StepOf, StepsTyped
  <2>3. CASE pc'[r] = "update" /\ cur'[r] \in todo[r] /\ pc[r] = "family_revoked"
    BY <1>1, <1>2, <2>1, <2>2, <2>3 DEF StepOf, Reporting
  <2>4. CASE pc[r] = "family_revoked" /\ pc'[r] = AfterRevoking(op[r]) /\ cur' = cur
             /\ todo' = todo /\ todo[r] = {}
    BY <1>1, <1>2, <2>1, <2>2, <2>4 DEF StepOf, Reporting, AfterRevoking
  <2>5. CASE pc[r] # "family_revoked" /\ pc'[r] = Following(op[r], pc[r]) /\ cur' = cur
             /\ todo' = todo /\ todo[r] = {}
    BY <1>1, <1>2, <2>1, <2>2, <2>5 DEF StepOf, Following, Events
  <2> QED
    BY <1>4, <2>1, <2>3, <2>4, <2>5, EndSendSteps, GoOnSteps
<1>7. StackOf(r)'
  <2>1. Within(r)' = Within(r)
    <3>1. Within(r) <=> pc[r] = "family_revoked" /\ op[r] # "burn"
      BY <1>1 DEF Within, Events
    <3>2. CASE pc[r] = "family_revoked"
      <4>1. pc'[r] = "update" \/ pc'[r] = AfterRevoking(op[r])
        BY <3>2, EndSendSteps, GoOnSteps DEF TypeOK
      <4> QED
        BY <1>2, <3>1, <3>2, <4>1 DEF Within, AfterRevoking
    <3>3. CASE pc[r] # "family_revoked"
      <4>1. pc'[r] = Following(op[r], pc[r])
        BY <3>3, EndSendSteps
      <4> QED
        BY <1>1, <1>2, <3>1, <3>3, <4>1 DEF Within, Following, Events
    <3> QED
      BY <3>2, <3>3
  <2>2. Around(r)' = Around(r)
    BY <1>2, <1>3, <2>1, NoneAssumption DEF Around
  <2> QED
    BY <1>1, <1>2, <1>3, <2>2, NoneAssumption DEF StackOf, BaseOf
<1> QED
  BY <1>3, <1>4, <1>5, <1>6, <1>7 DEF BaseOf

LEMMA AnswerBase ==
    ASSUME Base, NEW r \in Requests, Answer(r)
    PROVE  BaseOf(r)'
<1> TypeOK /\ BaseOf(r) /\ Depth(r) \in Nat
  BY BaseHere
<1>1. /\ op[r] # None /\ pc[r] = "done" /\ sending[r] = None /\ Depth(r) \in {0, 1}
      /\ r \notin broken
  BY NoneAssumption DEF Answer, At, BaseOf, StackOf, Around, Within
<1>2. /\ frames' \in [Requests -> Stack] /\ frames'[r] = <<>> /\ Depth(r)' = 0
      /\ DbTyped' /\ broken' = broken
  <2>1. CASE Depth(r) = 0
    <3>1. frames[r] = <<>>
      BY <2>1, EmptySeq, Frames DEF Depth, Stack
    <3> QED
      BY <2>1, <3>1 DEF Answer, BaseOf, DbTyped, database, Depth
  <2>2. CASE Depth(r) = 1
    <3>1. Pop(r)
      BY <2>2 DEF Answer
    <3>2. DbTyped'
      BY <2>2, <3>1, PopEffect, CommittedTypes DEF DbTyped, BaseOf, database
    <3>3. OthersKept(r) /\ Depth(r)' = 0 /\ broken' = broken
      BY <1>1, <2>2, <3>1, PopEffect
    <3>4. frames'[r] = <<>>
      BY <3>3, EmptySeq DEF Depth, OthersKept, Stack
    <3> QED
      BY <3>2, <3>3, <3>4 DEF OthersKept
  <2> QED
    BY <1>1, <2>1, <2>2
<1>3. StepsTyped' /\ RestTyped'
  BY <1>2 DEF Answer, BaseOf, StepsTyped, RestTyped, history
<1>4. OverOf(r)' /\ StepOf(r)'
  BY <1>1, <1>2 DEF Answer, BaseOf, OverOf, StepOf, history
<1>5. StackOf(r)'
  <2>1. pc'[r] = "done" /\ sending'[r] = None /\ op'[r] # None
    BY <1>1 DEF Answer
  <2>2. ~Within(r)' /\ sending'[r] # "saved"
    BY <2>1, NoneAssumption DEF Within
  <2>3. Around(r)' \in {0, 1}
    BY <1>2, <2>2 DEF Around
  <2> QED
    BY <1>1, <1>2, <2>1, <2>3, NoneAssumption DEF StackOf
<1> QED
  BY <1>2, <1>3, <1>4, <1>5 DEF BaseOf

LEMMA EndingBase ==
    ASSUME Base, NEW r \in Requests, Fail(r) \/ Release(r)
    PROVE  BaseOf(r)'
<1> TypeOK /\ BaseOf(r) /\ Depth(r) \in Nat
  BY BaseHere
<1>1. frames' \in [Requests -> Stack] /\ frames'[r] = <<>> /\ Depth(r)' = 0
  <2>1. <<>> \in Stack /\ Len(<<>>) = 0
    BY EmptySeq DEF Stack
  <2>2. frames' \in [Requests -> Stack] /\ frames'[r] = <<>>
    BY <2>1 DEF Fail, Release, BaseOf, OverOf
  <2> QED
    BY <2>1, <2>2 DEF Depth
<1>2. DbTyped' /\ StepsTyped' /\ RestTyped'
  BY DEF Fail, Release, BaseOf, DbTyped, StepsTyped, RestTyped, database, history, Steps
<1>3. /\ pc'[r] = "done" /\ sending'[r] = None /\ queue'[r] = {} /\ r \notin broken'
      /\ todo'[r] = {}
  BY NoneAssumption
     DEF Fail, Release, BaseOf, OverOf, StepOf, StackOf, TypeOK, Events
<1>4. OverOf(r)'
  BY <1>1, <1>3 DEF OverOf
<1>5. StepOf(r)'
  BY <1>3, NoneAssumption
     DEF Fail, Release, BaseOf, StepOf, history, TypeOK, Events, Operations
<1>6. StackOf(r)'
  <2>1. ~Within(r)' /\ sending'[r] # "saved"
    BY <1>3, NoneAssumption DEF Within
  <2>2. Around(r)' \in {0, 1}
    BY <1>1, <2>1 DEF Around
  <2> QED
    BY <1>1, <1>3, <2>1, <2>2, NoneAssumption DEF StackOf
<1> QED
  BY <1>1, <1>2, <1>4, <1>5, <1>6 DEF BaseOf

LEMMA BaseNext == Base /\ [Next]_vars => Base'
<1> SUFFICES ASSUME Base, [Next]_vars PROVE Base'
  OBVIOUS
<1>1. CASE UNCHANGED vars
  <2>1. TypeOK'
    BY <1>1 DEF vars, database, local, history, Base, TypeOK
  <2>2. ASSUME NEW s \in Requests PROVE Untouched(s)
    BY <1>1 DEF vars, local, history, Untouched
  <2> QED
    BY <2>1, <2>2, UntouchedBase DEF Base, Stacks
<1>2. ASSUME NEW r \in Requests, Step(r) PROVE Base'
  <2>1. BaseOf(r)'
    BY <1>2, ArriveBase, BeginBase, EndBase, OpenFamilyBase, SelectFamiliesBase,
       UpdateBase, BeginSendBase, CallBase, EndSendBase, AnswerBase, EndingBase DEF Step
  <2>2. ASSUME NEW s \in Requests PROVE OverOf(s)' /\ StepOf(s)' /\ StackOf(s)'
    BY <1>2, <2>1, OthersUntouched, UntouchedBase DEF BaseOf
  <2>3. TypeOK'
    BY <2>1, <2>2 DEF TypeOK, BaseOf, DbTyped, StepsTyped, RestTyped, OverOf, Stack
  <2> QED
    BY <2>2, <2>3 DEF Base, Stacks
<1> QED
  BY <1>1, <1>2 DEF Next, Step

LEMMA BaseInit == Init => Base
<1> SUFFICES ASSUME Init PROVE Base
  OBVIOUS
<1>1. TypeOK
  <2>1. <<>> \in Seq(SUBSET Changes)
    BY EmptySeq
  <2> QED
    BY <2>1 DEF Init, TypeOK, Steps, Counted
<1>2. ASSUME NEW r \in Requests PROVE StepOf(r)
  BY NoneAssumption DEF Init, StepOf, Operations
<1>3. ASSUME NEW r \in Requests PROVE StackOf(r)
  <2>1. Depth(r) = 0 /\ ~Within(r) /\ sending[r] # "saved" /\ sending[r] # "bare"
    BY NoneAssumption, EmptySeq DEF Init, Depth, Within
  <2>2. Around(r) \in {0, 1}
    BY <2>1 DEF Around
  <2> QED
    BY <2>1, <2>2 DEF Init, StackOf
<1> QED
  BY <1>1, <1>2, <1>3 DEF Base, Stacks

LEMMA BaseInvariant == Spec => []Base
BY BaseInit, BaseNext, PTL DEF Spec

\* In every state what is committed and what every request holds is of the kind
\* its variable is for, and an answered request is in no transaction: whatever
\* a receiver does, each atomic() that is begun is ended.
THEOREM SignalsTyped == Spec => []TypeOK
BY BaseInvariant, PTL DEF Base

-----------------------------------------------------------------------------
(* What a commit does to the database.                                     *)

\* What holds of r, and of r and s, where a step begins.
LEMMA Here ==
    ASSUME Inv, NEW r \in Requests
    PROVE  /\ Base /\ TypeOK /\ BaseOf(r) /\ Depth(r) \in Nat
           /\ OverOf(r) /\ StepOf(r) /\ StackOf(r)
           /\ LoginOf(r) /\ RevokedOf(r) /\ PromiseOf(r) /\ TellsOf(r) /\ ReportOf(r)
           /\ \A s \in Requests \ {r} : ApartFrom(r, s) /\ ApartFrom(s, r)
           /\ RowsAreTrue
BY BaseHere DEF Inv, Truth, Rowed

LEMMA NothingPending == ASSUME NEW r, Depth(r) = 0 PROVE Pending(r) = {}
BY DEF Pending

\* The changes w of r may be committed.
Lawful(r, w) ==
    /\ \A f \in Families : Opened(f) \in w =>
          op[r] = "login" /\ cur[r] = f /\ fam[f] = "none"
    /\ \A f \in Families : Revoked(f) \in w =>
          fam[f] = "live" /\ \A s \in Requests \ {r} : Revoked(f) \notin Pending(s)
    /\ \A c \in Receivers, f \in Families :
          /\ Heard(<<c, "token_issued", f>>) \in w => fam[f] # "none" \/ Opened(f) \in w
          /\ Heard(<<c, "family_revoked", f>>) \in w =>
                /\ fam[f] = "revoked" \/ Revoked(f) \in w
                /\ heard[<<c, "family_revoked", f>>] = 0
                /\ \A s \in Requests \ {r} : ~(pc[s] = "family_revoked" /\ cur[s] = f)

\* What r's commits leave true for the others.
Moved(r) ==
    /\ \A f \in Families :
          /\ fam[f] # "none" => fam'[f] # "none"
          /\ fam[f] = "revoked" => fam'[f] = "revoked"
          /\ fam[f] = "none" => fam'[f] = "none" \/ (op[r] = "login" /\ cur[r] = f)
          /\ fam[f] = "live" => \/ fam'[f] = "live"
                                \/ \A s \in Requests \ {r} : Revoked(f) \notin Pending(s)
    /\ \A row \in Rows : heard[row] > 0 => heard'[row] > 0
    /\ \A s \in Requests \ {r}, c \in Receivers :
          pc[s] = "family_revoked" =>
             heard'[<<c, "family_revoked", cur[s]>>] = heard[<<c, "family_revoked", cur[s]>>]
    /\ RowsAreTrue'

LEMMA LawfulMoves ==
    ASSUME Inv, NEW r \in Requests, NEW w, Lawful(r, w), Committed(w)
    PROVE  Moved(r)
<1> TypeOK /\ RowsAreTrue
  BY Here
<1>1. ASSUME NEW f \in Families
      PROVE  /\ Revoked(f) \in w => fam'[f] = "revoked"
             /\ Revoked(f) \notin w /\ Opened(f) \in w => fam'[f] = "live"
             /\ Revoked(f) \notin w /\ Opened(f) \notin w => fam'[f] = fam[f]
             /\ fam[f] \in {"none", "live", "revoked"}
  BY DEF Committed, FamAfter, TypeOK
<1>2. ASSUME NEW row \in Rows
      PROVE  /\ heard[row] \in Nat
             /\ Heard(row) \notin w => heard'[row] = heard[row]
             /\ Heard(row) \in w => heard'[row] > 0
             /\ Heard(row) \in w /\ heard[row] = 0 => heard'[row] = 1
  BY DEF Committed, HeardAfter, CountUp, TypeOK, Counted
<1>3. \A c \in Receivers, f \in Families :
         <<c, "token_issued", f>> \in Rows /\ <<c, "family_revoked", f>> \in Rows
  BY DEF Rows
<1>4. ASSUME NEW f \in Families
      PROVE  /\ fam[f] # "none" => fam'[f] # "none"
             /\ fam[f] = "revoked" => fam'[f] = "revoked"
             /\ fam[f] = "none" => fam'[f] = "none" \/ (op[r] = "login" /\ cur[r] = f)
             /\ fam[f] = "live" => \/ fam'[f] = "live"
                                   \/ \A s \in Requests \ {r} : Revoked(f) \notin Pending(s)
  BY <1>1 DEF Lawful
<1>5. ASSUME NEW row \in Rows, heard[row] > 0 PROVE heard'[row] > 0
  BY <1>2, <1>5
<1>6. ASSUME NEW s \in Requests \ {r}, NEW c \in Receivers, pc[s] = "family_revoked"
      PROVE  heard'[<<c, "family_revoked", cur[s]>>] = heard[<<c, "family_revoked", cur[s]>>]
  <2>1. cur[s] \in Families
    BY <1>6, WhereFrames, Here
  <2>2. Heard(<<c, "family_revoked", cur[s]>>) \notin w
    BY <1>6, <2>1 DEF Lawful
  <2> QED
    BY <1>2, <1>3, <2>1, <2>2
<1>7. RowsAreTrue'
  <2>1. ASSUME NEW c \in Receivers, NEW f \in Families
        PROVE  /\ heard'[<<c, "token_issued", f>>] > 0 => fam'[f] # "none"
               /\ heard'[<<c, "family_revoked", f>>] > 0 => fam'[f] = "revoked"
               /\ heard'[<<c, "family_revoked", f>>] <= 1
    <3>1. PICK i \in Rows, e \in Rows :
             i = <<c, "token_issued", f>> /\ e = <<c, "family_revoked", f>>
      BY <1>3
    <3>2. /\ heard[i] > 0 => fam[f] # "none"
          /\ heard[e] > 0 => fam[f] = "revoked"
          /\ heard[e] <= 1
      BY <3>1 DEF RowsAreTrue
    <3>3. /\ Heard(i) \in w => fam[f] # "none" \/ Opened(f) \in w
          /\ Heard(e) \in w => (fam[f] = "revoked" \/ Revoked(f) \in w) /\ heard[e] = 0
      BY <3>1 DEF Lawful
    <3>4. heard'[i] > 0 => fam'[f] # "none"
      BY <1>1, <1>2, <1>4, <3>2, <3>3
    <3>5. (heard'[e] > 0 => fam'[f] = "revoked") /\ heard'[e] <= 1
      BY <1>1, <1>2, <1>4, <3>2, <3>3
    <3> QED
      BY <3>1, <3>4, <3>5
  <2>2. \A c \in Receivers, f \in Families :
               /\ heard'[<<c, "token_issued", f>>] > 0 => fam'[f] # "none"
               /\ heard'[<<c, "family_revoked", f>>] > 0 => fam'[f] = "revoked"
               /\ heard'[<<c, "family_revoked", f>>] <= 1
    BY Zenon, <2>1
  <2> QED
    BY Zenon, <2>2 DEF RowsAreTrue
<1> QED
  BY <1>4, <1>5, <1>6, <1>7 DEF Moved

LEMMA PendingLawful ==
    ASSUME Inv, NEW r \in Requests
    PROVE  Lawful(r, Pending(r))
<1> LoginOf(r) /\ RevokedOf(r) /\ TellsOf(r)
  BY Here
<1>1. ASSUME NEW f \in Families, Revoked(f) \in Pending(r)
      PROVE  fam[f] = "live" /\ \A s \in Requests \ {r} : Revoked(f) \notin Pending(s)
  BY <1>1, Here DEF RevokedOf, ApartFrom
<1>2. ASSUME NEW c \in Receivers, NEW f \in Families,
             Heard(<<c, "family_revoked", f>>) \in Pending(r)
      PROVE  /\ Revoked(f) \in Pending(r)
             /\ heard[<<c, "family_revoked", f>>] = 0
             /\ \A s \in Requests \ {r} : ~(pc[s] = "family_revoked" /\ cur[s] = f)
  <2>1. Revoked(f) \in Pending(r) /\ fam[f] = "live"
    BY <1>1, <1>2 DEF TellsOf
  <2>2. heard[<<c, "family_revoked", f>>] = 0
    <3>1. <<c, "family_revoked", f>> \in Rows
      BY DEF Rows
    <3>2. PICK n \in Nat : n = heard[<<c, "family_revoked", f>>]
      BY <3>1, Here DEF TypeOK, Counted
    <3>3. ~(n > 0)
      BY <2>1, <3>2, Here DEF RowsAreTrue
    <3> QED
      BY <3>2, <3>3
  <2>3. ASSUME NEW s \in Requests \ {r}, pc[s] = "family_revoked", cur[s] = f
        PROVE  FALSE
    BY <1>1, <2>1, <2>3, Here DEF ReportOf
  <2> QED
    BY <2>1, <2>2, <2>3
<1> QED
  BY <1>1, <1>2 DEF Lawful, LoginOf, TellsOf

LEMMA EmptyLawful ==
    ASSUME Inv, NEW r \in Requests, UNCHANGED database
    PROVE  Lawful(r, {}) /\ Committed({})
BY Here DEF Lawful, Committed, FamAfter, HeardAfter, database, TypeOK

LEMMA OpenLawful ==
    ASSUME Inv, NEW r \in Requests, OpenFamily(r)
    PROVE  Lawful(r, {Opened(cur[r])})
<1>1. op[r] = "login" /\ fam[cur[r]] = "none"
  BY Here DEF OpenFamily, At, StepOf, LoginOf
<1> QED
  BY <1>1 DEF Lawful, Opened, Revoked, Heard

\* An UPDATE that changes a row ends a session that lived for everybody.
LEMMA UpdateLawful ==
    ASSUME Inv, NEW r \in Requests, Update(r), Stands(r, cur[r])
    PROVE  /\ fam[cur[r]] = "live" /\ Revoked(cur[r]) \notin Pending(r)
           /\ \A s \in Requests \ {r} : Revoked(cur[r]) \notin Pending(s)
           /\ \A s \in Requests \ {r} : ~(pc[s] = "family_revoked" /\ cur[s] = cur[r])
           /\ Lawful(r, {Revoked(cur[r])})
<1>1. cur[r] \in Families /\ op[r] # "login"
  BY WhereFrames, Here DEF Update, At, StepOf, Reporting
<1>2. fam[cur[r]] = "live" /\ Revoked(cur[r]) \notin Pending(r)
  BY <1>1, Here DEF Stands, LoginOf
<1>3. \A s \in Requests \ {r} : Revoked(cur[r]) \notin Pending(s)
  BY DEF Update, FamilyFree
<1>4. \A s \in Requests \ {r} : ~(pc[s] = "family_revoked" /\ cur[s] = cur[r])
  <2>1. ASSUME NEW s \in Requests \ {r}, pc[s] = "family_revoked", cur[s] = cur[r]
        PROVE  FALSE
    <3>1. ReportOf(s)
      BY Here
    <3> QED
      BY <1>2, <1>3, <2>1, <3>1 DEF ReportOf
  <2> QED
    BY Zenon, <2>1
<1>5. Lawful(r, {Revoked(cur[r])})
  BY <1>1, <1>2, <1>3 DEF Lawful, Opened, Revoked, Heard
<1> QED
  BY <1>2, <1>3, <1>4, <1>5

\* The row a callee writes tells of what its request has pending, or of what is
\* committed; then it is the first.
LEMMA CallTells ==
    ASSUME Inv, NEW r \in Requests, NEW c \in Callees, Call(r, c),
           <<c, pc[r], cur[r]>> \in Rows
    PROVE  /\ c \in Receivers /\ cur[r] \in Families /\ c \in queue[r]
           /\ sending[r] # None
           /\ pc[r] \in {"token_issued", "family_revoked"}
           /\ pc[r] = "token_issued" =>
                 fam[cur[r]] # "none" \/ Opened(cur[r]) \in Pending(r)
           /\ pc[r] = "family_revoked" =>
                 \/ Revoked(cur[r]) \in Pending(r)
                 \/ /\ Depth(r) = 0 /\ fam[cur[r]] = "revoked"
                    /\ heard[<<c, "family_revoked", cur[r]>>] = 0
<1>1. /\ c \in Receivers /\ cur[r] \in Families /\ c \in queue[r]
      /\ pc[r] \in {"token_issued", "family_revoked"}
  BY DEF Rows, Call
<1>2. ASSUME pc[r] = "token_issued"
      PROVE  fam[cur[r]] # "none" \/ Opened(cur[r]) \in Pending(r)
  <2>1. op[r] = "login" /\ answer[r] # "error"
    BY <1>2, NoneAssumption, Here DEF StepOf, OverOf
  <2> QED
    BY <1>2, <2>1, Here DEF LoginOf
<1> QED
  BY <1>1, <1>2, Here DEF ReportOf, Call

LEMMA CallLawful ==
    ASSUME Inv, NEW r \in Requests, NEW c \in Callees, Call(r, c),
           <<c, pc[r], cur[r]>> \in Rows, Depth(r) = 0
    PROVE  Lawful(r, {Heard(<<c, pc[r], cur[r]>>)})
<1>1. Pending(r) = {}
  BY NothingPending
<1>2. ASSUME pc[r] = "family_revoked", NEW s \in Requests \ {r}, pc[s] = "family_revoked"
      PROVE  cur[s] # cur[r]
  BY <1>2, Here DEF ApartFrom
<1> DEFINE w == {Heard(<<c, pc[r], cur[r]>>)}
<1>3. ASSUME NEW f \in Families PROVE Opened(f) \notin w /\ Revoked(f) \notin w
  BY DEF Opened, Revoked, Heard
<1>4. ASSUME NEW d, NEW e, NEW f, Heard(<<d, e, f>>) \in w
      PROVE  d = c /\ e = pc[r] /\ f = cur[r]
  <2>1. <<d, e, f>> = <<c, pc[r], cur[r]>>
    BY <1>4 DEF Heard
  <2> QED
    BY <2>1
<1>5. pc[r] = "token_issued" => fam[cur[r]] # "none"
  BY <1>1, CallTells
<1>6. pc[r] = "family_revoked" =>
         fam[cur[r]] = "revoked" /\ heard[<<c, "family_revoked", cur[r]>>] = 0
  BY <1>1, CallTells
<1> HIDE DEF w
<1>7. ASSUME NEW d \in Receivers, NEW f \in Families,
             Heard(<<d, "token_issued", f>>) \in w
      PROVE  fam[f] # "none"
  BY <1>4, <1>5, <1>7
<1>8. ASSUME NEW d \in Receivers, NEW f \in Families,
             Heard(<<d, "family_revoked", f>>) \in w
      PROVE  /\ fam[f] = "revoked" /\ heard[<<d, "family_revoked", f>>] = 0
             /\ \A s \in Requests \ {r} : ~(pc[s] = "family_revoked" /\ cur[s] = f)
  BY <1>2, <1>4, <1>6, <1>8
<1>9. Lawful(r, w)
  BY <1>3, <1>7, <1>8 DEF Lawful
<1> QED
  BY <1>9 DEF w

\* Every step commits what it may, or nothing.
LEMMA StepMoves ==
    ASSUME Inv, NEW r \in Requests, Step(r)
    PROVE  Moved(r)
<1>1. CASE UNCHANGED database
  BY <1>1, EmptyLawful, LawfulMoves
<1>2. CASE Committed(Pending(r))
  BY <1>2, PendingLawful, LawfulMoves
<1>3. CASE OpenFamily(r)
  <2>1. {Opened(cur[r])} \in SUBSET Changes
    BY <1>3, WhereFrames, ChangesOf, Here DEF OpenFamily, At
  <2>2. Write(r, {Opened(cur[r])})
    BY <1>3 DEF OpenFamily
  <2> QED
    BY <1>1, <1>3, <2>1, <2>2, WriteEffect, OpenLawful, LawfulMoves, Here
<1>4. CASE Update(r)
  <2>1. CASE Stands(r, cur[r])
    <3>1. {Revoked(cur[r])} \in SUBSET Changes
      BY <1>4, WhereFrames, ChangesOf, Here DEF Update, At
    <3>2. Write(r, {Revoked(cur[r])})
      BY <1>4, <2>1 DEF Update
    <3> QED
      BY <1>1, <1>4, <2>1, <3>1, <3>2, WriteEffect, UpdateLawful, LawfulMoves, Here
  <2> QED
    BY <1>1, <1>4, <2>1 DEF Update
<1>5. ASSUME NEW c \in Callees, Call(r, c) PROVE Moved(r)
  <2>1. PICK row : row = <<c, pc[r], cur[r]>>
    OBVIOUS
  <2>2. CASE row \in Rows /\ Heard(row) \in Changes /\ Write(r, {Heard(row)})
    BY <1>1, <1>5, <2>1, <2>2, WriteEffect, CallLawful, LawfulMoves, Here
  <2> QED
    BY <1>1, <1>5, <2>1, <2>2, CallEffect, Here
<1>6. CASE End(r) \/ EndSend(r) \/ Answer(r)
  <2>1. UNCHANGED database \/ (Depth(r) # 0 /\ Pop(r))
    BY <1>6, WhereFrames, Here DEF End, EndSend, Answer
  <2> QED
    BY <1>1, <1>2, <2>1, PopEffect, Here
<1>7. CASE (\E o \in Operations, f \in Families : Arrive(r, o, f)) \/ Begin(r)
           \/ SelectFamilies(r) \/ BeginSend(r) \/ Fail(r) \/ Release(r)
  BY <1>1, <1>7 DEF Arrive, Begin, SelectFamilies, BeginSend, Fail, Release
<1> QED
  BY <1>3, <1>4, <1>5, <1>6, <1>7 DEF Step

\* What holds of the other requests is left alone.
LEMMA OthersKeep ==
    ASSUME Inv, NEW r \in Requests, Step(r), NEW s \in Requests, s # r
    PROVE  LoginOf(s)' /\ RevokedOf(s)' /\ PromiseOf(s)' /\ TellsOf(s)' /\ ReportOf(s)'
<1> Moved(r) /\ Untouched(s)
  BY StepMoves, OthersUntouched, Here
<1>1. Pending(s)' = Pending(s) /\ Depth(s)' = Depth(s)
  BY DEF Untouched, Pending, Depth
<1>2. /\ LoginOf(s) /\ RevokedOf(s) /\ PromiseOf(s) /\ TellsOf(s) /\ ReportOf(s)
      /\ StepOf(s) /\ ApartFrom(r, s)
  BY Here
<1>3. ASSUME NEW f \in Families
      PROVE  /\ fam[f] # "none" => fam'[f] # "none"
             /\ fam[f] = "revoked" => fam'[f] = "revoked"
             /\ fam[f] = "none" => fam'[f] = "none" \/ (op[r] = "login" /\ cur[r] = f)
             /\ Revoked(f) \in Pending(s) /\ fam[f] = "live" => fam'[f] = "live"
  BY DEF Moved
<1>4. op[s] # None => cur[s] \in Families
  BY <1>2 DEF StepOf
<1>5. LoginOf(s)'
  <2>1. ASSUME NEW f \in Families, Opened(f) \in Pending(s)'
        PROVE  op'[s] = "login" /\ cur'[s] = f /\ fam'[f] = "none"
    BY <1>1, <1>2, <1>3, <2>1 DEF LoginOf, Untouched, ApartFrom
  <2>2. ASSUME op'[s] = "login", pc'[s] \in {"begin", "open"}
        PROVE  fam'[cur'[s]] = "none"
    BY <1>2, <1>3, <1>4, <2>2, NoneAssumption DEF LoginOf, Untouched, ApartFrom
  <2>3. ASSUME op'[s] = "login", pc'[s] \notin {"begin", "open"}, answer'[s] # "error"
        PROVE  fam'[cur'[s]] # "none" \/ Opened(cur'[s]) \in Pending(s)'
    BY <1>1, <1>2, <1>3, <1>4, <2>3, NoneAssumption DEF LoginOf, Untouched
  <2> QED
    BY <2>1, <2>2, <2>3 DEF LoginOf
<1>6. RevokedOf(s)'
  BY <1>1, <1>2, <1>3 DEF RevokedOf
<1>7. PromiseOf(s)'
  <2>1. promised[s] \cup todo[s] \subseteq Families
    BY Here DEF TypeOK
  <2>2. op[s] \in Reporting => cur[s] \in Families
    BY <1>4, NoneAssumption DEF Reporting
  <2>3. ASSUME op'[s] \in Reporting
        PROVE  \A f \in promised'[s] \cup todo'[s] \cup {cur'[s]} : fam'[f] # "none"
    BY <1>2, <1>3, <2>1, <2>2, <2>3 DEF PromiseOf, Untouched
  <2>4. ASSUME op'[s] \in Reporting, pc'[s] \notin {"begin", "select"},
               answer'[s] # "error", NEW f \in promised'[s]
        PROVE  \/ fam'[f] = "revoked" \/ Revoked(f) \in Pending(s)'
               \/ pc'[s] = "update" /\ f = cur'[s]
               \/ f \in todo'[s]
    BY <1>1, <1>2, <1>3, <2>1, <2>4 DEF PromiseOf, Untouched
  <2> QED
    BY <2>3, <2>4 DEF PromiseOf
<1>8. TellsOf(s)'
  <2>1. ASSUME NEW c \in Receivers, NEW f \in Families
        PROVE  /\ Heard(<<c, "token_issued", f>>) \in Pending(s)' =>
                     fam'[f] # "none" \/ Opened(f) \in Pending(s)'
               /\ Heard(<<c, "family_revoked", f>>) \in Pending(s)' =>
                     Revoked(f) \in Pending(s)'
    BY <1>1, <1>2, <1>3 DEF TellsOf
  <2> QED
    BY Zenon, <2>1 DEF TellsOf
<1>9. ReportOf(s)'
  <2>1. ASSUME pc'[s] = "family_revoked"
        PROVE  \/ Revoked(cur'[s]) \in Pending(s)'
               \/ /\ Depth(s)' = 0 /\ fam'[cur'[s]] = "revoked"
                  /\ \A c \in Receivers :
                        sending'[s] = None \/ c \in queue'[s] =>
                           heard'[<<c, "family_revoked", cur'[s]>>] = 0
    <3>1. pc[s] = "family_revoked" /\ cur'[s] = cur[s] /\ cur[s] \in Families
      BY <2>1, WhereFrames, Here DEF Untouched
    <3>2. \A c \in Receivers : heard'[<<c, "family_revoked", cur[s]>>]
                                 = heard[<<c, "family_revoked", cur[s]>>]
      BY <3>1 DEF Moved
    <3> QED
      BY <1>1, <1>2, <1>3, <3>1, <3>2 DEF ReportOf, Untouched
  <2> QED
    BY <2>1 DEF ReportOf
<1> QED
  BY <1>5, <1>6, <1>7, <1>8, <1>9

-----------------------------------------------------------------------------
(* What a step keeps of its own request.                                   *)

KeptOf(r) ==
    /\ LoginOf(r) /\ RevokedOf(r) /\ PromiseOf(r) /\ TellsOf(r) /\ ReportOf(r)
    /\ \A s \in Requests \ {r} : ApartFrom(r, s) /\ ApartFrom(s, r)

\* r has no more pending than it had, and what it has no more is committed.
Keeps(r) ==
    /\ \A f \in Families :
          /\ Opened(f) \in Pending(r)' => Opened(f) \in Pending(r) /\ fam'[f] = fam[f]
          /\ Revoked(f) \in Pending(r)' => Revoked(f) \in Pending(r) /\ fam'[f] = fam[f]
          /\ Opened(f) \in Pending(r) \/ fam[f] # "none" =>
                Opened(f) \in Pending(r)' \/ fam'[f] # "none"
          /\ Revoked(f) \in Pending(r) \/ fam[f] = "revoked" =>
                Revoked(f) \in Pending(r)' \/ fam'[f] = "revoked"
          /\ fam[f] # "none" => fam'[f] # "none"
    /\ TellsOf(r)'

LEMMA SameKeeps ==
    ASSUME Inv, NEW r \in Requests, Pending(r)' = Pending(r), UNCHANGED database
    PROVE  Keeps(r)
<1>1. TellsOf(r)'
  <2>1. ASSUME NEW c \in Receivers, NEW f \in Families
        PROVE  /\ Heard(<<c, "token_issued", f>>) \in Pending(r)' =>
                     fam'[f] # "none" \/ Opened(f) \in Pending(r)'
               /\ Heard(<<c, "family_revoked", f>>) \in Pending(r)' =>
                     Revoked(f) \in Pending(r)'
    BY Here DEF TellsOf, database
  <2> QED
    BY Zenon, <2>1 DEF TellsOf
<1> QED
  BY <1>1 DEF Keeps, database

LEMMA CommitKeeps ==
    ASSUME Inv, NEW r \in Requests, Pending(r)' = {}, Committed(Pending(r))
    PROVE  Keeps(r)
<1>1. TellsOf(r)'
  <2>1. ASSUME NEW c \in Receivers, NEW f \in Families
        PROVE  /\ Heard(<<c, "token_issued", f>>) \in Pending(r)' =>
                     fam'[f] # "none" \/ Opened(f) \in Pending(r)'
               /\ Heard(<<c, "family_revoked", f>>) \in Pending(r)' =>
                     Revoked(f) \in Pending(r)'
    OBVIOUS
  <2> QED
    BY Zenon, <2>1 DEF TellsOf
<1>2. ASSUME NEW f \in Families
      PROVE  /\ Opened(f) \in Pending(r) \/ fam[f] # "none" => fam'[f] # "none"
             /\ Revoked(f) \in Pending(r) \/ fam[f] = "revoked" => fam'[f] = "revoked"
  <2>1. /\ Revoked(f) \in Pending(r) => fam'[f] = "revoked"
        /\ Revoked(f) \notin Pending(r) /\ Opened(f) \in Pending(r) => fam'[f] = "live"
        /\ Revoked(f) \notin Pending(r) /\ Opened(f) \notin Pending(r) => fam'[f] = fam[f]
    BY DEF Committed, FamAfter
  <2>2. Opened(f) \in Pending(r) => fam[f] = "none"
    BY Here DEF LoginOf
  <2> QED
    BY <2>1, <2>2
<1> QED
  BY <1>1, <1>2 DEF Keeps

LEMMA RollbackKeeps ==
    ASSUME Inv, NEW r \in Requests, NEW top, top \subseteq {"heard"} \X Rows,
           Pending(r)' \subseteq Pending(r), Pending(r) \subseteq Pending(r)' \cup top,
           UNCHANGED database
    PROVE  Keeps(r)
<1>1. ASSUME NEW f \in Families
      PROVE  /\ Opened(f) \in Pending(r)' <=> Opened(f) \in Pending(r)
             /\ Revoked(f) \in Pending(r)' <=> Revoked(f) \in Pending(r)
  BY DEF Opened, Revoked
<1>2. TellsOf(r)'
  <2>1. ASSUME NEW c \in Receivers, NEW f \in Families
        PROVE  /\ Heard(<<c, "token_issued", f>>) \in Pending(r)' =>
                     fam'[f] # "none" \/ Opened(f) \in Pending(r)'
               /\ Heard(<<c, "family_revoked", f>>) \in Pending(r)' =>
                     Revoked(f) \in Pending(r)'
    BY <1>1, Here DEF TellsOf, database
  <2> QED
    BY Zenon, <2>1 DEF TellsOf
<1> QED
  BY <1>1, <1>2 DEF Keeps, database

\* A request under way moves on.
LEMMA KeepsLogin ==
    ASSUME Inv, NEW r \in Requests, Keeps(r), answer[r] = None, op'[r] = op[r],
           op[r] = "login" =>
              /\ cur'[r] = cur[r]
              /\ pc'[r] \in {"begin", "open"} => pc[r] \in {"begin", "open"} /\ fam' = fam
              /\ pc'[r] \notin {"begin", "open"} => pc[r] \notin {"begin", "open"}
    PROVE  LoginOf(r)' /\ RevokedOf(r)' /\ TellsOf(r)'
<1>1. LoginOf(r) /\ RevokedOf(r) /\ answer[r] # "error"
      /\ (op[r] = "login" => cur[r] \in Families)
  BY NoneAssumption, Here DEF StepOf
<1>2. ASSUME NEW f \in Families, Opened(f) \in Pending(r)'
      PROVE  op'[r] = "login" /\ cur'[r] = f /\ fam'[f] = "none"
  BY <1>1, <1>2 DEF LoginOf, Keeps
<1>3. ASSUME op'[r] = "login", pc'[r] \in {"begin", "open"}
      PROVE  fam'[cur'[r]] = "none"
  BY <1>1, <1>3 DEF LoginOf
<1>4. ASSUME op'[r] = "login", pc'[r] \notin {"begin", "open"}
      PROVE  fam'[cur'[r]] # "none" \/ Opened(cur'[r]) \in Pending(r)'
  <2>1. fam[cur[r]] # "none" \/ Opened(cur[r]) \in Pending(r)
    BY <1>1, <1>4 DEF LoginOf
  <2> QED
    BY <1>1, <1>4, <2>1 DEF Keeps
<1>5. LoginOf(r)'
  BY <1>2, <1>3, <1>4 DEF LoginOf
<1>6. RevokedOf(r)'
  BY <1>1 DEF RevokedOf, Keeps
<1> QED
  BY <1>5, <1>6 DEF Keeps

LEMMA KeepsPromise ==
    ASSUME Inv, NEW r \in Requests, Keeps(r), answer[r] = None, op'[r] = op[r],
           promised'[r] = promised[r],
           todo'[r] \subseteq todo[r], cur'[r] \in todo[r] \cup {cur[r]},
           pc[r] \in {"begin", "select"} =>
              \/ pc'[r] \in {"begin", "select"}
              \/ pc'[r] = "update" /\ op[r] = "logout" /\ cur'[r] = cur[r],
           \A f \in todo[r] : f \in todo'[r] \/ (pc'[r] = "update" /\ f = cur'[r]),
           pc[r] = "update" =>
              \/ pc'[r] = "update" /\ cur'[r] = cur[r]
              \/ fam[cur[r]] = "revoked" \/ Revoked(cur[r]) \in Pending(r)
    PROVE  PromiseOf(r)'
<1> SUFFICES ASSUME op[r] \in Reporting
             PROVE  PromiseOf(r)'
  BY DEF PromiseOf
<1>1. /\ PromiseOf(r) /\ StepOf(r) /\ cur[r] \in Families /\ answer[r] # "error"
      /\ promised[r] \cup todo[r] \subseteq Families
  BY NoneAssumption, Here DEF StepOf, TypeOK, Reporting
<1>2. \A f \in promised'[r] \cup todo'[r] \cup {cur'[r]} : fam'[f] # "none"
  BY <1>1 DEF PromiseOf, Keeps
<1>3. ASSUME pc'[r] \notin {"begin", "select"}, NEW f \in promised'[r]
      PROVE  \/ fam'[f] = "revoked" \/ Revoked(f) \in Pending(r)'
             \/ pc'[r] = "update" /\ f = cur'[r]
             \/ f \in todo'[r]
  <2>1. f \in promised[r] /\ f \in Families
    BY <1>1, <1>3
  <2>2. CASE pc[r] \in {"begin", "select"}
    BY <1>1, <1>3, <2>1, <2>2 DEF StepOf
  <2>3. CASE pc[r] \notin {"begin", "select"}
    <3>1. \/ fam[f] = "revoked" \/ Revoked(f) \in Pending(r)
          \/ pc[r] = "update" /\ f = cur[r]
          \/ f \in todo[r]
      BY <1>1, <2>1, <2>3 DEF PromiseOf
    <3> QED
      BY <2>1, <3>1 DEF Keeps
  <2> QED
    BY <2>2, <2>3
<1> QED
  BY <1>2, <1>3 DEF PromiseOf

\* r ends no further session, reports none, and is no other login.
LEMMA KeepsApart ==
    ASSUME Inv, NEW r \in Requests, Step(r),
           op'[r] = "login" => op[r] = "login" /\ cur'[r] = cur[r],
           pc'[r] = "family_revoked" => pc[r] = "family_revoked" /\ cur'[r] = cur[r],
           \A f \in Families : Revoked(f) \in Pending(r)' => Revoked(f) \in Pending(r)
    PROVE  \A s \in Requests \ {r} : ApartFrom(r, s)' /\ ApartFrom(s, r)'
<1> SUFFICES ASSUME NEW s \in Requests \ {r}
             PROVE  ApartFrom(r, s)' /\ ApartFrom(s, r)'
  OBVIOUS
<1>1. Untouched(s) /\ ApartFrom(r, s)
  BY OthersUntouched, Here
<1>2. Pending(s)' = Pending(s)
  BY <1>1 DEF Untouched, Pending, Depth
<1>3. /\ op'[r] = "login" /\ op'[s] = "login" => cur'[r] # cur'[s]
      /\ pc'[r] = "family_revoked" /\ pc'[s] = "family_revoked" => cur'[r] # cur'[s]
      /\ \A f \in Families : ~(Revoked(f) \in Pending(r)' /\ Revoked(f) \in Pending(s)')
  BY <1>1, <1>2 DEF ApartFrom, Untouched
<1> QED
  BY <1>3 DEF ApartFrom

LEMMA ArriveKept ==
    ASSUME Inv, NEW r \in Requests, NEW o \in Operations, NEW f \in Families,
           Arrive(r, o, f)
    PROVE  KeptOf(r)'
<1>1. Step(r) /\ op[r] = None /\ answer[r] = None
  BY Here DEF Step, Arrive, StepOf
<1>2. Pending(r)' = {}
  <2>1. Pending(r) = {}
    BY <1>1, NothingPending, EmptySeq, Here DEF StackOf, Depth
  <2>2. CASE Push(r)
    BY <2>1, <2>2, PushEffect, Here
  <2>3. CASE UNCHANGED frames
    BY <2>1, <2>3 DEF Pending, Depth
  <2> QED
    BY <2>2, <2>3 DEF Arrive
<1>3. /\ op'[r] = o /\ pc'[r] = First(o) /\ cur'[r] = f /\ promised'[r] = {f}
      /\ todo'[r] = {} /\ fam' = fam
  <2>1. todo[r] = {}
    BY <1>1, Here DEF StepOf
  <2>2. TypeOK
    BY Here
  <2> QED
    BY <2>1, <2>2 DEF Arrive, TypeOK, database
<1>4. o = "login" <=> fam[f] = "none"
  BY DEF Arrive
<1>5. LoginOf(r)' /\ RevokedOf(r)' /\ TellsOf(r)'
  <2>1. LoginOf(r)'
    BY <1>2, <1>3, <1>4 DEF LoginOf, First
  <2>2. RevokedOf(r)'
    BY <1>2 DEF RevokedOf
  <2>3. TellsOf(r)'
    BY Zenon, <1>2 DEF TellsOf
  <2> QED
    BY <2>1, <2>2, <2>3
<1>6. PromiseOf(r)' /\ ReportOf(r)'
  BY <1>3, <1>4 DEF PromiseOf, ReportOf, First, Reporting
<1>7. ASSUME NEW s \in Requests \ {r} PROVE ApartFrom(r, s)' /\ ApartFrom(s, r)'
  <2>1. Untouched(s)
    BY <1>1, <1>7, OthersUntouched, Here
  <2>2. op[s] = "login" => promised[s] = {cur[s]}
    BY Here DEF StepOf
  <2>3. o = "login" /\ op[s] = "login" => promised[s] # {f}
    BY DEF Arrive
  <2>4. op'[r] = "login" /\ op'[s] = "login" => cur'[r] # cur'[s]
    BY <1>3, <2>1, <2>2, <2>3 DEF Untouched
  <2>5. pc'[r] # "family_revoked"
    BY <1>3 DEF First
  <2> QED
    BY <1>2, <2>4, <2>5 DEF ApartFrom
<1> QED
  BY <1>5, <1>6, <1>7 DEF KeptOf

LEMMA BeginKept ==
    ASSUME Inv, NEW r \in Requests, Begin(r)
    PROVE  KeptOf(r)'
<1>1. /\ Step(r) /\ answer[r] = None /\ op[r] # None
      /\ pc[r] = "begin" /\ op[r] \in {"login", "logout", "logout_all"}
  BY Here DEF Step, Begin, At, OverOf, StepOf
<1>2. Pending(r)' = Pending(r) /\ UNCHANGED database /\ UNCHANGED <<op, promised>>
  BY PushEffect, Here DEF Begin, history
<1>3. pc'[r] = Following(op[r], "begin") /\ cur' = cur /\ todo' = todo
  BY <1>1, ProceedSteps, FollowingSteps, Here DEF Begin
<1>4. Keeps(r)
  BY <1>2, SameKeeps
<1>5. LoginOf(r)' /\ RevokedOf(r)' /\ TellsOf(r)'
  BY <1>1, <1>2, <1>3, <1>4, KeepsLogin DEF Following, database
<1>6. PromiseOf(r)'
  <2>1. CASE op[r] = "login"
    BY <1>2, <2>1 DEF PromiseOf, Reporting
  <2>2. CASE op[r] # "login"
    BY <1>1, <1>2, <1>3, <1>4, <2>2, KeepsPromise DEF Following
  <2> QED
    BY <2>1, <2>2
<1>7. ReportOf(r)' /\ \A s \in Requests \ {r} : ApartFrom(r, s)' /\ ApartFrom(s, r)'
  <2>1. pc'[r] # "family_revoked"
    BY <1>1, <1>3 DEF Following
  <2> QED
    BY <1>1, <1>2, <1>3, <2>1, KeepsApart DEF ReportOf
<1> QED
  BY <1>5, <1>6, <1>7 DEF KeptOf

LEMMA EndKept ==
    ASSUME Inv, NEW r \in Requests, End(r)
    PROVE  KeptOf(r)'
<1>1. /\ Step(r) /\ answer[r] = None /\ op[r] # None
      /\ pc[r] = "end" /\ op[r] \in {"login", "logout", "logout_all"}
      /\ r \notin broken /\ todo[r] = {}
  BY NoneAssumption, Here DEF Step, End, At, OverOf, StepOf, StackOf
<1>2. UNCHANGED <<op, promised>>
  BY DEF End, history
<1>3. pc'[r] = Following(op[r], "end") /\ cur' = cur /\ todo' = todo
  BY <1>1, ProceedSteps, FollowingSteps, Here DEF End
<1>4. Keeps(r)
  BY <1>1, SameKeeps, CommitKeeps, PopEffect, WhereFrames, Here DEF End
<1>5. LoginOf(r)' /\ RevokedOf(r)' /\ TellsOf(r)'
  BY <1>1, <1>2, <1>3, <1>4, KeepsLogin DEF Following
<1>6. PromiseOf(r)'
  BY <1>1, <1>2, <1>3, <1>4, KeepsPromise
<1>7. ReportOf(r)' /\ \A s \in Requests \ {r} : ApartFrom(r, s)' /\ ApartFrom(s, r)'
  <2>1. pc'[r] # "family_revoked"
    BY <1>3 DEF Following
  <2> QED
    BY <1>1, <1>2, <1>3, <1>4, <2>1, KeepsApart DEF ReportOf, Keeps
<1> QED
  BY <1>5, <1>6, <1>7 DEF KeptOf

LEMMA OpenFamilyKept ==
    ASSUME Inv, NEW r \in Requests, OpenFamily(r)
    PROVE  KeptOf(r)'
<1> DEFINE g == cur[r]
<1>1. /\ Step(r) /\ op[r] = "login" /\ g \in Families /\ fam[g] = "none"
      /\ pc[r] = "open"
  BY WhereFrames, Here DEF Step, OpenFamily, At, StepOf, LoginOf
<1>2. /\ pc'[r] = "end" /\ cur'[r] = g /\ op'[r] = "login"
  BY <1>1, ProceedSteps, FollowingSteps, Here DEF OpenFamily, Following
<1>3. /\ Depth(r) # 0 /\ Pending(r)' = Pending(r) \cup {Opened(g)} /\ fam' = fam
  <2>1. {Opened(g)} \in SUBSET Changes /\ Write(r, {Opened(g)})
    BY <1>1, ChangesOf DEF OpenFamily
  <2>2. Depth(r) # 0
    BY <1>1, Here DEF StackOf, Around, Within
  <2> QED
    BY <2>1, <2>2, WriteEffect, Here DEF database
<1>4. LoginOf(r)'
  BY <1>1, <1>2, <1>3, Here DEF LoginOf, Opened
<1>5. \A f \in Families : Revoked(f) \in Pending(r)' <=> Revoked(f) \in Pending(r)
  BY <1>3 DEF Opened, Revoked
<1>6. RevokedOf(r)'
  BY <1>3, <1>5, Here DEF RevokedOf
<1>7. TellsOf(r)'
  <2>1. ASSUME NEW c \in Receivers, NEW f \in Families
        PROVE  /\ Heard(<<c, "token_issued", f>>) \in Pending(r)' =>
                     fam'[f] # "none" \/ Opened(f) \in Pending(r)'
               /\ Heard(<<c, "family_revoked", f>>) \in Pending(r)' =>
                     Revoked(f) \in Pending(r)'
    <3>1. \A row : Heard(row) \in Pending(r)' => Heard(row) \in Pending(r)
      BY <1>3 DEF Heard, Opened
    <3> QED
      BY <1>3, <3>1, Here DEF TellsOf
  <2> QED
    BY Zenon, <2>1 DEF TellsOf
<1>8. PromiseOf(r)' /\ ReportOf(r)'
  BY <1>2 DEF PromiseOf, ReportOf, Reporting
<1>9. \A s \in Requests \ {r} : ApartFrom(r, s)' /\ ApartFrom(s, r)'
  BY <1>1, <1>2, <1>5, KeepsApart
<1> QED
  BY <1>4, <1>6, <1>7, <1>8, <1>9 DEF KeptOf

LEMMA SelectFamiliesKept ==
    ASSUME Inv, NEW r \in Requests, SelectFamilies(r)
    PROVE  KeptOf(r)'
<1> DEFINE standing == {f \in Families : Stands(r, f)}
<1>1. /\ Step(r) /\ answer[r] = None /\ op[r] = "logout_all" /\ pc[r] = "select"
      /\ todo[r] = {}
  BY Here DEF Step, SelectFamilies, At, OverOf, StepOf
<1>2. Pending(r)' = Pending(r) /\ UNCHANGED database /\ UNCHANGED op
  BY DEF SelectFamilies, Pending, Depth
<1>3. GoOn(r, standing) /\ promised'[r] = standing
  BY Here DEF SelectFamilies, TypeOK
<1>4. \A f \in standing : f \in Families /\ fam[f] # "none"
  <2>1. ASSUME NEW f \in standing, Opened(f) \in Pending(r) PROVE FALSE
    BY <1>1, <2>1, Here DEF LoginOf
  <2> QED
    BY <2>1 DEF Stands
<1>5. \/ standing = {} /\ pc'[r] = "end" /\ cur' = cur /\ todo' = todo
      \/ pc'[r] = "update" /\ cur'[r] \in standing /\ todo'[r] = standing \ {cur'[r]}
  BY <1>1, <1>3, GoOnSteps, Here DEF AfterRevoking
<1> HIDE DEF standing
<1>6. Keeps(r)
  BY <1>2, SameKeeps
<1>7. LoginOf(r)' /\ RevokedOf(r)' /\ TellsOf(r)'
  BY <1>1, <1>2, <1>6, KeepsLogin
<1>8. PromiseOf(r)'
  <2>1. \A f \in promised'[r] \cup todo'[r] \cup {cur'[r]} : fam[f] # "none"
    BY <1>1, <1>3, <1>4, <1>5, Here DEF PromiseOf, Reporting
  <2>2. \A f \in promised'[r] : (pc'[r] = "update" /\ f = cur'[r]) \/ f \in todo'[r]
    BY <1>3, <1>5
  <2> QED
    BY <1>2, <2>1, <2>2 DEF PromiseOf, database
<1>9. ReportOf(r)' /\ \A s \in Requests \ {r} : ApartFrom(r, s)' /\ ApartFrom(s, r)'
  <2>1. pc'[r] # "family_revoked"
    BY <1>5
  <2> QED
    BY <1>1, <1>2, <2>1, KeepsApart DEF ReportOf
<1> QED
  BY <1>7, <1>8, <1>9 DEF KeptOf

LEMMA UpdateKept ==
    ASSUME Inv, NEW r \in Requests, Update(r)
    PROVE  KeptOf(r)'
<1> DEFINE g == cur[r]
<1>1. /\ Step(r) /\ answer[r] = None /\ op[r] \in Reporting /\ pc[r] = "update"
      /\ g \in Families /\ sending[r] = None
  BY WhereFrames, Here DEF Step, Update, At, OverOf, StepOf
<1>2. op' = op /\ promised' = promised /\ sending' = sending
  BY DEF Update, history
<1>3. CASE ~Stands(r, g)
  <2>1. Pending(r)' = Pending(r) /\ UNCHANGED database
    BY <1>3 DEF Update, Pending, Depth
  <2>2. todo[r] \in SUBSET Families /\ GoOn(r, todo[r])
    BY <1>3, UpdateSteps, Here DEF TypeOK
  <2>3. \/ /\ todo[r] = {} /\ pc'[r] = AfterRevoking(op[r])
           /\ cur' = cur /\ todo' = todo
        \/ /\ pc'[r] = "update" /\ cur'[r] \in todo[r]
           /\ todo'[r] = todo[r] \ {cur'[r]}
    BY <2>2, GoOnSteps, Here
  <2>4. fam[g] = "revoked" \/ Revoked(g) \in Pending(r)
    <3>1. fam[g] \in {"none", "live", "revoked"} /\ fam[g] # "none"
      BY <1>1, Here DEF PromiseOf, TypeOK
    <3> QED
      BY <1>3, <3>1 DEF Stands
  <2>5. Keeps(r)
    BY <2>1, SameKeeps
  <2>6. pc'[r] # "family_revoked" /\ op[r] # "login"
    BY <1>1, <2>3 DEF AfterRevoking, Reporting
  <2>7. LoginOf(r)' /\ RevokedOf(r)' /\ TellsOf(r)'
    BY <1>1, <1>2, <2>5, <2>6, KeepsLogin
  <2>8. PromiseOf(r)'
    BY <1>1, <1>2, <2>3, <2>4, <2>5, KeepsPromise
  <2>9. ReportOf(r)' /\ \A s \in Requests \ {r} : ApartFrom(r, s)' /\ ApartFrom(s, r)'
    BY <1>1, <1>2, <2>1, <2>6, KeepsApart DEF ReportOf
  <2> QED
    BY <2>7, <2>8, <2>9 DEF KeptOf
<1>4. CASE Stands(r, g)
  <2>1. pc'[r] = "family_revoked" /\ cur' = cur /\ todo' = todo
    BY <1>4, UpdateSteps, Here
  <2>2. /\ fam[g] = "live"
        /\ \A s \in Requests \ {r} :
              Revoked(g) \notin Pending(s) /\ ~(pc[s] = "family_revoked" /\ cur[s] = g)
    BY <1>4, UpdateLawful
  <2>3. \/ /\ Depth(r)' = 0 /\ Pending(r)' = {} /\ Pending(r) = {}
           /\ Committed({Revoked(g)})
        \/ /\ Depth(r)' # 0 /\ Pending(r)' = Pending(r) \cup {Revoked(g)}
           /\ UNCHANGED database
    <3>1. {Revoked(g)} \in SUBSET Changes /\ Write(r, {Revoked(g)})
      BY <1>1, <1>4, ChangesOf DEF Update
    <3> QED
      BY <3>1, WriteEffect, NothingPending, Here
  <2>4. ASSUME NEW f \in Families
        PROVE  /\ f # g => fam'[f] = fam[f]
               /\ Revoked(g) \in Pending(r)' \/ fam'[g] = "revoked"
               /\ Revoked(g) \in Pending(r)' => fam'[g] = "live"
               /\ fam'[g] # "none"
               /\ Opened(f) \in Pending(r)' => Opened(f) \in Pending(r)
               /\ Revoked(f) \in Pending(r)' => Revoked(f) \in Pending(r) \/ f = g
               /\ Revoked(f) \in Pending(r) => Revoked(f) \in Pending(r)'
    <3>1. CASE Committed({Revoked(g)}) /\ Pending(r)' = {} /\ Pending(r) = {}
      BY <1>1, <3>1 DEF Committed, FamAfter, Opened, Revoked
    <3>2. CASE Pending(r)' = Pending(r) \cup {Revoked(g)} /\ UNCHANGED database
      BY <2>2, <3>2 DEF database, Opened, Revoked
    <3> QED
      BY <2>3, <3>1, <3>2
  <2>5. LoginOf(r)'
    BY <1>1, <1>2, <2>4, Here DEF LoginOf, Reporting
  <2>6. RevokedOf(r)'
    BY <2>4, Here DEF RevokedOf
  <2>7. TellsOf(r)'
    <3>1. CASE Pending(r)' = {}
      BY Zenon, <3>1 DEF TellsOf
    <3>2. CASE Pending(r)' = Pending(r) \cup {Revoked(g)} /\ UNCHANGED database
      <4>1. ASSUME NEW c \in Receivers, NEW f \in Families
            PROVE  /\ Heard(<<c, "token_issued", f>>) \in Pending(r)' =>
                         fam'[f] # "none" \/ Opened(f) \in Pending(r)'
                   /\ Heard(<<c, "family_revoked", f>>) \in Pending(r)' =>
                         Revoked(f) \in Pending(r)'
        <5>1. \A row : Heard(row) \in Pending(r)' => Heard(row) \in Pending(r)
          BY <3>2 DEF Heard, Revoked
        <5> QED
          BY <3>2, <5>1, Here DEF TellsOf, database
      <4> QED
        BY Zenon, <4>1 DEF TellsOf
    <3> QED
      BY <2>3, <3>1, <3>2
  <2>8. PromiseOf(r)'
    <3>1. \A f \in promised'[r] \cup todo'[r] \cup {cur'[r]} : fam'[f] # "none"
      <4>1. promised[r] \cup todo[r] \subseteq Families
        BY Here DEF TypeOK
      <4> QED
        BY <1>1, <1>2, <2>1, <2>4, <4>1, Here DEF PromiseOf
    <3>2. ASSUME NEW f \in promised'[r]
          PROVE  fam'[f] = "revoked" \/ Revoked(f) \in Pending(r)' \/ f \in todo'[r]
      <4>1. f \in promised[r] /\ f \in Families /\ answer[r] # "error"
        BY <1>1, <1>2, NoneAssumption, Here DEF TypeOK
      <4>2. fam[f] = "revoked" \/ Revoked(f) \in Pending(r) \/ f = g \/ f \in todo[r]
        BY <1>1, <4>1, Here DEF PromiseOf
      <4> QED
        BY <2>1, <2>4, <4>1, <4>2
    <3> QED
      BY <3>1, <3>2 DEF PromiseOf
  <2>9. ReportOf(r)'
    <3>1. CASE Depth(r)' # 0
      BY <2>1, <2>3, <3>1 DEF ReportOf
    <3>2. CASE Depth(r)' = 0
      <4>1. fam'[g] = "revoked" /\ heard' = heard
        BY <1>1, <2>3, <3>2, Here
           DEF Committed, FamAfter, HeardAfter, TypeOK, Revoked, Heard
      <4>2. ASSUME NEW c \in Receivers PROVE heard[<<c, "family_revoked", g>>] = 0
        <5>1. <<c, "family_revoked", g>> \in Rows
          BY <1>1 DEF Rows
        <5>2. PICK n \in Nat : n = heard[<<c, "family_revoked", g>>]
          BY <5>1, Here DEF TypeOK, Counted
        <5>3. ~(n > 0)
          BY <1>1, <2>2, <5>2, Here DEF RowsAreTrue
        <5> QED
          BY <5>2, <5>3
      <4> QED
        BY <2>1, <3>2, <4>1, <4>2 DEF ReportOf
    <3> QED
      BY <3>1, <3>2
  <2>10. ASSUME NEW s \in Requests \ {r} PROVE ApartFrom(r, s)' /\ ApartFrom(s, r)'
    <3>1. Untouched(s) /\ ApartFrom(r, s)
      BY <1>1, <2>10, OthersUntouched, Here
    <3>2. Pending(s)' = Pending(s)
      BY <3>1 DEF Untouched, Pending, Depth
    <3>3. pc'[s] = "family_revoked" => cur'[s] # cur'[r]
      BY <2>1, <2>2, <3>1 DEF Untouched
    <3>4. \A f \in Families : ~(Revoked(f) \in Pending(r)' /\ Revoked(f) \in Pending(s)')
      BY <2>2, <2>4, <3>1, <3>2 DEF ApartFrom
    <3>5. op'[r] # "login"
      BY <1>1, <1>2 DEF Reporting
    <3> QED
      BY <3>3, <3>4, <3>5 DEF ApartFrom
  <2> QED
    BY <2>5, <2>6, <2>7, <2>8, <2>9, <2>10 DEF KeptOf
<1> QED
  BY <1>3, <1>4

LEMMA BeginSendKept ==
    ASSUME Inv, NEW r \in Requests, BeginSend(r)
    PROVE  KeptOf(r)'
<1>1. /\ Step(r) /\ answer[r] = None /\ pc[r] \in Events /\ sending[r] = None
  BY Here DEF Step, BeginSend, At, OverOf, Events
<1>2. UNCHANGED <<database, op, pc, cur, todo, answer, promised>>
  BY DEF BeginSend
<1>3. Pending(r)' = Pending(r) /\ (Depth(r) = 0 => Depth(r)' = 0)
  <2>1. CASE Saved(r)
    BY <2>1, PushEffect, Here DEF BeginSend, Saved
  <2>2. CASE ~Saved(r)
    BY <2>2 DEF BeginSend, Pending, Depth
  <2> QED
    BY <2>1, <2>2
<1>4. Keeps(r)
  BY <1>2, <1>3, SameKeeps
<1>5. LoginOf(r)' /\ RevokedOf(r)' /\ TellsOf(r)'
  BY <1>1, <1>2, <1>4, KeepsLogin DEF database
<1>6. PromiseOf(r)'
  BY <1>1, <1>2, <1>4, KeepsPromise DEF Events
<1>7. ReportOf(r)'
  <2>1. ReportOf(r)
    BY Here
  <2> QED
    BY <1>1, <1>2, <1>3, <2>1 DEF ReportOf, database
<1>8. \A s \in Requests \ {r} : ApartFrom(r, s)' /\ ApartFrom(s, r)'
  BY <1>1, <1>2, <1>3, KeepsApart
<1> QED
  BY <1>5, <1>6, <1>7, <1>8 DEF KeptOf

LEMMA CallKept ==
    ASSUME Inv, NEW r \in Requests, NEW c \in Callees, Call(r, c)
    PROVE  KeptOf(r)'
<1> DEFINE row == <<c, pc[r], cur[r]>>
<1>1. /\ Step(r) /\ answer[r] = None /\ pc[r] \in Events /\ sending[r] # None
      /\ c \in queue[r]
  BY WhereFrames, Here DEF Step, Call, OverOf
<1>2. UNCHANGED <<op, pc, cur, todo, sending, answer, promised>> /\ c \notin queue'[r]
      /\ queue'[r] \subseteq queue[r]
  BY Here DEF Call, TypeOK
<1>3. CASE UNCHANGED <<database, frames>>
  <2>1. Pending(r)' = Pending(r) /\ Depth(r)' = Depth(r)
    BY <1>3 DEF Pending, Depth
  <2>2. Keeps(r)
    BY <1>3, <2>1, SameKeeps
  <2>3. LoginOf(r)' /\ RevokedOf(r)' /\ TellsOf(r)'
    BY <1>1, <1>2, <1>3, <2>2, KeepsLogin DEF database
  <2>4. PromiseOf(r)'
    BY <1>1, <1>2, <2>2, KeepsPromise DEF Events
  <2>5. ReportOf(r)'
    <3>1. ReportOf(r)
      BY Here
    <3> QED
      BY <1>1, <1>2, <1>3, <2>1, <3>1 DEF ReportOf, database
  <2>6. \A s \in Requests \ {r} : ApartFrom(r, s)' /\ ApartFrom(s, r)'
    BY <1>1, <1>2, <2>1, KeepsApart
  <2> QED
    BY <2>3, <2>4, <2>5, <2>6 DEF KeptOf
<1>4. CASE row \in Rows /\ Heard(row) \in Changes /\ Write(r, {Heard(row)})
  <2>1. /\ c \in Receivers /\ cur[r] \in Families
        /\ pc[r] \in {"token_issued", "family_revoked"}
        /\ pc[r] = "token_issued" =>
              fam[cur[r]] # "none" \/ Opened(cur[r]) \in Pending(r)
        /\ pc[r] = "family_revoked" =>
              \/ Revoked(cur[r]) \in Pending(r)
              \/ Depth(r) = 0 /\ fam[cur[r]] = "revoked"
    BY <1>4, CallTells
  <2>2. /\ Depth(r)' = Depth(r) /\ fam' = fam
        /\ \/ Depth(r) = 0 /\ Pending(r)' = Pending(r)
           \/ Depth(r) # 0 /\ Pending(r)' = Pending(r) \cup {Heard(row)}
    <3>1. Committed({Heard(row)}) => fam' = fam
      BY Here DEF Committed, FamAfter, TypeOK, Heard, Opened, Revoked
    <3> QED
      BY <1>4, <3>1, WriteEffect, Here DEF database
  <2>3. ASSUME NEW f \in Families
        PROVE  /\ Opened(f) \in Pending(r)' <=> Opened(f) \in Pending(r)
               /\ Revoked(f) \in Pending(r)' <=> Revoked(f) \in Pending(r)
    BY <2>2 DEF Opened, Revoked, Heard
  <2>4. TellsOf(r)'
    <3>1. ASSUME NEW d, NEW e, NEW f, Heard(<<d, e, f>>) \in Pending(r)'
          PROVE  \/ Heard(<<d, e, f>>) \in Pending(r)
                 \/ e = pc[r] /\ f = cur[r] /\ Depth(r) # 0
      <4>1. Heard(<<d, e, f>>) = Heard(row) => e = pc[r] /\ f = cur[r]
        <5>1. Heard(<<d, e, f>>) = Heard(row) => <<d, e, f>> = row
          BY DEF Heard
        <5> QED
          BY <5>1
      <4> QED
        BY <2>2, <3>1, <4>1
    <3>2. ASSUME NEW d \in Receivers, NEW f \in Families
          PROVE  /\ Heard(<<d, "token_issued", f>>) \in Pending(r)' =>
                       fam'[f] # "none" \/ Opened(f) \in Pending(r)'
                 /\ Heard(<<d, "family_revoked", f>>) \in Pending(r)' =>
                       Revoked(f) \in Pending(r)'
      <4>1. /\ Heard(<<d, "token_issued", f>>) \in Pending(r) =>
                  fam[f] # "none" \/ Opened(f) \in Pending(r)
            /\ Heard(<<d, "family_revoked", f>>) \in Pending(r) =>
                  Revoked(f) \in Pending(r)
        BY Here DEF TellsOf
      <4> QED
        BY <2>1, <2>2, <2>3, <3>1, <4>1
    <3> QED
      BY Zenon, <3>2 DEF TellsOf
  <2>5. Keeps(r)
    BY <2>2, <2>3, <2>4 DEF Keeps
  <2>6. LoginOf(r)' /\ RevokedOf(r)' /\ TellsOf(r)'
    BY <1>1, <1>2, <2>2, <2>5, KeepsLogin
  <2>7. PromiseOf(r)'
    BY <1>1, <1>2, <2>5, KeepsPromise DEF Events
  <2>8. ReportOf(r)'
    <3>1. CASE Revoked(cur[r]) \in Pending(r)
      BY <1>2, <2>1, <2>3, <3>1 DEF ReportOf
    <3>2. CASE Revoked(cur[r]) \notin Pending(r) /\ pc[r] = "family_revoked"
      <4>1. Depth(r) = 0 /\ fam[cur[r]] = "revoked"
        BY <2>1, <3>2
      <4>2. Committed({Heard(row)})
        BY <1>4, <4>1, WriteEffect, Here
      <4>3. ASSUME NEW d \in Receivers, d \in queue'[r]
            PROVE  heard'[<<d, "family_revoked", cur[r]>>] = 0
        <5>1. <<d, "family_revoked", cur[r]>> \in Rows
          BY <2>1 DEF Rows
        <5>2. heard[<<d, "family_revoked", cur[r]>>] = 0
          BY <1>1, <1>2, <3>2, <4>3, Here DEF ReportOf
        <5>3. Heard(<<d, "family_revoked", cur[r]>>) # Heard(row)
          <6>1. <<d, "family_revoked", cur[r]>> # row
            BY <1>2, <4>3
          <6> QED
            BY <6>1 DEF Heard
        <5> QED
          BY <4>2, <5>1, <5>2, <5>3 DEF Committed, HeardAfter
      <4> QED
        BY <1>1, <1>2, <2>2, <4>1, <4>3 DEF ReportOf
    <3>3. CASE pc[r] # "family_revoked"
      BY <1>2, <3>3 DEF ReportOf
    <3> QED
      BY <3>1, <3>2, <3>3
  <2>9. \A s \in Requests \ {r} : ApartFrom(r, s)' /\ ApartFrom(s, r)'
    BY <1>1, <1>2, <2>3, KeepsApart
  <2> QED
    BY <2>6, <2>7, <2>8, <2>9 DEF KeptOf
<1> QED
  BY <1>3, <1>4, CallEffect, Here

LEMMA EndSendKept ==
    ASSUME Inv, NEW r \in Requests, EndSend(r)
    PROVE  KeptOf(r)'
<1>1. /\ Step(r) /\ answer[r] = None /\ pc[r] \in Events /\ op[r] # None
      /\ todo[r] \in SUBSET Families
  BY WhereFrames, Here DEF Step, EndSend, OverOf, TypeOK
<1>2. UNCHANGED <<op, promised>>
  BY DEF EndSend, history
<1>3. Keeps(r)
  <2>1. CASE sending[r] = "saved"
    <3>1. Pop(r) /\ Depth(r) >= 2 /\ frames[r][Depth(r)] \subseteq {"heard"} \X Rows
      BY <2>1, Here DEF EndSend, StackOf
    <3>2. \/ Pending(r)' = Pending(r) /\ UNCHANGED database
          \/ /\ Pending(r)' \subseteq Pending(r)
             /\ Pending(r) \subseteq Pending(r)' \cup frames[r][Depth(r)]
             /\ UNCHANGED database
      <4>1. Depth(r) # 0 /\ Depth(r) # 1
        BY <3>1, Here
      <4> QED
        BY <3>1, <4>1, PopEffect, Here
    <3> QED
      BY <3>1, <3>2, SameKeeps, RollbackKeeps
  <2>2. CASE sending[r] # "saved"
    <3>1. UNCHANGED <<database, frames>>
      BY <2>2 DEF EndSend
    <3>2. Pending(r)' = Pending(r)
      BY <3>1 DEF Pending, Depth
    <3> QED
      BY <3>1, <3>2, SameKeeps
  <2> QED
    BY <2>1, <2>2
<1>4. \/ /\ pc[r] = "family_revoked" /\ op[r] \in Reporting
         /\ todo[r] = {} /\ pc'[r] = AfterRevoking(op[r]) /\ cur' = cur /\ todo' = todo
      \/ /\ pc[r] = "family_revoked" /\ op[r] \in Reporting
         /\ pc'[r] = "update" /\ cur'[r] \in todo[r] /\ todo'[r] = todo[r] \ {cur'[r]}
      \/ /\ pc[r] # "family_revoked" /\ pc'[r] = Following(op[r], pc[r])
         /\ todo[r] = {} /\ cur' = cur /\ todo' = todo
  BY <1>1, EndSendSteps, GoOnSteps, Here DEF StepOf, Events
<1>5. pc'[r] \notin {"family_revoked", "begin", "open"} /\ pc[r] \notin {"begin", "open"}
  BY <1>1, <1>4 DEF AfterRevoking, Following, Events
<1>6. op[r] = "login" => cur'[r] = cur[r]
  BY <1>4 DEF Reporting
<1>7. LoginOf(r)' /\ RevokedOf(r)' /\ TellsOf(r)'
  BY <1>1, <1>2, <1>3, <1>5, <1>6, KeepsLogin
<1>8. PromiseOf(r)'
  BY <1>1, <1>2, <1>3, <1>4, KeepsPromise DEF Events
<1>9. ReportOf(r)'
  BY <1>5 DEF ReportOf
<1>10. \A s \in Requests \ {r} : ApartFrom(r, s)' /\ ApartFrom(s, r)'
  BY <1>1, <1>2, <1>3, <1>5, <1>6, KeepsApart DEF Keeps
<1> QED
  BY <1>7, <1>8, <1>9, <1>10 DEF KeptOf

LEMMA AnswerKept ==
    ASSUME Inv, NEW r \in Requests, Answer(r)
    PROVE  KeptOf(r)'
<1>1. /\ Step(r) /\ answer[r] = None /\ op[r] # None /\ pc[r] = "done"
      /\ sending[r] = None /\ r \notin broken /\ todo[r] = {}
  BY NoneAssumption, Here DEF Step, Answer, At, StepOf, StackOf
<1>2. UNCHANGED <<op, pc, cur, todo, promised>>
  BY DEF Answer, history
<1>3. Keeps(r)
  <2>1. CASE Depth(r) = 0
    <3>1. UNCHANGED <<database, frames>>
      BY <2>1 DEF Answer
    <3>2. Pending(r)' = Pending(r)
      BY <3>1 DEF Pending, Depth
    <3> QED
      BY <3>1, <3>2, SameKeeps
  <2>2. CASE Depth(r) # 0
    BY <1>1, <2>2, PopEffect, SameKeeps, CommitKeeps, Here DEF Answer
  <2> QED
    BY <2>1, <2>2
<1>4. LoginOf(r)' /\ RevokedOf(r)' /\ TellsOf(r)'
  BY <1>1, <1>2, <1>3, KeepsLogin
<1>5. PromiseOf(r)'
  BY <1>1, <1>2, <1>3, KeepsPromise
<1>6. ReportOf(r)'
  BY <1>1, <1>2 DEF ReportOf
<1>7. \A s \in Requests \ {r} : ApartFrom(r, s)' /\ ApartFrom(s, r)'
  BY <1>1, <1>2, <1>3, KeepsApart DEF Keeps
<1> QED
  BY <1>4, <1>5, <1>6, <1>7 DEF KeptOf

LEMMA EndingKept ==
    ASSUME Inv, NEW r \in Requests, Fail(r) \/ Release(r)
    PROVE  KeptOf(r)'
<1>1. Step(r) /\ UNCHANGED database
  BY DEF Step, Fail, Release
<1>2. Pending(r)' = {} /\ pc'[r] = "done"
  <2>1. frames'[r] = <<>> /\ pc'[r] = "done"
    BY Here DEF Fail, Release, TypeOK, OverOf
  <2> QED
    BY <2>1, EmptySeq DEF Pending, Depth
<1>3. \/ op'[r] = op[r] /\ cur' = cur /\ todo'[r] = {} /\ promised' = promised
         /\ answer'[r] = "error"
      \/ op'[r] = None
  BY Here DEF Fail, Release, TypeOK, history
<1>4. LoginOf(r)' /\ RevokedOf(r)'
  BY <1>2, <1>3, NoneAssumption DEF LoginOf, RevokedOf
<1>5. TellsOf(r)'
  BY Zenon, <1>2 DEF TellsOf
<1>6. PromiseOf(r)' /\ ReportOf(r)'
  <2>1. PromiseOf(r) /\ None \notin Reporting
    BY NoneAssumption, Here DEF Reporting
  <2> QED
    BY <1>1, <1>2, <1>3, <2>1 DEF PromiseOf, ReportOf, database
<1>7. \A s \in Requests \ {r} : ApartFrom(r, s)' /\ ApartFrom(s, r)'
  BY <1>1, <1>2, <1>3, NoneAssumption, KeepsApart
<1> QED
  BY <1>4, <1>5, <1>6, <1>7 DEF KeptOf

-----------------------------------------------------------------------------
(* The invariant holds, and with it the properties.                        *)

LEMMA StepInv ==
    ASSUME Inv, NEW r \in Requests, Step(r)
    PROVE  Inv'
<1>1. KeptOf(r)'
  BY ArriveKept, BeginKept, EndKept, OpenFamilyKept, SelectFamiliesKept, UpdateKept,
     BeginSendKept, CallKept, EndSendKept, AnswerKept, EndingKept DEF Step
<1>2. Base'
  BY BaseNext, Here DEF Next, Step
<1>3. ASSUME NEW s \in Requests
      PROVE  LoginOf(s)' /\ RevokedOf(s)' /\ PromiseOf(s)' /\ TellsOf(s)' /\ ReportOf(s)'
  BY <1>1, OthersKeep DEF KeptOf
<1>4. ASSUME NEW p \in Requests, NEW q \in Requests, p # q PROVE ApartFrom(p, q)'
  <2>1. CASE p = r \/ q = r
    BY <1>1, <1>4, <2>1 DEF KeptOf
  <2>2. CASE p # r /\ q # r
    <3>1. Untouched(p) /\ Untouched(q) /\ ApartFrom(p, q)
      BY <1>4, <2>2, OthersUntouched, Here
    <3>2. Pending(p)' = Pending(p) /\ Pending(q)' = Pending(q)
      BY <3>1 DEF Untouched, Pending, Depth
    <3> QED
      BY <3>1, <3>2 DEF ApartFrom, Untouched
  <2> QED
    BY <2>1, <2>2
<1>5. RowsAreTrue'
  BY StepMoves DEF Moved
<1> QED
  BY <1>2, <1>3, <1>4, <1>5 DEF Inv, Truth, Rowed

LEMMA InvInit == Init => Inv
<1> SUFFICES ASSUME Init PROVE Inv
  OBVIOUS
<1>1. ASSUME NEW r \in Requests PROVE Pending(r) = {} /\ op[r] = None /\ pc[r] = "done"
  BY NothingPending, EmptySeq DEF Init, Depth
<1>2. ASSUME NEW r \in Requests
      PROVE  LoginOf(r) /\ RevokedOf(r) /\ PromiseOf(r) /\ ReportOf(r)
  BY <1>1, NoneAssumption DEF LoginOf, RevokedOf, PromiseOf, ReportOf, Reporting
<1>3. ASSUME NEW r \in Requests PROVE TellsOf(r)
  BY Zenon, <1>1 DEF TellsOf
<1>4. ASSUME NEW r \in Requests, NEW s \in Requests PROVE ApartFrom(r, s)
  BY <1>1, NoneAssumption DEF ApartFrom
<1>5. RowsAreTrue
  <2>1. \A row \in Rows : heard[row] = 0
    BY DEF Init
  <2>2. \A c \in Receivers, f \in Families :
           <<c, "token_issued", f>> \in Rows /\ <<c, "family_revoked", f>> \in Rows
    BY DEF Rows
  <2>3. ASSUME NEW c \in Receivers, NEW f \in Families
        PROVE  /\ ~(heard[<<c, "token_issued", f>>] > 0)
               /\ ~(heard[<<c, "family_revoked", f>>] > 0)
               /\ heard[<<c, "family_revoked", f>>] <= 1
    BY <2>1, <2>2
  <2> QED
    BY Zenon, <2>3 DEF RowsAreTrue
<1> QED
  BY <1>2, <1>3, <1>4, <1>5, BaseInit DEF Inv, Truth, Rowed

LEMMA InvNext == Inv /\ [Next]_vars => Inv'
<1> SUFFICES ASSUME Inv, [Next]_vars PROVE Inv'
  OBVIOUS
<1>1. ASSUME NEW r \in Requests, Step(r) PROVE Inv'
  BY <1>1, StepInv
<1>2. CASE UNCHANGED vars
  <2>1. Base'
    BY <1>2, BaseNext DEF Inv
  <2>2. UNCHANGED <<fam, heard, op, pc, cur, todo, frames, sending, queue, answer, promised>>
    BY <1>2 DEF vars, database, local, history
  <2>3. \A r \in Requests : Pending(r)' = Pending(r) /\ Depth(r)' = Depth(r)
    BY <2>2 DEF Pending, Depth
  <2>4. ASSUME NEW r \in Requests
        PROVE  LoginOf(r)' /\ RevokedOf(r)' /\ PromiseOf(r)' /\ ReportOf(r)'
    BY <2>2, <2>3, Here DEF LoginOf, RevokedOf, PromiseOf, ReportOf
  <2>5. ASSUME NEW r \in Requests PROVE TellsOf(r)'
    BY <2>2, <2>3, SameKeeps DEF Keeps, database
  <2>6. ASSUME NEW r \in Requests, NEW s \in Requests, r # s PROVE ApartFrom(r, s)'
    BY <2>2, <2>3, <2>6, Here DEF ApartFrom
  <2>7. RowsAreTrue'
    BY Zenon, <2>2 DEF RowsAreTrue, Inv, Rowed
  <2> QED
    BY <2>1, <2>4, <2>5, <2>6, <2>7 DEF Inv, Truth, Rowed
<1> QED
  BY <1>1, <1>2 DEF Next, Step

LEMMA InvAlways == Spec => []Inv
BY InvInit, InvNext, PTL DEF Spec

\* When a login, logout, logout-all or refusal for reuse is answered, the
\* database holds what it says, whatever the receivers and the hook raised,
\* wrote or broke, and in whatever transaction the view ran.
THEOREM ReceiversChangeNothing == Spec => []AnsweredMeansDone
<1>1. Inv => AnsweredMeansDone
  <2> SUFFICES ASSUME Inv, NEW r \in Requests, answer[r] = "ok", NEW f \in promised[r]
               PROVE  IF op[r] = "login" THEN fam[f] # "none" ELSE fam[f] = "revoked"
    BY DEF AnsweredMeansDone
  <2>1. /\ op[r] # None /\ pc[r] = "done" /\ todo[r] = {} /\ answer[r] # "error"
        /\ frames[r] = <<>> /\ op[r] \in Operations
    <3>1. answer[r] # None /\ answer[r] # "error" /\ OverOf(r) /\ StepOf(r)
          /\ op[r] \in Operations \cup {None}
      BY NoneAssumption, Here DEF TypeOK
    <3> QED
      BY <3>1 DEF OverOf, StepOf
  <2>2. Pending(r) = {}
    BY <2>1, NothingPending, EmptySeq DEF Depth
  <2>3. CASE op[r] = "login"
    BY <2>1, <2>2, <2>3, Here DEF LoginOf, StepOf
  <2>4. CASE op[r] \in Reporting
    BY <2>1, <2>2, <2>4, Here DEF PromiseOf, Reporting
  <2> QED
    BY <2>1, <2>3, <2>4 DEF Operations, Reporting
<1> QED
  BY <1>1, InvAlways, PTL

\* What receivers have written of logins and revocations is true and lasts, and
\* a revocation is recorded once: a rollback takes the row with what it tells of,
\* and the repetition writes it again.
THEOREM RecordsAreTrue == Spec => []RowsAreTrue
BY InvAlways, PTL DEF Inv, Rowed

\* A row written while no transaction is open stays, whatever the other
\* receivers of the event, or of later ones, raise or break.
THEOREM AutocommitIsKept == Spec => []AutocommitKeepsRows
<1>1. Init => AutocommitKeepsRows
  BY DEF Init, AutocommitKeepsRows
<1>2. Inv /\ AutocommitKeepsRows /\ [Next]_vars => AutocommitKeepsRows'
  <2> SUFFICES ASSUME Inv, AutocommitKeepsRows, [Next]_vars PROVE AutocommitKeepsRows'
    OBVIOUS
  <2>1. CASE UNCHANGED vars
    BY <2>1 DEF vars, database, history, AutocommitKeepsRows
  <2>2. ASSUME NEW r \in Requests, Step(r) PROVE AutocommitKeepsRows'
    <3>1. \A row \in kept : heard'[row] > 0
      BY <2>2, StepMoves, Here DEF Moved, AutocommitKeepsRows, TypeOK
    <3>2. CASE kept' = kept
      BY <3>1, <3>2 DEF AutocommitKeepsRows
    <3>3. ASSUME NEW c \in Callees, Call(r, c) PROVE AutocommitKeepsRows'
      <4>1. PICK row : row = <<c, pc[r], cur[r]>>
        OBVIOUS
      <4>2. \/ kept' = kept
            \/ row \in Rows /\ Unowned(r) /\ kept' = kept \cup {row}
               /\ Write(r, {Heard(row)})
        BY <3>3, <4>1 DEF Call
      <4>3. ASSUME row \in Rows, Unowned(r), Write(r, {Heard(row)}) PROVE heard'[row] > 0
        <5>1. Depth(r) = 0
          BY <3>3, <4>3, WhereFrames, Here DEF Unowned
        <5>2. heard'[row] = CountUp(heard[row]) /\ heard[row] \in Counted
          BY <4>3, <5>1, Here DEF Write, HeardAfter, TypeOK
        <5> QED
          BY <5>2 DEF CountUp, Counted
      <4> QED
        BY <3>1, <3>2, <4>2, <4>3 DEF AutocommitKeepsRows
    <3> QED
      BY <2>2, <3>2, <3>3 DEF Step, history, Arrive, Begin, End, OpenFamily,
         SelectFamilies, Update, BeginSend, EndSend, Answer, Fail, Release
  <2> QED
    BY <2>1, <2>2 DEF Next, Step
<1> QED
  BY <1>1, <1>2, InvAlways, PTL DEF Spec

=============================================================================
