-------------------------- MODULE CacheStoreProofs --------------------------
(***************************************************************************)
(* What CacheStore promises for every number of workers, sessions, tokens  *)
(* and lifetimes, as long as sessions are not absurdly short and requests  *)
(* take no longer than a second.                                           *)
(***************************************************************************)
EXTENDS CacheStore, TLAPS

\* A session outlives the shortest timeout, two seconds at least, and a request
\* takes a second at most.  Times are in half seconds.
Prompt ==
    /\ MinTTL <= RefreshLifetime
    /\ 4 <= RefreshLifetime
    /\ MaxRequest <= 2

-----------------------------------------------------------------------------
(* Timeouts.                                                               *)

\* Rounding to seconds moves a time by half a second at most.
LEMMA Rounding ==
    ASSUME NEW x \in Int
    PROVE  /\ RoundDown(x) \in Int /\ RoundUp(x) \in Int
           /\ x - 1 <= RoundDown(x) /\ RoundDown(x) <= x
           /\ x <= RoundUp(x) /\ RoundUp(x) <= x + 1
BY DEF RoundDown, RoundUp

\* The entry of a new family leaves the cache when the family expires, or half
\* a second earlier.
LEMMA FamilyTimeout ==
    ASSUME Prompt, now \in Nat
    PROVE  /\ TTL(now + RefreshLifetime) \in Nat
           /\ RefreshLifetime - 1 <= TTL(now + RefreshLifetime)
           /\ TTL(now + RefreshLifetime) <= RefreshLifetime
<1>1. (now + RefreshLifetime) - now = RefreshLifetime /\ RefreshLifetime \in Int
  BY TimesAssumption
<1> QED
  BY <1>1, Rounding, TimesAssumption DEF TTL, AtLeast, Prompt

LEMMA TokenTimeout ==
    ASSUME now \in Nat, NEW exp \in Nat
    PROVE  TTL(exp) \in Nat \ {0}
<1>1. exp - now \in Int
  OBVIOUS
<1> QED
  BY <1>1, Rounding, TimesAssumption DEF TTL, AtLeast

\* A spent marker outlives its token by a second.
LEMMA SpentTimeout ==
    ASSUME now \in Nat, NEW exp \in Nat
    PROVE  /\ ConsumedTTL(exp) \in Nat
           /\ exp + 2 <= now + ConsumedTTL(exp)
<1>1. exp - now \in Int
  OBVIOUS
<1>2. RoundUp(exp - now) \in Int /\ exp - now <= RoundUp(exp - now)
  BY <1>1, Rounding
<1>3. /\ ConsumedTTL(exp) \in Int
      /\ RoundUp(exp - now) + 2 <= ConsumedTTL(exp)
      /\ MinTTL <= ConsumedTTL(exp)
  BY <1>2, TimesAssumption DEF ConsumedTTL, AtLeast
<1> QED
  BY <1>2, <1>3, TimesAssumption

\* A revocation marker outlives every access token of a family it knows, and
\* every one a family that is over could have.
LEMMA RevocationTimeout ==
    ASSUME now \in Nat, NEW f \in Families, familyExp \in [Families -> Nat],
           NEW known \in BOOLEAN
    PROVE  LET slack == RefreshLifetime + AccessLifetime + Leeway - 1
           IN  /\ RevocationTTL(f, known) \in Nat \ {0}
               /\ slack <= RevocationTTL(f, known)
               /\ known => familyExp[f] + slack
                            <= now + RevocationTTL(f, known)
<1> DEFINE remaining ==
      IF known /\ familyExp[f] > now THEN familyExp[f] - now ELSE 0
<1>1. /\ remaining \in Nat
      /\ known => familyExp[f] <= now + remaining
  BY DEF remaining
<1>2. RevocationTTL(f, known) =
        AtLeast(MinTTL, RoundDown(remaining + RefreshLifetime
                                            + AccessLifetime + Leeway))
  BY DEF RevocationTTL, remaining
<1> HIDE DEF remaining
<1>3. remaining + RefreshLifetime + AccessLifetime + Leeway \in Int
  BY <1>1, TimesAssumption
<1> QED
  BY SMTT(30), <1>1, <1>2, <1>3, Rounding, TimesAssumption DEF AtLeast

-----------------------------------------------------------------------------
(* The inductive invariant.                                                *)

\* A token once redeemed keeps its spent marker a second past its expiry, and
\* was signed before its family expired.
TokenInv(t) ==
    /\ tokenExp[t] > 0 => sid[t] \in Families /\ familyExp[sid[t]] > 0
    /\ token[t] > 0 => /\ tokenExp[t] > 0
                       /\ tokenExp[t] <= familyExp[sid[t]] + RefreshLifetime
    /\ live[t] <= 1
    /\ live[t] > 0 => token[t] > 0 /\ tokenExp[t] + 2 <= used[t]

\* The entry of a family is there until the family expires or is revoked, and
\* the marker of its revocation outlives both.
FamilyInv(f) ==
    /\ familyExp[f] = 0 => family[f] = 0 /\ revoked[f] = 0 /\ sent[f] = 0
    /\ revoked[f] = 0 => familyExp[f] <= family[f] + 1 /\ sent[f] = 0
    /\ family[f] <= familyExp[f]
    /\ revoked[f] > 0 =>
          familyExp[f] + AccessLifetime + Leeway + RefreshLifetime - 2
              <= revoked[f]
    /\ sent[f] <= 1

Consuming == {"family", "check", "claim", "recheck"}
Revoking  == {"find", "mark", "drop"}

\* What a worker still knows of what it has read.
ConsumingInv(r) ==
    /\ pc[r] \in Consuming => ans[r] = "none"
    /\ pc[r] \in Consuming => op[r] \in {"refresh", "logout"}
    /\ pc[r] \in Consuming /\ op[r] = "refresh" =>
          /\ next[r] \in Tokens
          /\ tokenExp[next[r]] = start[r] + RefreshLifetime
          /\ sid[next[r]] = Session(r)
    /\ pc[r] \in Consuming \ {"family"} => start[r] < familyExp[Session(r)]
    /\ pc[r] = "claim" => start[r] < tokenExp[arg[r]]
    /\ pc[r] \in {"claim", "recheck"} => late[r] = {}
    /\ pc[r] = "recheck" => /\ live[arg[r]] = 0
                            /\ tokenExp[arg[r]] + 2 <= used[arg[r]]
    /\ pc[r] = "issue" =>
          /\ next[r] \in Tokens
          /\ tokenExp[next[r]] > 0
          /\ tokenExp[next[r]] <= familyExp[sid[next[r]]] + RefreshLifetime

RevokingInv(r) ==
    /\ pc[r] = "mark" =>
          IF held[r] THEN start[r] < familyExp[Session(r)]
          ELSE revoked[Session(r)] > 0 \/ familyExp[Session(r)] <= now + 1
    /\ pc[r] = "drop" =>
          /\ revoked[Session(r)] > 0
          /\ held[r] => sent[Session(r)] = 0

RequestInv(r) ==
    /\ pc[r] # "idle" => start[r] <= now /\ now <= start[r] + MaxRequest
    /\ pc[r] = "idle" => ans[r] = "none" /\ late[r] = {}
    /\ ans[r] = "live" => late[r] = {}
    /\ pc[r] \in Consuming \cup Revoking => arg[r] \in Tokens /\ token[arg[r]] > 0
    /\ pc[r] \in Consuming =>
          /\ "revoked" \in late[r] => revoked[Session(r)] > 0
          /\ "expired" \in late[r] => familyExp[Session(r)] <= start[r]
    /\ ConsumingInv(r)
    /\ RevokingInv(r)

\* Only one worker has won the spent marker of a token and not yet answered,
\* only one the revocation marker of a family and not yet reported it.
PairInv(r, s) ==
    /\ pc[r] = "recheck" /\ pc[s] = "recheck" => arg[r] # arg[s]
    /\ pc[r] = "drop" /\ pc[s] = "drop" /\ held[r] /\ held[s]
          => Session(r) # Session(s)

Inv ==
    /\ TypeOK
    /\ \A t \in Tokens : TokenInv(t)
    /\ \A f \in Families : FamilyInv(f)
    /\ \A r \in Requests : RequestInv(r)
    /\ \A r, s \in Requests : r # s => PairInv(r, s)

LEMMA InvInit == Init => Inv
<1> SUFFICES ASSUME Init PROVE Inv
  OBVIOUS
<1> USE DEF Init
<1>1. TypeOK
  <2>1. \A t \in Tokens : token[t] > 0 => sid[t] \in Families
    OBVIOUS
  <2>2. /\ late \in [Requests -> SUBSET {"revoked", "expired"}]
        /\ sid \in [Tokens -> Families \cup {None}]
        /\ op \in [Requests -> Operations \cup {None}]
        /\ arg \in [Requests -> Tokens \cup {None}]
        /\ next \in [Requests -> Tokens \cup {None}]
    OBVIOUS
  <2> QED
    BY <2>1, <2>2 DEF TypeOK, PCs
<1>2. \A t \in Tokens : TokenInv(t)
  BY DEF TokenInv
<1>3. \A f \in Families : FamilyInv(f)
  BY DEF FamilyInv
<1>4. \A r \in Requests : RequestInv(r)
  BY DEF RequestInv, ConsumingInv, RevokingInv, Consuming, Revoking
<1>5. \A r, s \in Requests : r # s => PairInv(r, s)
  BY DEF PairInv
<1> QED
  BY <1>1, <1>2, <1>3, <1>4, <1>5 DEF Inv

\* The token a request presents, and the family it names, are stored.
Names(r) ==
    /\ arg[r] \in Tokens
    /\ token[arg[r]] > 0
    /\ tokenExp[arg[r]] > 0
    /\ Session(r) \in Families
    /\ familyExp[Session(r)] > 0

\* The successor a refresh holds has been signed.
LEMMA Signed ==
    ASSUME TypeOK, NEW r \in Requests, RequestInv(r),
           (pc[r] \in Consuming /\ op[r] = "refresh") \/ pc[r] = "issue"
    PROVE  next[r] \in Tokens /\ tokenExp[next[r]] > 0
<1>1. start[r] \in Nat /\ RefreshLifetime \in Nat \ {0}
  BY TimesAssumption DEF TypeOK
<1> QED
  BY <1>1 DEF RequestInv, ConsumingInv

LEMMA Named ==
    ASSUME Inv, NEW r \in Requests, pc[r] \in Consuming \cup Revoking
    PROVE  Names(r)
BY DEF Inv, RequestInv, TokenInv, Names, Session

-----------------------------------------------------------------------------
(* Each step preserves the invariant.                                      *)

LEMMA GetFamilyStep ==
    ASSUME Inv, Prompt, NEW r \in Requests, GetFamily(r)
    PROVE  Inv'
<1> USE DEF GetFamily, Goto, Finish, Session, entries, contents, local,
   history, Present, IsRevoked
<1>1. /\ now \in Nat
      /\ TypeOK
      /\ RequestInv(r)
      /\ \A t \in Tokens : TokenInv(t)
      /\ \A f \in Families : FamilyInv(f)
  BY DEF Inv, TypeOK
<1>a. Names(r) /\ TokenInv(arg[r]) /\ FamilyInv(Session(r))
  BY Named DEF Inv, Consuming, Revoking, Names
<1>2. TypeOK'
  BY <1>1, <1>a, TimesAssumption DEF TypeOK, PCs, Operations, TokenInv,
     RequestInv, ConsumingInv, Consuming, Revoking
<1>3. ASSUME NEW t \in Tokens PROVE TokenInv(t)'
  BY <1>1, <1>a, TimesAssumption DEF TypeOK, TokenInv, RequestInv,
     ConsumingInv, Consuming, Revoking
<1>4. ASSUME NEW f \in Families PROVE FamilyInv(f)'
  BY <1>1, <1>a, TimesAssumption DEF TypeOK, FamilyInv, RequestInv,
     RevokingInv, Consuming, Revoking, Prompt
<1>5. ASSUME NEW q \in Requests PROVE RequestInv(q)'
  <2>1. /\ RequestInv(q)
        /\ pc[q] \in Consuming \cup Revoking => Names(q)
        /\ q # r => PairInv(q, r)
    BY Named DEF Inv
  <2>2. CASE q = r
    BY <1>1, <2>1, <2>2, <1>a, TimesAssumption DEF TypeOK, Names, TokenInv,
       FamilyInv, RequestInv, ConsumingInv, RevokingInv, Consuming, Revoking,
       Prompt, PCs, Operations
  <2>3. CASE q # r
    BY <1>1, <2>1, <2>3, <1>a, TimesAssumption DEF TypeOK, PairInv, Names,
       TokenInv, FamilyInv, RequestInv, ConsumingInv, RevokingInv, Consuming,
       Revoking, Prompt, PCs, Operations
  <2> QED
    BY <2>2, <2>3
<1>6. ASSUME NEW p \in Requests, NEW q \in Requests, p # q PROVE PairInv(p, q)'
  BY <1>1, <1>6, <1>a, TimesAssumption DEF Inv, TypeOK, PairInv, RequestInv,
     ConsumingInv, RevokingInv, FamilyInv, TokenInv, Consuming, Revoking,
     Prompt
<1> QED
  BY <1>2, <1>3, <1>4, <1>5, <1>6 DEF Inv

LEMMA CheckStep ==
    ASSUME Inv, Prompt, NEW r \in Requests, Check(r)
    PROVE  Inv'
<1> USE DEF Check, Goto, Finish, Session, entries, contents, local, history,
   Present, IsRevoked
<1>1. /\ now \in Nat
      /\ TypeOK
      /\ RequestInv(r)
      /\ \A t \in Tokens : TokenInv(t)
      /\ \A f \in Families : FamilyInv(f)
  BY DEF Inv, TypeOK
<1>a. Names(r) /\ TokenInv(arg[r]) /\ FamilyInv(Session(r))
  BY Named DEF Inv, Consuming, Revoking, Names
<1>2. TypeOK'
  BY <1>1, <1>a, TimesAssumption DEF TypeOK, PCs, Operations, TokenInv,
     RequestInv, ConsumingInv, Consuming, Revoking
<1>3. ASSUME NEW t \in Tokens PROVE TokenInv(t)'
  BY <1>1, <1>a, TimesAssumption DEF TypeOK, TokenInv, RequestInv,
     ConsumingInv, Consuming, Revoking
<1>4. ASSUME NEW f \in Families PROVE FamilyInv(f)'
  BY <1>1, <1>a, TimesAssumption DEF TypeOK, FamilyInv, RequestInv,
     RevokingInv, Consuming, Revoking, Prompt
<1>5. ASSUME NEW q \in Requests PROVE RequestInv(q)'
  <2>1. /\ RequestInv(q)
        /\ pc[q] \in Consuming \cup Revoking => Names(q)
        /\ q # r => PairInv(q, r)
    BY Named DEF Inv
  <2>2. CASE q = r
    <3>1. ASSUME ~IsRevoked(Session(r)), now < tokenExp[arg[r]]
          PROVE  start[r] < tokenExp[arg[r]] /\ late[r] = {}
      <4>1. /\ start[r] <= now /\ now <= start[r] + 2
            /\ start[r] < familyExp[Session(r)]
            /\ start[r] \in Nat /\ revoked[Session(r)] \in Nat
            /\ familyExp[Session(r)] \in Nat /\ tokenExp[arg[r]] \in Nat
        BY <1>1, <1>a, TimesAssumption DEF TypeOK, Names, RequestInv,
           ConsumingInv, Consuming, Prompt
      <4>2. "revoked" \notin late[r]
        BY <1>1, <1>a, <3>1, <4>1, TimesAssumption DEF RequestInv, FamilyInv,
           Consuming, Prompt
      <4>3. "expired" \notin late[r]
        BY <1>1, <4>1 DEF RequestInv, Consuming
      <4> QED
        BY <1>1, <3>1, <4>1, <4>2, <4>3 DEF TypeOK
    <3> QED
      BY <1>1, <1>a, <2>1, <2>2, <3>1, TimesAssumption DEF TypeOK, Names,
         RequestInv, ConsumingInv, RevokingInv, Consuming, Revoking, PCs
  <2>3. CASE q # r
    BY <1>1, <2>1, <2>3, <1>a, TimesAssumption DEF TypeOK, PairInv, Names,
       TokenInv, FamilyInv, RequestInv, ConsumingInv, RevokingInv, Consuming,
       Revoking, Prompt, PCs, Operations
  <2> QED
    BY <2>2, <2>3
<1>6. ASSUME NEW p \in Requests, NEW q \in Requests, p # q PROVE PairInv(p, q)'
  BY <1>1, <1>6, <1>a, TimesAssumption DEF Inv, TypeOK, PairInv, RequestInv,
     ConsumingInv, RevokingInv, FamilyInv, TokenInv, Consuming, Revoking,
     Prompt
<1> QED
  BY <1>2, <1>3, <1>4, <1>5, <1>6 DEF Inv

LEMMA ClaimStep ==
    ASSUME Inv, Prompt, NEW r \in Requests, Claim(r)
    PROVE  Inv'
<1> USE DEF Claim, Goto, Finish, Session, entries, contents, local, history,
   Present, IsRevoked
<1>1. /\ now \in Nat
      /\ TypeOK
      /\ RequestInv(r)
      /\ \A t \in Tokens : TokenInv(t)
      /\ \A f \in Families : FamilyInv(f)
  BY DEF Inv, TypeOK
<1>a. Names(r) /\ TokenInv(arg[r]) /\ FamilyInv(Session(r))
  BY Named DEF Inv, Consuming, Revoking, Names
<1>b. /\ ConsumedTTL(tokenExp[arg[r]]) \in Nat
      /\ tokenExp[arg[r]] + 2 <= now + ConsumedTTL(tokenExp[arg[r]])
  BY <1>1, <1>a, SpentTimeout DEF Names, TypeOK
<1>2. TypeOK'
  <2>1. used' \in [Tokens -> Nat]
    <3>1. now + ConsumedTTL(tokenExp[arg[r]]) \in Nat
      BY <1>1, <1>b
    <3> QED
      BY <1>1, <3>1 DEF TypeOK
  <2>2. pc' \in [Requests -> PCs]
    BY <1>1 DEF TypeOK, PCs
  <2>3. ans' \in [Requests -> {"none", "live", "replayed", "reused", "refused"}]
    BY <1>1 DEF TypeOK
  <2> QED
    BY <1>1, <2>1, <2>2, <2>3 DEF TypeOK
<1>3. ASSUME NEW t \in Tokens PROVE TokenInv(t)'
  BY <1>1, <1>a, <1>b, TimesAssumption DEF TypeOK, TokenInv, RequestInv,
     ConsumingInv, Consuming, Revoking
<1>4. ASSUME NEW f \in Families PROVE FamilyInv(f)'
  BY <1>1, <1>a, <1>b, TimesAssumption DEF TypeOK, FamilyInv, RequestInv,
     RevokingInv, Consuming, Revoking, Prompt
<1>5. ASSUME NEW q \in Requests PROVE RequestInv(q)'
  <2>1. /\ RequestInv(q)
        /\ pc[q] \in Consuming \cup Revoking => Names(q)
        /\ q # r => PairInv(q, r)
    BY Named DEF Inv
  <2>2. CASE q = r
    BY <1>1, <2>1, <2>2, <1>a, <1>b, TimesAssumption DEF TypeOK, Names,
       TokenInv, FamilyInv, RequestInv, ConsumingInv, RevokingInv, Consuming,
       Revoking, Prompt, PCs, Operations
  <2>3. CASE q # r
    BY <1>1, <2>1, <2>3, <1>a, <1>b, TimesAssumption DEF TypeOK, PairInv,
       Names, TokenInv, FamilyInv, RequestInv, ConsumingInv, RevokingInv,
       Consuming, Revoking, Prompt, PCs, Operations
  <2> QED
    BY <2>2, <2>3
<1>6. ASSUME NEW p \in Requests, NEW q \in Requests, p # q PROVE PairInv(p, q)'
  BY <1>1, <1>6, <1>a, <1>b, TimesAssumption DEF Inv, TypeOK, PairInv,
     RequestInv, ConsumingInv, RevokingInv, FamilyInv, TokenInv, Consuming,
     Revoking, Prompt
<1> QED
  BY <1>2, <1>3, <1>4, <1>5, <1>6 DEF Inv

LEMMA RecheckStep ==
    ASSUME Inv, Prompt, NEW r \in Requests, Recheck(r)
    PROVE  Inv'
<1> USE DEF Recheck, Goto, Finish, Session, entries, contents, local, history,
   Present, IsRevoked
<1>1. /\ now \in Nat
      /\ TypeOK
      /\ RequestInv(r)
      /\ \A t \in Tokens : TokenInv(t)
      /\ \A f \in Families : FamilyInv(f)
  BY DEF Inv, TypeOK
<1>a. Names(r) /\ TokenInv(arg[r]) /\ FamilyInv(Session(r))
  BY Named DEF Inv, Consuming, Revoking, Names
<1>2. TypeOK'
  BY SMTT(30), <1>1, <1>a, TimesAssumption DEF TypeOK, PCs, Operations, TokenInv,
     RequestInv, ConsumingInv, Consuming, Revoking
<1>3. ASSUME NEW t \in Tokens PROVE TokenInv(t)'
  BY <1>1, <1>a, TimesAssumption DEF TypeOK, TokenInv, RequestInv,
     ConsumingInv, Consuming, Revoking
<1>4. ASSUME NEW f \in Families PROVE FamilyInv(f)'
  BY <1>1, <1>a, TimesAssumption DEF TypeOK, FamilyInv, RequestInv,
     RevokingInv, Consuming, Revoking, Prompt
<1>5. ASSUME NEW q \in Requests PROVE RequestInv(q)'
  <2>1. /\ RequestInv(q)
        /\ pc[q] \in Consuming \cup Revoking => Names(q)
        /\ q # r => PairInv(q, r)
    BY Named DEF Inv
  <2>2. CASE q = r
    BY <1>1, <2>1, <2>2, <1>a, TimesAssumption DEF TypeOK, Names, TokenInv,
       FamilyInv, RequestInv, ConsumingInv, RevokingInv, Consuming, Revoking,
       Prompt, PCs, Operations
  <2>3. CASE q # r
    BY <1>1, <2>1, <2>3, <1>a, TimesAssumption DEF TypeOK, PairInv, Names,
       TokenInv, FamilyInv, RequestInv, ConsumingInv, RevokingInv, Consuming,
       Revoking, Prompt, PCs, Operations
  <2> QED
    BY <2>2, <2>3
<1>6. ASSUME NEW p \in Requests, NEW q \in Requests, p # q PROVE PairInv(p, q)'
  BY SMTT(30), <1>1, <1>6, <1>a, TimesAssumption DEF Inv, TypeOK, PairInv, RequestInv,
     ConsumingInv, RevokingInv, FamilyInv, TokenInv, Consuming, Revoking,
     Prompt
<1> QED
  BY <1>2, <1>3, <1>4, <1>5, <1>6 DEF Inv

LEMMA IssueStep ==
    ASSUME Inv, Prompt, NEW r \in Requests, Issue(r)
    PROVE  Inv'
<1> USE DEF Issue, Goto, Finish, Session, entries, contents, local, history,
   Present, IsRevoked
<1>1. /\ now \in Nat
      /\ TypeOK
      /\ RequestInv(r)
      /\ \A t \in Tokens : TokenInv(t)
      /\ \A f \in Families : FamilyInv(f)
  BY DEF Inv, TypeOK
<1> DEFINE ttl == TTL(tokenExp[next[r]])
<1>a. next[r] \in Tokens /\ tokenExp[next[r]] \in Nat \ {0}
  BY <1>1 DEF RequestInv, ConsumingInv, TypeOK
<1>b. ttl \in Nat \ {0}
  BY <1>1, <1>a, TokenTimeout
<1>c. token' = [token EXCEPT ![next[r]] = now + ttl]
  BY DEF ttl
<1> HIDE DEF ttl
<1>d. now + ttl \in Nat \ {0}
  BY <1>1, <1>b
<1>e. \A t \in Tokens : token[t] > 0 => token'[t] > 0
  BY <1>1, <1>a, <1>c, <1>d DEF TypeOK
<1>2. TypeOK'
  BY <1>1, <1>a, <1>c, <1>d, TimesAssumption DEF TypeOK, PCs, Operations,
     TokenInv, RequestInv, ConsumingInv, Consuming, Revoking
<1>3. ASSUME NEW t \in Tokens PROVE TokenInv(t)'
  <2>1. CASE t = next[r]
    <3>1. token'[t] > 0
      BY <1>1, <1>a, <1>c, <1>d, <2>1 DEF TypeOK
    <3>2. tokenExp[t] > 0 /\ tokenExp[t] <= familyExp[sid[t]] + RefreshLifetime
      BY <1>1, <1>a, <2>1 DEF RequestInv, ConsumingInv
    <3> QED
      BY <1>1, <3>1, <3>2 DEF TokenInv
  <2>2. CASE t # next[r]
    BY <1>1, <1>c, <1>3, <2>2 DEF TypeOK, TokenInv
  <2> QED
    BY <2>1, <2>2
<1>4. ASSUME NEW f \in Families PROVE FamilyInv(f)'
  BY <1>1, <1>a, <1>c, <1>d, TimesAssumption DEF TypeOK, FamilyInv,
     RequestInv, RevokingInv, Consuming, Revoking, Prompt
<1>5. ASSUME NEW q \in Requests PROVE RequestInv(q)'
  <2>1. /\ RequestInv(q)
        /\ pc[q] \in Consuming \cup Revoking => Names(q)
        /\ q # r => PairInv(q, r)
    BY Named DEF Inv
  <2>2. CASE q = r
    BY <1>1, <2>1, <2>2, <1>a, <1>c, <1>d, TimesAssumption DEF TypeOK, Names,
       TokenInv, FamilyInv, RequestInv, ConsumingInv, RevokingInv, Consuming,
       Revoking, Prompt, PCs, Operations
  <2>3. CASE q # r
    <3>1. UNCHANGED <<now, start[q], ans[q], late[q], arg[q], pc[q], op[q],
                      next[q], held[q], Session(q), familyExp, tokenExp, sid,
                      live, used, revoked, sent>>
      BY <1>1, <2>3 DEF TypeOK
    <3> QED
      BY <1>e, <2>1, <3>1 DEF RequestInv, ConsumingInv, RevokingInv, Session
  <2> QED
    BY <2>2, <2>3
<1>6. ASSUME NEW p \in Requests, NEW q \in Requests, p # q PROVE PairInv(p, q)'
  BY <1>1, <1>6, <1>a, <1>c, <1>d, TimesAssumption DEF Inv, TypeOK, PairInv,
     RequestInv, ConsumingInv, RevokingInv, FamilyInv, TokenInv, Consuming,
     Revoking, Prompt
<1> QED
  BY <1>2, <1>3, <1>4, <1>5, <1>6 DEF Inv

LEMMA FindStep ==
    ASSUME Inv, Prompt, NEW r \in Requests, Find(r)
    PROVE  Inv'
<1> USE DEF Find, Goto, Finish, Session, entries, contents, local, history,
   Present, IsRevoked
<1>1. /\ now \in Nat
      /\ TypeOK
      /\ RequestInv(r)
      /\ \A t \in Tokens : TokenInv(t)
      /\ \A f \in Families : FamilyInv(f)
  BY DEF Inv, TypeOK
<1>a. Names(r) /\ TokenInv(arg[r]) /\ FamilyInv(Session(r))
  BY Named DEF Inv, Consuming, Revoking, Names
<1>2. TypeOK'
  BY <1>1, <1>a, TimesAssumption DEF TypeOK, PCs, Operations, TokenInv,
     RequestInv, ConsumingInv, Consuming, Revoking
<1>3. ASSUME NEW t \in Tokens PROVE TokenInv(t)'
  BY <1>1, <1>a, TimesAssumption DEF TypeOK, TokenInv, RequestInv,
     ConsumingInv, Consuming, Revoking
<1>4. ASSUME NEW f \in Families PROVE FamilyInv(f)'
  BY <1>1, <1>a, TimesAssumption DEF TypeOK, FamilyInv, RequestInv,
     RevokingInv, Consuming, Revoking, Prompt
<1>5. ASSUME NEW q \in Requests PROVE RequestInv(q)'
  <2>1. /\ RequestInv(q)
        /\ pc[q] \in Consuming \cup Revoking => Names(q)
        /\ q # r => PairInv(q, r)
    BY Named DEF Inv
  <2>2. CASE q = r
    <3>1. IF held'[r] THEN start[r] < familyExp[Session(r)]
          ELSE revoked[Session(r)] > 0 \/ familyExp[Session(r)] <= now + 1
      <4>1. held'[r] = (family[Session(r)] > now)
        BY <1>1 DEF TypeOK
      <4>2. /\ family[Session(r)] \in Nat /\ familyExp[Session(r)] \in Nat
            /\ revoked[Session(r)] \in Nat /\ start[r] \in Nat
            /\ start[r] <= now
        BY <1>1, <1>a DEF TypeOK, Names, RequestInv
      <4>3. CASE family[Session(r)] > now
        <5>1. start[r] < familyExp[Session(r)]
          BY <1>1, <1>a, <4>2, <4>3 DEF FamilyInv
        <5>2. held'[r]
          BY <4>1, <4>3, Zenon
        <5> QED
          BY <5>1, <5>2
      <4>4. CASE ~(family[Session(r)] > now)
        <5>1. revoked[Session(r)] > 0 \/ familyExp[Session(r)] <= now + 1
          BY <1>1, <1>a, <4>2, <4>4 DEF FamilyInv
        <5>2. ~held'[r]
          BY <4>1, <4>4, Zenon
        <5> QED
          BY <5>1, <5>2
      <4> QED
        BY <4>3, <4>4
    <3> QED
      BY <1>1, <1>a, <2>1, <2>2, <3>1 DEF TypeOK, Names, RequestInv,
         ConsumingInv, RevokingInv, Consuming, Revoking
  <2>3. CASE q # r
    BY <1>1, <2>1, <2>3, <1>a, TimesAssumption DEF TypeOK, PairInv, Names,
       TokenInv, FamilyInv, RequestInv, ConsumingInv, RevokingInv, Consuming,
       Revoking, Prompt, PCs, Operations
  <2> QED
    BY <2>2, <2>3
<1>6. ASSUME NEW p \in Requests, NEW q \in Requests, p # q PROVE PairInv(p, q)'
  BY <1>1, <1>6, <1>a, TimesAssumption DEF Inv, TypeOK, PairInv, RequestInv,
     ConsumingInv, RevokingInv, FamilyInv, TokenInv, Consuming, Revoking,
     Prompt
<1> QED
  BY <1>2, <1>3, <1>4, <1>5, <1>6 DEF Inv

LEMMA MarkStep ==
    ASSUME Inv, Prompt, NEW r \in Requests, Mark(r)
    PROVE  Inv'
<1> USE DEF Mark, MarkWins, Goto, Finish, Session, entries, contents, local,
   history, Present, IsRevoked
<1>1. /\ now \in Nat
      /\ TypeOK
      /\ RequestInv(r)
      /\ \A t \in Tokens : TokenInv(t)
      /\ \A f \in Families : FamilyInv(f)
  BY DEF Inv, TypeOK
<1>a. Names(r) /\ TokenInv(arg[r]) /\ FamilyInv(Session(r))
  BY Named DEF Inv, Consuming, Revoking, Names
<1> DEFINE ttl == RevocationTTL(Session(r), held[r])
<1>b. /\ ttl \in Nat \ {0}
      /\ RefreshLifetime + AccessLifetime + Leeway - 1 <= ttl
      /\ held[r] => familyExp[Session(r)] + RefreshLifetime + AccessLifetime
                       + Leeway - 1 <= now + ttl
  <2>1. held[r] \in BOOLEAN /\ Session(r) \in Families /\ now \in Nat
        /\ familyExp \in [Families -> Nat]
    BY <1>1, <1>a DEF Names, TypeOK
  <2> QED
    BY <2>1, RevocationTimeout, TimesAssumption
<1> HIDE DEF ttl
<1>c. \/ /\ ~IsRevoked(Session(r))
         /\ revoked' = [revoked EXCEPT ![Session(r)] = now + ttl]
         /\ held' = held
      \/ /\ IsRevoked(Session(r)) /\ revoked' = revoked
         /\ held' = [held EXCEPT ![r] = FALSE]
  BY DEF ttl
<1>2. TypeOK'
  <2>1. revoked' \in [Families -> Nat]
    <3>1. now + ttl \in Nat
      BY <1>1, <1>b
    <3> QED
      BY <1>1, <1>c, <3>1 DEF TypeOK
  <2>2. held' \in [Requests -> BOOLEAN]
    BY <1>1, <1>c DEF TypeOK
  <2>3. pc' \in [Requests -> PCs]
    BY <1>1 DEF TypeOK, PCs
  <2> QED
    BY <1>1, <2>1, <2>2, <2>3 DEF TypeOK
<1>3. ASSUME NEW t \in Tokens PROVE TokenInv(t)'
  BY <1>1, <1>a, <1>b, <1>c, TimesAssumption DEF TypeOK, TokenInv, RequestInv,
     ConsumingInv, Consuming, Revoking
<1>4. ASSUME NEW f \in Families PROVE FamilyInv(f)'
  <2>1. CASE revoked'[f] = revoked[f]
    BY <1>1, <2>1 DEF FamilyInv
  <2>2. CASE revoked'[f] # revoked[f]
    <3>1. /\ f = Session(r) /\ revoked'[f] = now + ttl /\ ~IsRevoked(f)
      BY <1>1, <1>c, <2>2 DEF TypeOK
    <3>2. familyExp[f] + AccessLifetime + Leeway + RefreshLifetime - 2 <= revoked'[f]
      <4>1. /\ revoked[f] \in Nat /\ familyExp[f] \in Nat /\ ttl \in Nat
            /\ revoked[f] <= now
        BY <1>1, <1>b, <3>1 DEF TypeOK
      <4>2. CASE held[r]
        BY <1>1, <1>b, <3>1, <4>1, <4>2, TimesAssumption
      <4>3. CASE ~held[r]
        BY <1>1, <1>a, <1>b, <3>1, <4>1, <4>3, TimesAssumption DEF RequestInv,
           RevokingInv, FamilyInv
      <4> QED
        BY <4>2, <4>3
    <3>3. revoked'[f] > 0 /\ familyExp[f] # 0
      BY SMTT(30), <1>1, <1>a, <1>b, <3>1 DEF Names, TypeOK
    <3> QED
      BY <1>1, <3>2, <3>3 DEF FamilyInv, TypeOK
  <2> QED
    BY <2>1, <2>2
<1>5. ASSUME NEW q \in Requests PROVE RequestInv(q)'
  <2>1. /\ RequestInv(q)
        /\ pc[q] \in Consuming \cup Revoking => Names(q)
        /\ q # r => PairInv(q, r)
    BY Named DEF Inv
  <2>2. CASE q = r
    BY <1>1, <2>1, <2>2, <1>a, <1>b, <1>c, TimesAssumption DEF TypeOK, Names,
       TokenInv, FamilyInv, RequestInv, ConsumingInv, RevokingInv, Consuming,
       Revoking, Prompt, PCs, Operations
  <2>3. CASE q # r
    BY <1>1, <2>1, <2>3, <1>a, <1>b, <1>c, TimesAssumption DEF TypeOK,
       PairInv, Names, TokenInv, FamilyInv, RequestInv, ConsumingInv,
       RevokingInv, Consuming, Revoking, Prompt, PCs, Operations
  <2> QED
    BY <2>2, <2>3
<1>6. ASSUME NEW p \in Requests, NEW q \in Requests, p # q PROVE PairInv(p, q)'
  BY <1>1, <1>6, <1>a, <1>b, <1>c, TimesAssumption DEF Inv, TypeOK, PairInv,
     RequestInv, ConsumingInv, RevokingInv, FamilyInv, TokenInv, Consuming,
     Revoking, Prompt
<1> QED
  BY <1>2, <1>3, <1>4, <1>5, <1>6 DEF Inv

LEMMA DropStep ==
    ASSUME Inv, Prompt, NEW r \in Requests, Drop(r)
    PROVE  Inv'
<1> USE DEF Drop, Goto, Finish, Session, entries, contents, local, history,
   Present, IsRevoked
<1>1. /\ now \in Nat
      /\ TypeOK
      /\ RequestInv(r)
      /\ \A t \in Tokens : TokenInv(t)
      /\ \A f \in Families : FamilyInv(f)
  BY DEF Inv, TypeOK
<1>a. Names(r) /\ TokenInv(arg[r]) /\ FamilyInv(Session(r))
  BY Named DEF Inv, Consuming, Revoking, Names
<1>2. TypeOK'
  BY <1>1, <1>a, TimesAssumption DEF TypeOK, PCs, Operations, TokenInv,
     RequestInv, ConsumingInv, Consuming, Revoking
<1>3. ASSUME NEW t \in Tokens PROVE TokenInv(t)'
  BY <1>1, <1>a, TimesAssumption DEF TypeOK, TokenInv, RequestInv,
     ConsumingInv, Consuming, Revoking
<1>4. ASSUME NEW f \in Families PROVE FamilyInv(f)'
  BY <1>1, <1>a, TimesAssumption DEF TypeOK, FamilyInv, RequestInv,
     RevokingInv, Consuming, Revoking, Prompt
<1>5. ASSUME NEW q \in Requests PROVE RequestInv(q)'
  <2>1. /\ RequestInv(q)
        /\ pc[q] \in Consuming \cup Revoking => Names(q)
        /\ q # r => PairInv(q, r)
    BY Named DEF Inv
  <2>2. CASE q = r
    BY <1>1, <2>1, <2>2, <1>a, TimesAssumption DEF TypeOK, Names, TokenInv,
       FamilyInv, RequestInv, ConsumingInv, RevokingInv, Consuming, Revoking,
       Prompt, PCs, Operations
  <2>3. CASE q # r
    BY <1>1, <2>1, <2>3, <1>a, TimesAssumption DEF TypeOK, PairInv, Names,
       TokenInv, FamilyInv, RequestInv, ConsumingInv, RevokingInv, Consuming,
       Revoking, Prompt, PCs, Operations
  <2> QED
    BY <2>2, <2>3
<1>6. ASSUME NEW p \in Requests, NEW q \in Requests, p # q PROVE PairInv(p, q)'
  BY <1>1, <1>6, <1>a, TimesAssumption DEF Inv, TypeOK, PairInv, RequestInv,
     ConsumingInv, RevokingInv, FamilyInv, TokenInv, Consuming, Revoking,
     Prompt
<1> QED
  BY <1>2, <1>3, <1>4, <1>5, <1>6 DEF Inv

LEMMA ReleaseStep ==
    ASSUME Inv, Prompt, NEW r \in Requests, Release(r)
    PROVE  Inv'
<1> USE DEF Release, Goto, Finish, Session, entries, contents, local, history,
   Present, IsRevoked
<1>1. /\ now \in Nat
      /\ TypeOK
      /\ RequestInv(r)
      /\ \A t \in Tokens : TokenInv(t)
      /\ \A f \in Families : FamilyInv(f)
  BY DEF Inv, TypeOK
<1>2. TypeOK'
  BY <1>1, TimesAssumption DEF TypeOK, PCs, Operations, TokenInv, RequestInv,
     ConsumingInv, Consuming, Revoking
<1>3. ASSUME NEW t \in Tokens PROVE TokenInv(t)'
  BY <1>1, TimesAssumption DEF TypeOK, TokenInv, RequestInv, ConsumingInv,
     Consuming, Revoking
<1>4. ASSUME NEW f \in Families PROVE FamilyInv(f)'
  BY <1>1, TimesAssumption DEF TypeOK, FamilyInv, RequestInv, RevokingInv,
     Consuming, Revoking, Prompt
<1>5. ASSUME NEW q \in Requests PROVE RequestInv(q)'
  <2>1. /\ RequestInv(q)
        /\ pc[q] \in Consuming \cup Revoking => Names(q)
        /\ q # r => PairInv(q, r)
    BY Named DEF Inv
  <2>2. CASE q = r
    BY <1>1, <2>1, <2>2, TimesAssumption DEF TypeOK, Names, TokenInv,
       FamilyInv, RequestInv, ConsumingInv, RevokingInv, Consuming, Revoking,
       Prompt, PCs, Operations
  <2>3. CASE q # r
    BY <1>1, <2>1, <2>3, TimesAssumption DEF TypeOK, PairInv, Names, TokenInv,
       FamilyInv, RequestInv, ConsumingInv, RevokingInv, Consuming, Revoking,
       Prompt, PCs, Operations
  <2> QED
    BY <2>2, <2>3
<1>6. ASSUME NEW p \in Requests, NEW q \in Requests, p # q PROVE PairInv(p, q)'
  BY <1>1, <1>6, TimesAssumption DEF Inv, TypeOK, PairInv, RequestInv,
     ConsumingInv, RevokingInv, FamilyInv, TokenInv, Consuming, Revoking,
     Prompt
<1> QED
  BY <1>2, <1>3, <1>4, <1>5, <1>6 DEF Inv

LEMMA LoginStep ==
    ASSUME Inv, Prompt, NEW r \in Requests, NEW g \in Families,
           NEW n \in Tokens, Login(r, g, n)
    PROVE  Inv'
<1> USE DEF Login, Sign, Goto, Finish, Session, entries, contents, local,
   history, Present, IsRevoked
<1>1. /\ now \in Nat
      /\ TypeOK
      /\ RequestInv(r)
      /\ \A t \in Tokens : TokenInv(t)
      /\ \A f \in Families : FamilyInv(f)
  BY DEF Inv, TypeOK
<1>b. /\ TTL(now + RefreshLifetime) \in Nat
      /\ RefreshLifetime - 1 <= TTL(now + RefreshLifetime)
      /\ TTL(now + RefreshLifetime) <= RefreshLifetime
  BY <1>1, FamilyTimeout
<1>2. TypeOK'
  BY <1>1, <1>b, TimesAssumption DEF TypeOK, PCs, Operations, TokenInv,
     RequestInv, ConsumingInv, Consuming, Revoking
<1>3. ASSUME NEW t \in Tokens PROVE TokenInv(t)'
  BY <1>1, <1>b, TimesAssumption DEF TypeOK, TokenInv, RequestInv,
     ConsumingInv, Consuming, Revoking
<1>4. ASSUME NEW f \in Families PROVE FamilyInv(f)'
  BY <1>1, <1>b, TimesAssumption DEF TypeOK, FamilyInv, RequestInv,
     RevokingInv, Consuming, Revoking, Prompt
<1>5. ASSUME NEW q \in Requests PROVE RequestInv(q)'
  <2>1. /\ RequestInv(q)
        /\ pc[q] \in Consuming \cup Revoking => Names(q)
        /\ q # r => PairInv(q, r)
    BY Named DEF Inv
  <2>2. CASE q = r
    BY <1>1, <2>1, <2>2, <1>b, TimesAssumption DEF TypeOK, Names, TokenInv,
       FamilyInv, RequestInv, ConsumingInv, RevokingInv, Consuming, Revoking,
       Prompt, PCs, Operations
  <2>3. CASE q # r
    BY <1>1, <2>1, <2>3, <1>b, TimesAssumption DEF TypeOK, PairInv, Names,
       TokenInv, FamilyInv, RequestInv, ConsumingInv, RevokingInv, Consuming,
       Revoking, Prompt, PCs, Operations
  <2> QED
    BY <2>2, <2>3
<1>6. ASSUME NEW p \in Requests, NEW q \in Requests, p # q PROVE PairInv(p, q)'
  BY <1>1, <1>6, <1>b, TimesAssumption DEF Inv, TypeOK, PairInv, RequestInv,
     ConsumingInv, RevokingInv, FamilyInv, TokenInv, Consuming, Revoking,
     Prompt
<1> QED
  BY <1>2, <1>3, <1>4, <1>5, <1>6 DEF Inv

LEMMA ArriveStep ==
    ASSUME Inv, Prompt, NEW r \in Requests, NEW o \in Operations \ {"login"},
           NEW u \in Tokens, Arrive(r, o, u)
    PROVE  Inv'
<1> USE DEF Arrive, GetToken, Sign, Goto, Finish, Session, entries, contents,
   local, history, Present, IsRevoked
<1>1. /\ now \in Nat
      /\ TypeOK
      /\ RequestInv(r)
      /\ \A t \in Tokens : TokenInv(t)
      /\ \A f \in Families : FamilyInv(f)
  BY DEF Inv, TypeOK
<1>2. TypeOK'
  <2>1. late' \in [Requests -> SUBSET {"revoked", "expired"}]
    BY <1>1 DEF TypeOK
  <2>2. /\ pc' \in [Requests -> PCs] /\ op' \in [Requests -> Operations \cup {None}]
        /\ arg' \in [Requests -> Tokens \cup {None}]
        /\ start' \in [Requests -> Nat]
        /\ ans' \in [Requests ->
                        {"none", "live", "replayed", "reused", "refused"}]
    BY <1>1 DEF TypeOK, PCs
  <2>3. /\ next' \in [Requests -> Tokens \cup {None}]
        /\ tokenExp' \in [Tokens -> Nat]
        /\ sid' \in [Tokens -> Families \cup {None}]
    <3>1. CASE UNCHANGED <<next, tokenExp, sid>>
      BY <1>1, <3>1 DEF TypeOK
    <3>2. ASSUME NEW n \in Tokens, Sign(r, n, sid[u])
          PROVE  /\ next' \in [Requests -> Tokens \cup {None}]
                 /\ tokenExp' \in [Tokens -> Nat]
                 /\ sid' \in [Tokens -> Families \cup {None}]
      <4>1. now + RefreshLifetime \in Nat /\ sid[u] \in Families \cup {None}
        BY <1>1, TimesAssumption DEF TypeOK
      <4> QED
        BY <1>1, <3>2, <4>1 DEF TypeOK
    <3> QED
      BY <3>1, <3>2
  <2>4. \A t \in Tokens : token'[t] > 0 => sid'[t] \in Families
    BY <1>1 DEF TypeOK, TokenInv
  <2> QED
    BY <1>1, <2>1, <2>2, <2>3, <2>4 DEF TypeOK
<1>3. ASSUME NEW t \in Tokens PROVE TokenInv(t)'
  BY <1>1, TimesAssumption DEF TypeOK, TokenInv, RequestInv, ConsumingInv,
     Consuming, Revoking
<1>4. ASSUME NEW f \in Families PROVE FamilyInv(f)'
  BY <1>1, TimesAssumption DEF TypeOK, FamilyInv, RequestInv, RevokingInv,
     Consuming, Revoking, Prompt
<1>5. ASSUME NEW q \in Requests PROVE RequestInv(q)'
  <2>1. /\ RequestInv(q)
        /\ pc[q] \in Consuming \cup Revoking => Names(q)
        /\ q # r => PairInv(q, r)
    BY Named DEF Inv
  <2>2. CASE q = r
    BY <1>1, <2>1, <2>2, TimesAssumption DEF TypeOK, Names, TokenInv,
       FamilyInv, RequestInv, ConsumingInv, RevokingInv, Consuming, Revoking,
       Prompt, PCs, Operations
  <2>3. CASE q # r
    <3>1. UNCHANGED <<now, start[q], ans[q], late[q], arg[q], pc[q], op[q],
                      next[q], held[q], familyExp, token, live, used, revoked,
                      sent>>
      BY <1>1, <2>3 DEF TypeOK
    <3>2. \A t \in Tokens :
             tokenExp[t] > 0 => UNCHANGED <<tokenExp[t], sid[t]>>
      BY <1>1, TimesAssumption DEF TypeOK
    <3>3. pc[q] \in Consuming \cup Revoking
             => UNCHANGED <<tokenExp[arg[q]], Session(q)>>
      BY <2>1, <3>1, <3>2 DEF Names
    <3>4. ASSUME (pc[q] \in Consuming /\ op[q] = "refresh") \/ pc[q] = "issue"
          PROVE  /\ next'[q] = next[q]
                 /\ tokenExp'[next[q]] = tokenExp[next[q]]
                 /\ sid'[next[q]] = sid[next[q]]
      <4>1. next[q] \in Tokens /\ tokenExp[next[q]] > 0
        BY <1>1, <2>1, <3>4, Signed
      <4> QED
        BY <3>1, <3>2, <4>1
    <3>5. ConsumingInv(q)'
      BY <2>1, <3>1, <3>3, <3>4 DEF RequestInv, ConsumingInv, Consuming, Revoking
    <3>6. RevokingInv(q)'
      BY <2>1, <3>1, <3>3, <3>4 DEF RequestInv, RevokingInv, Consuming, Revoking
    <3> HIDE DEF Arrive
    <3> QED
      BY <2>1, <3>1, <3>3, <3>5, <3>6 DEF RequestInv, Consuming, Revoking
  <2> QED
    BY <2>2, <2>3
<1>6. ASSUME NEW p \in Requests, NEW q \in Requests, p # q PROVE PairInv(p, q)'
  BY <1>1, <1>6, TimesAssumption DEF Inv, TypeOK, PairInv, RequestInv,
     ConsumingInv, RevokingInv, FamilyInv, TokenInv, Consuming, Revoking,
     Prompt
<1> QED
  BY <1>2, <1>3, <1>4, <1>5, <1>6 DEF Inv

LEMMA TickStep ==
    ASSUME Inv, Prompt, Tick
    PROVE  Inv'
<1> USE DEF Tick, entries, contents, local, history, Session
<1>1. /\ now \in Nat /\ now' = now + 1
      /\ TypeOK
  BY DEF Inv, TypeOK
<1>2. TypeOK'
  BY <1>1 DEF TypeOK
<1>3. ASSUME NEW t \in Tokens PROVE TokenInv(t)'
  BY DEF Inv, TokenInv
<1>4. ASSUME NEW f \in Families PROVE FamilyInv(f)'
  BY DEF Inv, FamilyInv
<1>5. ASSUME NEW q \in Requests PROVE RequestInv(q)'
  <2>1. RequestInv(q)
    BY DEF Inv
  <2>2. pc[q] \in Consuming \cup Revoking => Names(q)
    BY Named DEF Inv
  <2>3. pc[q] # "idle" => start[q] <= now' /\ now' <= start[q] + MaxRequest
    BY <1>1, <2>1, TimesAssumption DEF RequestInv, TypeOK
  <2> QED
    BY <1>1, <2>1, <2>2, <2>3 DEF RequestInv, ConsumingInv, RevokingInv,
       TypeOK, Names, Consuming, Revoking
<1>6. ASSUME NEW p \in Requests, NEW q \in Requests, p # q PROVE PairInv(p, q)'
  BY <1>6 DEF Inv, PairInv
<1> QED
  BY <1>2, <1>3, <1>4, <1>5, <1>6 DEF Inv

LEMMA InvNext == Inv /\ Prompt /\ [Next]_vars => Inv'
<1> SUFFICES ASSUME Inv, Prompt, [Next]_vars PROVE Inv'
  OBVIOUS
<1>1. CASE UNCHANGED vars
  BY <1>1 DEF vars, entries, contents, local, history, Inv, TypeOK, TokenInv,
     FamilyInv, RequestInv, ConsumingInv, RevokingInv, PairInv, Session
<1>2. CASE Next
  BY <1>2, TickStep, LoginStep, ArriveStep, GetFamilyStep, CheckStep,
     ClaimStep,
     RecheckStep, IssueStep, FindStep, MarkStep, DropStep, ReleaseStep DEF Next
<1> QED
  BY <1>1, <1>2

LEMMA Invariance == ASSUME Prompt PROVE Spec => []Inv
BY InvInit, InvNext, PTL DEF Spec

-----------------------------------------------------------------------------

(* Types, whatever the lifetimes and however long a request takes.         *)

\* A worker between two calls holds the token it was called with, and the one
\* it has signed and not stored names a family.
HoldsTokens(r) ==
    /\ pc[r] \notin {"idle", "issue", "done"} =>
          /\ arg[r] \in Tokens /\ sid[arg[r]] \in Families
          /\ tokenExp[arg[r]] > 0
    /\ pc[r] = "issue" \/ (pc[r] # "idle" /\ op[r] = "refresh") =>
          /\ next[r] \in Tokens /\ sid[next[r]] \in Families
          /\ tokenExp[next[r]] > 0

TypeInv ==
    /\ TypeOK
    /\ \A t \in Tokens : token[t] > 0 => tokenExp[t] > 0
    /\ \A r \in Requests : HoldsTokens(r)

LEMMA TimeoutTypes ==
    ASSUME TypeOK, NEW exp \in Nat, NEW f \in Families, NEW known \in BOOLEAN
    PROVE  /\ TTL(exp) \in Nat \ {0} /\ ConsumedTTL(exp) \in Nat
           /\ RevocationTTL(f, known) \in Nat
<1>1. now \in Nat /\ familyExp \in [Families -> Nat]
  BY DEF TypeOK
<1> QED
  BY <1>1, TokenTimeout, SpentTimeout, RevocationTimeout

\* A token that is signed was not signed before, so nobody holds it.
LEMMA SignedTypes ==
    ASSUME TypeInv, NEW r \in Requests, NEW n \in Tokens, NEW f \in Families,
           Sign(r, n, f)
    PROVE  /\ next' \in [Requests -> Tokens \cup {None}] /\ next'[r] = n
           /\ \A q \in Requests \ {r} : next'[q] = next[q]
           /\ tokenExp' \in [Tokens -> Nat] /\ tokenExp'[n] > 0
           /\ sid' \in [Tokens -> Families \cup {None}] /\ sid'[n] = f
           /\ tokenExp[n] = 0
           /\ \A t \in Tokens \ {n} : /\ tokenExp'[t] = tokenExp[t]
                                       /\ sid'[t] = sid[t]
BY TimesAssumption DEF TypeInv, TypeOK, Sign

LEMMA LoginTypes ==
    ASSUME TypeInv, NEW r \in Requests, NEW f \in Families, NEW n \in Tokens,
           Login(r, f, n)
    PROVE  TypeInv'
<1>1. Sign(r, n, f) /\ TypeOK
  BY DEF Login, TypeInv
<1>2. now \in Nat /\ now + RefreshLifetime \in Nat
  BY <1>1, TimesAssumption DEF TypeOK
<1>3. now + TTL(now + RefreshLifetime) \in Nat
  BY <1>2, TokenTimeout
<1>a. /\ next' \in [Requests -> Tokens \cup {None}] /\ next'[r] = n
      /\ tokenExp' \in [Tokens -> Nat] /\ tokenExp'[n] > 0
      /\ sid' \in [Tokens -> Families \cup {None}] /\ sid'[n] \in Families
      /\ tokenExp[n] = 0
      /\ \A u \in Tokens : u = n \/ (tokenExp'[u] = tokenExp[u] /\ sid'[u] = sid[u])
      /\ \A q \in Requests \ {r} : next'[q] = next[q]
  BY <1>1, SignedTypes
<1>b. \A t \in Tokens : token'[t] > 0 => sid'[t] \in Families
  BY <1>1, <1>a DEF Login, TypeInv, TypeOK
<1>c. /\ familyExp' \in [Families -> Nat] /\ family' \in [Families -> Nat]
      /\ op' \in [Requests -> Operations \cup {None}]
      /\ pc' \in [Requests -> PCs] /\ start' \in [Requests -> Nat]
      /\ UNCHANGED <<now, token, used, revoked, arg, held, ans, history>>
  BY <1>1, <1>2, <1>3 DEF Login, TypeOK, Goto, PCs, Operations
<1>4. TypeOK'
  BY <1>1, <1>a, <1>b, <1>c DEF TypeOK, history
<1>5. \A t \in Tokens : token'[t] > 0 => tokenExp'[t] > 0
  BY <1>1, SignedTypes DEF Login, TypeInv
<1>6. HoldsTokens(r)'
  BY <1>1, SignedTypes DEF Login, HoldsTokens, Goto, TypeOK
<1>7. ASSUME NEW q \in Requests \ {r} PROVE HoldsTokens(q)'
  <2>1. /\ pc'[q] = pc[q] /\ op'[q] = op[q] /\ arg'[q] = arg[q]
        /\ next'[q] = next[q] /\ HoldsTokens(q)
    BY <1>1, <1>a DEF Login, TypeInv, Goto, TypeOK
  <2> QED
    BY <1>a, <2>1 DEF HoldsTokens
<1> QED
  BY <1>4, <1>5, <1>6, <1>7 DEF TypeInv

LEMMA ArriveTypes ==
    ASSUME TypeInv, NEW r \in Requests, NEW o \in Operations \ {"login"},
           NEW t \in Tokens, Arrive(r, o, t)
    PROVE  TypeInv'
<1>1. /\ TypeOK /\ sid[t] \in Families /\ tokenExp[t] > 0
      /\ UNCHANGED <<now, entries, familyExp, held, live, sent>>
      /\ op' = [op EXCEPT ![r] = o] /\ arg' = [arg EXCEPT ![r] = t]
      /\ start' = [start EXCEPT ![r] = now]
      /\ late' \in [Requests -> SUBSET {"revoked", "expired"}]
  BY DEF Arrive, TypeInv, TypeOK
<1>2. /\ pc' \in [Requests -> PCs] /\ pc'[r] \in {"family", "find", "done"}
      /\ ans' \in [Requests -> {"none", "live", "replayed", "reused", "refused"}]
      /\ \A q \in Requests \ {r} : pc'[q] = pc[q]
  BY <1>1 DEF Arrive, GetToken, Goto, Finish, TypeOK, PCs
<1>3. CASE o = "refresh"
  <2>1. PICK n \in Tokens : Sign(r, n, sid[t])
    BY <1>3 DEF Arrive
  <2>a. /\ next' \in [Requests -> Tokens \cup {None}] /\ next'[r] = n
        /\ tokenExp' \in [Tokens -> Nat] /\ tokenExp'[n] > 0
        /\ sid' \in [Tokens -> Families \cup {None}] /\ sid'[n] \in Families
        /\ tokenExp[n] = 0
        /\ \A u \in Tokens : u = n \/ (tokenExp'[u] = tokenExp[u] /\ sid'[u] = sid[u])
        /\ \A q \in Requests \ {r} : next'[q] = next[q]
    BY <1>1, <2>1, SignedTypes
  <2>b. \A u \in Tokens : token'[u] > 0 => sid'[u] \in Families
    BY <1>1, <2>a DEF TypeOK, entries
  <2>c. /\ op' \in [Requests -> Operations \cup {None}]
        /\ arg' \in [Requests -> Tokens \cup {None}]
        /\ start' \in [Requests -> Nat]
    BY <1>1 DEF TypeOK, Operations
  <2>2. TypeOK'
    BY <1>1, <1>2, <2>a, <2>b, <2>c DEF TypeOK, entries
  <2>3. \A u \in Tokens : token'[u] > 0 => tokenExp'[u] > 0
    BY <1>1, <2>1, SignedTypes DEF TypeInv, entries
  <2>4. HoldsTokens(r)'
    BY <1>1, <1>2, <2>1, SignedTypes DEF HoldsTokens, TypeOK
  <2>5. ASSUME NEW q \in Requests \ {r} PROVE HoldsTokens(q)'
    <3>1. /\ pc'[q] = pc[q] /\ op'[q] = op[q] /\ arg'[q] = arg[q]
          /\ next'[q] = next[q] /\ HoldsTokens(q)
      BY <1>1, <1>2, <2>a DEF TypeInv, TypeOK
    <3> QED
      BY <2>a, <3>1 DEF HoldsTokens
  <2> QED
    BY <2>2, <2>3, <2>4, <2>5 DEF TypeInv
<1>4. CASE o # "refresh"
  <2>1. UNCHANGED <<next, tokenExp, sid>>
    BY <1>4 DEF Arrive
  <2>2. TypeOK'
    BY <1>1, <1>2, <2>1 DEF TypeOK, entries, Operations
  <2>3. ASSUME NEW q \in Requests PROVE HoldsTokens(q)'
    BY <1>1, <1>2, <1>4, <2>1 DEF TypeInv, HoldsTokens, TypeOK
  <2> QED
    BY <1>1, <2>1, <2>2, <2>3 DEF TypeInv, entries
<1> QED
  BY <1>3, <1>4

LEMMA TypeNext == TypeInv /\ [Next]_vars => TypeInv'
<1> SUFFICES ASSUME TypeInv, [Next]_vars PROVE TypeInv'
  OBVIOUS
<1> USE DEF TypeInv, TypeOK, HoldsTokens, Session, entries, contents, local,
            history, PCs, Operations, Goto, Finish
<1>1. CASE UNCHANGED vars
  BY <1>1 DEF vars
<1>2. CASE Tick
  BY <1>2 DEF Tick
<1>3. ASSUME NEW r \in Requests, NEW f \in Families, NEW n \in Tokens,
             Login(r, f, n)
      PROVE  TypeInv'
  BY <1>3, LoginTypes
<1>4. ASSUME NEW r \in Requests, NEW o \in Operations \ {"login"},
             NEW t \in Tokens, Arrive(r, o, t)
      PROVE  TypeInv'
  BY <1>4, ArriveTypes
<1>5. ASSUME NEW r \in Requests, GetFamily(r) \/ Check(r) \/ Recheck(r)
      PROVE  TypeInv'
  BY <1>5 DEF GetFamily, Check, Recheck
<1>6. ASSUME NEW r \in Requests, Claim(r) PROVE TypeInv'
  <2>1. now + ConsumedTTL(tokenExp[arg[r]]) \in Nat
    BY <1>6, TimeoutTypes DEF Claim
  <2> QED
    BY <1>6, <2>1 DEF Claim
<1>7. ASSUME NEW r \in Requests, Issue(r) PROVE TypeInv'
  <2>1. now + TTL(tokenExp[next[r]]) \in Nat
    BY <1>7, TimeoutTypes DEF Issue
  <2> QED
    BY <1>7, <2>1 DEF Issue
<1>8. ASSUME NEW r \in Requests, Mark(r) PROVE TypeInv'
  <2>1. PICK f \in Families : f = Session(r)
    BY <1>8 DEF Mark
  <2>2. /\ now \in Nat /\ held[r] \in BOOLEAN
        /\ familyExp \in [Families -> Nat]
    OBVIOUS
  <2>3. RevocationTTL(f, held[r]) \in Nat
    BY <2>2, RevocationTimeout
  <2>4. revoked' \in [Families -> Nat]
    BY <1>8, <2>1, <2>2, <2>3 DEF Mark
  <2> QED
    BY <1>8, <2>4 DEF Mark
<1>9. ASSUME NEW r \in Requests, Find(r) PROVE TypeInv'
  BY <1>9 DEF Find, Present
<1>10. ASSUME NEW r \in Requests, Drop(r) PROVE TypeInv'
  BY <1>10 DEF Drop
<1>11. ASSUME NEW r \in Requests, Release(r) PROVE TypeInv'
  BY <1>11 DEF Release
<1> QED
  BY <1>1, <1>2, <1>3, <1>4, <1>5, <1>6, <1>7, <1>8, <1>9,
     <1>10, <1>11 DEF Next

\* Every variable keeps its type and every issued token names its session, for
\* every lifetime and leeway and however slow the requests are.
THEOREM CacheTypeCorrect == Spec => []TypeOK
<1>1. Init => TypeInv
  BY InvInit DEF Init, Inv, TypeInv, HoldsTokens
<1>2. TypeInv => TypeOK
  BY DEF TypeInv
<1> QED
  BY <1>1, <1>2, TypeNext, PTL DEF Spec

-----------------------------------------------------------------------------
(* What is promised of prompt requests and sessions that are not too short. *)

\* consume() answers LIVE at most once for a token, whatever the lifetimes: the
\* rounded-up timeout of the spent marker covers every request that takes no
\* longer than the second it adds.
THEOREM RedeemedAtMostOnce == ASSUME Prompt PROVE Spec => []RedeemedOnce
<1>1. Inv => RedeemedOnce
  BY DEF Inv, TokenInv, RedeemedOnce
<1> QED
  BY <1>1, Invariance, PTL

\* A session that was revoked before a request arrived is not redeemed by it,
\* however much of the revocation was never finished; nor is one that had
\* expired, whatever the last refresh token it was given.
THEOREM OverIsOver == ASSUME Prompt PROVE Spec => []OverNeverRedeems
<1>1. Inv => OverNeverRedeems
  BY DEF Inv, RequestInv, OverNeverRedeems
<1> QED
  BY <1>1, Invariance, PTL

\* No timeout of a revocation marker brings a session back to the Strict*
\* classes, with either default of the store.
THEOREM StrictStaysClosed == ASSUME Prompt PROVE Spec => []StrictRejectsRevoked
<1>1. Inv => StrictRejectsRevoked
  <2> SUFFICES ASSUME Inv, NEW f \in Families, revoked[f] > 0,
                      NEW t \in Tokens, token[t] > 0, sid[t] = f,
                      now < tokenExp[t] - RefreshLifetime + AccessLifetime + Leeway
               PROVE  now < revoked[f]
    BY DEF StrictRejectsRevoked, AccessVerifies, IsLive, IsRevoked, Present
  <2>1. /\ now \in Nat /\ revoked[f] \in Nat /\ familyExp[f] \in Nat
        /\ tokenExp[t] \in Nat
    BY DEF Inv, TypeOK
  <2>2. /\ tokenExp[t] <= familyExp[f] + RefreshLifetime
        /\ familyExp[f] + AccessLifetime + Leeway + RefreshLifetime - 2 <= revoked[f]
    BY DEF Inv, TokenInv, FamilyInv
  <2> QED
    BY <2>1, <2>2, TimesAssumption
<1> QED
  BY <1>1, Invariance, PTL

-----------------------------------------------------------------------------
(* The port: each cache call is one of its operations, or none.            *)

\* What the cache means to a caller.
State(t)  == IF live[t] > 0 THEN "redeemed"
             ELSE IF token[t] > 0 THEN "issued" ELSE "unknown"
Member(t) == IF token[t] > 0 THEN sid[t] ELSE None
Ended     == {f \in Families : revoked[f] > 0}

\* A step that changes none of it is no operation.
LEMMA Stutter ==
    ASSUME \A t \in Tokens : State(t)' = State(t) /\ Member(t)' = Member(t),
           Ended' = Ended, sent' = sent
    PROVE  UNCHANGED Port!store
BY DEF Port!store, State, Member, Ended

\* A step that leaves alone the entries, what they hold, or what only an
\* entry not yet written will hold, changes nothing a caller sees.
LEMMA Unseen ==
    ASSUME Inv, UNCHANGED <<token, live, revoked, sent>>,
           \A t \in Tokens : tokenExp[t] > 0 => sid'[t] = sid[t]
    PROVE  UNCHANGED Port!store
<1>1. \A t \in Tokens : token[t] > 0 => tokenExp[t] > 0
  BY DEF Inv, TokenInv
<1>2. \A t \in Tokens : State(t)' = State(t) /\ Member(t)' = Member(t)
  BY <1>1 DEF State, Member
<1>3. Ended' = Ended
  BY DEF Ended
<1> QED
  BY <1>2, <1>3, Stutter

\* The revocation marker of a session that was not over when the request came
\* is still there when the request looks again.
LEMMA MarkerStillThere ==
    ASSUME Inv, Prompt, NEW r \in Requests, pc[r] = "recheck",
           ~IsRevoked(Session(r))
    PROVE  Session(r) \notin Ended
<1>1. /\ Names(r)
      /\ RequestInv(r)
      /\ FamilyInv(Session(r))
  BY Named DEF Inv, Consuming, Revoking, Names
<1>2. /\ now \in Nat /\ start[r] \in Nat
      /\ familyExp[Session(r)] \in Nat /\ revoked[Session(r)] \in Nat
  BY <1>1 DEF Inv, TypeOK, Names
<1>3. /\ start[r] < familyExp[Session(r)]
      /\ now <= start[r] + 2
  BY <1>1, <1>2, TimesAssumption
     DEF RequestInv, ConsumingInv, Consuming, Prompt
<1> QED
  BY <1>1, <1>2, <1>3, TimesAssumption
     DEF FamilyInv, Ended, IsRevoked, Present, Prompt

LEMMA IssuePort ==
    ASSUME Inv, Prompt, NEW r \in Requests, Issue(r)
    PROVE  Port!Next \/ UNCHANGED Port!store
<1>0. PICK n : n = next[r]
  OBVIOUS
<1>1. /\ n \in Tokens /\ tokenExp[n] > 0
      /\ now \in Nat /\ tokenExp[n] \in Nat
      /\ token \in [Tokens -> Nat]
      /\ TokenInv(n) /\ live[n] \in Nat
  BY <1>0 DEF Inv, TypeOK, RequestInv, ConsumingInv, Issue
<1>2. PICK g \in Families : g = sid[n]
  BY <1>1 DEF TokenInv
<1>3. live[n] > 0 => token[n] > 0
  BY <1>1 DEF TokenInv
<1>4. /\ token' = [token EXCEPT ![n] = now + TTL(tokenExp[n])]
      /\ UNCHANGED <<live, sid, revoked, sent>>
  BY <1>0 DEF Issue, contents, history
<1>5. token'[n] > 0 /\ \A t \in Tokens : t # n => token'[t] = token[t]
  <2>1. now + TTL(tokenExp[n]) > 0
    BY <1>1, TokenTimeout
  <2> QED
    BY <1>1, <1>4, <2>1
<1>6. Ended' = Ended
  BY <1>4 DEF Ended
<1>7. CASE token[n] > 0
  <2>1. \A t \in Tokens : State(t)' = State(t) /\ Member(t)' = Member(t)
    BY <1>4, <1>5, <1>7 DEF State, Member
  <2> QED
    BY <2>1, <1>4, <1>6, Stutter
<1>8. CASE ~(token[n] > 0)
  <2>1. State(n) = "unknown" /\ State(n)' = "issued" /\ Member(n)' = g
    BY <1>1, <1>2, <1>3, <1>4, <1>5, <1>8 DEF State, Member
  <2>2. \A t \in Tokens :
          t # n => State(t)' = State(t) /\ Member(t)' = Member(t)
    BY <1>4, <1>5 DEF State, Member
  <2>3. Port!Issue(n, g)
    BY <1>1, <1>4, <2>1, <2>2, <1>6 DEF Port!Issue, State, Member, Ended
  <2> QED
    BY <1>1, <1>2, <2>3 DEF Port!Next
<1> QED
  BY <1>7, <1>8

LEMMA RecheckPort ==
    ASSUME Inv, Prompt, NEW r \in Requests, Recheck(r)
    PROVE  Port!Next \/ UNCHANGED Port!store
<1>0. PICK u : u = arg[r]
  OBVIOUS
<1>1. /\ u \in Tokens /\ token[u] > 0 /\ Session(r) = sid[u]
      /\ pc[r] = "recheck" /\ live[u] = 0 /\ live \in [Tokens -> Nat]
  <2>1. Names(r)
    BY Named DEF Consuming, Revoking, Recheck
  <2> QED
    BY <1>0, <2>1 DEF Inv, TypeOK, RequestInv, ConsumingInv, Recheck, Names,
       Session
<1>2. UNCHANGED <<token, sid, revoked, sent>>
  BY DEF Recheck, entries, contents
<1>3. CASE IsRevoked(Session(r))
  BY <1>2, <1>3, Unseen DEF Recheck
<1>4. CASE ~IsRevoked(Session(r))
  <2>1. live' = [live EXCEPT ![u] = @ + 1]
    BY <1>0, <1>4 DEF Recheck
  <2>2. live'[u] = 1 /\ \A t \in Tokens : t # u => live'[t] = live[t]
    BY <1>1, <2>1
  <2>3. State(u) = "issued" /\ State(u)' = "redeemed"
    BY <1>1, <1>2, <2>2 DEF State
  <2>4. \A t \in Tokens : t # u => State(t)' = State(t)
    BY <1>2, <2>2 DEF State
  <2>5. /\ \A t \in Tokens : Member(t)' = Member(t)
        /\ Ended' = Ended
    BY <1>2 DEF Member, Ended
  <2>6. Member(u) \notin Ended
    BY <1>1, <1>4, MarkerStillThere DEF Member
  <2>7. Port!Consume(u)
    BY <1>1, <1>2, <2>3, <2>4, <2>5, <2>6 DEF Port!Consume, State, Member, Ended
  <2> QED
    BY <1>1, <2>7 DEF Port!Next
<1> QED
  BY <1>3, <1>4

LEMMA MarkPort ==
    ASSUME Inv, Prompt, NEW r \in Requests, Mark(r)
    PROVE  Port!Next \/ UNCHANGED Port!store
<1>1. PICK f \in Families : f = Session(r)
  BY Named DEF Consuming, Revoking, Names, Mark
<1>2. UNCHANGED <<token, live, sid, sent>>
  BY DEF Mark, history, contents
<1>3. \A t \in Tokens : State(t)' = State(t) /\ Member(t)' = Member(t)
  BY <1>2 DEF State, Member
<1>4. CASE ~MarkWins(f)
  BY <1>1, <1>2, <1>4, Unseen DEF Mark
<1>5. CASE MarkWins(f)
  <2>1. revoked' = [revoked EXCEPT ![f] = now + RevocationTTL(f, held[r])]
    BY <1>1, <1>5 DEF Mark
  <2>2. now \in Nat /\ held[r] \in BOOLEAN
        /\ familyExp \in [Families -> Nat] /\ revoked \in [Families -> Nat]
    BY DEF Inv, TypeOK
  <2>3. RevocationTTL(f, held[r]) \in Nat \ {0}
    BY <2>2, RevocationTimeout
  <2>4. revoked'[f] > 0 /\ \A g \in Families : g # f => revoked'[g] = revoked[g]
    BY <2>1, <2>2, <2>3
  <2>5. Ended' = Ended \cup {f}
    BY <2>4 DEF Ended
  <2>6. Port!RevokeFamily(f)
    BY <1>2, <1>3, <2>5 DEF Port!RevokeFamily, State, Member, Ended
  <2> QED
    BY <2>6 DEF Port!Next
<1> QED
  BY <1>4, <1>5

\* Whoever holds the entry when it is deleted has won the marker, alone.
LEMMA DropPort ==
    ASSUME Inv, NEW r \in Requests, Drop(r)
    PROVE  Port!Next \/ UNCHANGED Port!store
<1>1. PICK f \in Families : f = Session(r)
  BY Named DEF Consuming, Revoking, Names, Drop
<1>2. UNCHANGED <<token, live, sid, revoked>>
  BY DEF Drop, contents
<1>3. CASE ~held[r]
  BY <1>2, <1>3, Unseen DEF Drop
<1>4. CASE held[r]
  <2>1. sent' = [sent EXCEPT ![f] = @ + 1]
    BY <1>1, <1>4 DEF Drop
  <2>2. revoked[f] > 0 /\ sent[f] = 0
    BY <1>1, <1>4 DEF Inv, RequestInv, RevokingInv, Drop
  <2>3. sent' = [sent EXCEPT ![f] = 1]
    BY <2>1, <2>2
  <2>4. Port!Report(f)
    BY <1>2, <2>2, <2>3 DEF Port!Report
  <2> QED
    BY <2>4 DEF Port!Next
<1> QED
  BY <1>3, <1>4

LEMMA PortInit == Init => Port!Init
<1> SUFFICES ASSUME Init PROVE Port!Init
  OBVIOUS
<1>1. \A t \in Tokens : State(t) = "unknown" /\ Member(t) = None
  BY DEF Init, State, Member
<1>2. Ended = {}
  BY DEF Init, Ended
<1> QED
  BY <1>1, <1>2 DEF Init, Port!Init, State, Member, Ended

LEMMA PortNext ==
    Inv /\ Prompt /\ [Next]_vars => [Port!Next]_(Port!store)
<1> SUFFICES ASSUME Inv, Prompt, [Next]_vars
             PROVE  Port!Next \/ UNCHANGED Port!store
  OBVIOUS
<1> USE DEF entries, contents, local, history
<1>1. CASE UNCHANGED vars
  BY <1>1, Unseen DEF vars
<1>2. CASE Tick
  BY <1>2, Unseen DEF Tick
<1>3. ASSUME NEW r \in Requests, NEW f \in Families, NEW n \in Tokens,
             Login(r, f, n)
      PROVE  UNCHANGED Port!store
  <2>1. \A t \in Tokens : tokenExp[t] > 0 => sid'[t] = sid[t]
    BY <1>3 DEF Login, Sign, Inv, TypeOK
  <2> QED
    BY <1>3, <2>1, Unseen DEF Login
<1>4. ASSUME NEW r \in Requests, NEW o \in Operations, NEW t \in Tokens,
             Arrive(r, o, t)
      PROVE  UNCHANGED Port!store
  <2>1. \A u \in Tokens : tokenExp[u] > 0 => sid'[u] = sid[u]
    BY <1>4 DEF Arrive, Sign, Inv, TypeOK
  <2> QED
    BY <1>4, <2>1, Unseen DEF Arrive
<1>5. ASSUME NEW r \in Requests,
             GetFamily(r) \/ Check(r) \/ Claim(r) \/ Find(r) \/ Release(r)
      PROVE  UNCHANGED Port!store
  BY <1>5, Unseen DEF GetFamily, Check, Claim, Find, Release
<1> QED
  BY <1>1, <1>2, <1>3, <1>4, <1>5, IssuePort, RecheckPort, MarkPort,
     DropPort DEF Next

\* Any number of workers on one cache, each stopping wherever it does, make up
\* a store that keeps what the port promises.
THEOREM PortKept == ASSUME Prompt PROVE Spec => ImplementsPort
BY PortInit, PortNext, Invariance, PTL DEF Spec, ImplementsPort, Port!Spec
=============================================================================
