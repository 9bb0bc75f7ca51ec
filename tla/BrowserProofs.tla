--------------------------- MODULE BrowserProofs ---------------------------
(***************************************************************************)
(* What Browser promises for any number of tabs, sessions, tokens and      *)
(* users, with strict views or not, however often clocks, networks and     *)
(* administrators interfere.                                               *)
(***************************************************************************)
EXTENDS Browser, TLAPS

\* A token that has been issued, and a place that holds one or none.
Issued(t) == /\ t \in Tokens /\ tok[t] # "absent"
             /\ sid[t] \in Families /\ fam[sid[t]] # "absent"
Held(t)   == t = None \/ Issued(t)

\* A call's request and answer, stage by stage.
ShapeOf(b) ==
    /\ pc[b] # "answered" => resp[b] = NoAnswer
    /\ pc[b] # "ready" => ~hdr[b]
    /\ pc[b] \in {"idle", "ready"} => sent[b] = NoRequest /\ ~late[b]
    /\ call[b] \notin ApiCalls => sent[b].access = None
    /\ call[b] \notin Refreshes \cup SignOuts => sent[b].refresh = None
    /\ pc[b] = "rotated" => call[b] \in Refreshes /\ OriginProven(b)

Shape == \A b \in Tabs : ShapeOf(b)

\* Whatever the browser and the grace cache hold has been issued.
Known ==
    /\ Held(jar.access) /\ Held(jar.refresh)
    /\ \A b \in Tabs :
          Held(sent[b].access) /\ Held(sent[b].refresh) /\ Held(resp[b].pair)
    /\ \A t \in Tokens :
          /\ tok[t] # "absent" => Issued(t)
          /\ Held(putting[t]) /\ Held(grace[t])

\* What has been answered is so: sessions an answer called over are.
Answered ==
    BurnOnReuse =>
        /\ \A f \in out : Over(f)
        /\ \A b \in Tabs :
              /\ resp[b].clear => OriginProven(b) /\ Over(Session(b))
              /\ late[b] => \E t \in {sent[b].access, sent[b].refresh} \ {None} :
                               sid[t] \in out
              /\ late[b] /\ resp[b].status = 200 =>
                    call[b] \notin Refreshes /\ ~(Strict /\ call[b] \in ApiCalls)
              /\ pc[b] = "rotated" => ~late[b]

\* As long as it is calm, whatever is in use of a session that stands is
\* current, or the grace window has the pair that replaced it, or will have it.
Covered ==
    /\ up
    /\ \A t \in Tokens :
          tok[t] = "spent" /\ Live(sid[t]) /\ InUse(t) =>
             grace[t] # None \/ putting[t] # None

Quiet == calm => Covered /\ NoFalseAlarm

IInv == /\ TypeOK /\ Shape /\ Known /\ NeverStrandedByCsrf /\ Answered
        /\ Quiet

-----------------------------------------------------------------------------
(* The ledger under the views.                                             *)

AllIssued == \A t \in Tokens : tok[t] # "absent" => Issued(t)

\* What a step of the ledger never takes back.
Grown ==
    /\ AllIssued'
    /\ \A t \in Tokens :
          /\ Issued(t) => Issued(t)' /\ sid'[t] = sid[t]
          /\ tok[t] \in {"spent", "purged"} => tok'[t] \in {"spent", "purged"}
          /\ tok'[t] = "unspent" => tok[t] \in {"unspent", "absent"}
    /\ \A f \in Families :
          /\ reason[f] # None => reason'[f] = reason[f]
          /\ fam[f] = "purged" => fam'[f] = "purged"
          /\ fam[f] # "absent" => fam'[f] # "absent"

\* Each operation of the ledger keeps the types and what is not taken back.
LEMMA LedgerStep ==
    ASSUME L!TypeOK, AllIssued, L!Next
    PROVE  L!TypeOK' /\ Grown
<1> USE NoneAssumption
<1>1. ASSUME NEW f \in Families, NEW t \in Tokens, L!Open(f, t)
      PROVE  L!TypeOK' /\ Grown
  <2>1. L!TypeOK'
    BY <1>1 DEF L!Open, L!TypeOK
  <2>2. Grown
    BY <1>1 DEF L!Open, L!TypeOK, Grown, AllIssued, Issued
  <2> QED BY <2>1, <2>2
<1>2. ASSUME NEW t \in Tokens, NEW n \in Tokens, L!Rotate(t, n)
      PROVE  L!TypeOK' /\ Grown
  <2>1. L!TypeOK'
    BY <1>2 DEF L!Rotate, L!TypeOK
  <2>2. Grown
    BY <1>2 DEF L!Rotate, L!TypeOK, Grown, AllIssued, Issued
  <2> QED BY <2>1, <2>2
<1>3. ASSUME NEW t \in Tokens, NEW fs \in SUBSET Families, NEW w \in Reasons,
             L!SignOut(t, fs, w)
      PROVE  L!TypeOK' /\ Grown
  <2>1. L!TypeOK'
    BY <1>3 DEF L!SignOut, L!EndSessions, L!TypeOK
  <2>2. Grown
    BY <1>3 DEF L!SignOut, L!EndSessions, L!TypeOK, Grown, AllIssued, Issued
  <2> QED BY <2>1, <2>2
<1>4. ASSUME NEW fs \in SUBSET Families, NEW w \in Reasons, L!Revoke(fs, w)
      PROVE  L!TypeOK' /\ Grown
  <2>1. L!TypeOK'
    BY <1>4 DEF L!Revoke, L!EndSessions, L!TypeOK
  <2>2. Grown
    BY <1>4 DEF L!Revoke, L!EndSessions, L!TypeOK, Grown, AllIssued, Issued
  <2> QED BY <2>1, <2>2
<1>5. ASSUME NEW fs \in SUBSET Families, L!Forget(fs)
      PROVE  L!TypeOK' /\ Grown
  <2>1. L!TypeOK'
    BY <1>5 DEF L!Forget, L!TypeOK
  <2>2. Grown
    BY <1>5 DEF L!Forget, L!TypeOK, Grown, AllIssued, Issued
  <2> QED BY <2>1, <2>2
<1> QED BY <1>1, <1>2, <1>3, <1>4, <1>5 DEF L!Next

LEMMA LedgerStutter ==
    ASSUME L!TypeOK, AllIssued, UNCHANGED ledger
    PROVE  L!TypeOK' /\ Grown
BY DEF ledger, L!TypeOK, AllIssued, Grown, Issued

-----------------------------------------------------------------------------
(* What a step does to the server.                                         *)

\* The ledger makes one of its steps or none, and the rest stays typed.
Served ==
    /\ L!Next \/ UNCHANGED ledger
    /\ expired \subseteq expired' /\ expired' \in SUBSET Families
    /\ stale' \in SUBSET Tokens /\ active' \in SUBSET Users
    /\ putting' \in [Tokens -> Tokens \cup {None}]
    /\ grace' \in [Tokens -> Tokens \cup {None}] /\ up' \in BOOLEAN
    /\ out' \in SUBSET Families /\ calm' \in BOOLEAN

\* The session of a credential that was presented is one.
LEMMA SessionIs ==
    ASSUME TypeOK, Known, NEW b \in Tabs, Credential(b) # None
    PROVE  /\ Credential(b) \in Tokens /\ Session(b) \in Families
           /\ Issued(Credential(b))
BY DEF Known, Held, Issued, Credential, Session

\* A refresh that is answered had a session and has a pair.
LEMMA GrantIs ==
    ASSUME TypeOK, Shape, Known, NEW b \in Tabs, Grant(b)
    PROVE  /\ Credential(b) \in Tokens /\ Puts(Credential(b))
           /\ call[b] \in Refreshes /\ OriginProven(b)
           /\ \E p \in Tokens : /\ p = putting[Credential(b)] /\ Issued(p)
                               /\ SetCookies(b, p)
<1>1. call[b] \in Refreshes /\ OriginProven(b) /\ Puts(Credential(b))
      /\ SetCookies(b, putting[Credential(b)])
  BY DEF Grant, Shape, ShapeOf
<1>2. Credential(b) \in Tokens
  BY <1>1, SessionIs DEF OriginProven
<1>3. Issued(putting[Credential(b)])
  BY <1>1, <1>2 DEF Puts, Known, Held
<1> QED BY <1>1, <1>2, <1>3 DEF Issued

LEMMA ServerStep ==
    ASSUME Next, TypeOK, Shape, Known
    PROVE  Served
<1>1. ASSUME NEW b \in Tabs, NEW c \in Calls, Fetch(b, c) PROVE  Served
  BY <1>1, SessionIs DEF Fetch, Served, TypeOK, server, ledger
<1>2. ASSUME NEW b \in Tabs, Send(b) PROVE  Served
  BY <1>2, SessionIs DEF Send, Served, TypeOK, server, ledger
<1>3. ASSUME NEW b \in Tabs, Deliver(b) PROVE  Served
  BY <1>3, SessionIs DEF Deliver, Served, TypeOK, server, ledger
<1>4. ASSUME NEW b \in Tabs, Lose(b) PROVE  Served
  BY <1>4, SessionIs DEF Lose, Served, TypeOK, server, ledger
<1>5. CASE Restart
  BY <1>5, SessionIs DEF Restart, Served, TypeOK, server, ledger
<1>6. CASE Lapse
  BY <1>6, SessionIs DEF Lapse, Served, TypeOK, server, ledger
<1>7. ASSUME NEW b \in Tabs, Login(b) PROVE  Served
  BY <1>7, SessionIs DEF Login, L!Next, Served, TypeOK, server, ledger
<1>8. ASSUME NEW b \in Tabs, Unread(b) PROVE  Served
  BY <1>8, SessionIs DEF Unread, Served, TypeOK, server, ledger
<1>9. ASSUME NEW b \in Tabs, Disabled(b) PROVE  Served
  BY <1>9, SessionIs
     DEF Disabled, Reads, OriginProven, L!Next, Reasons, Served, TypeOK,
         server, ledger
<1>10. ASSUME NEW b \in Tabs, Dead(b) PROVE  Served
  BY <1>10, SessionIs
     DEF Dead, Reads, OriginProven, SignedOut, Served, TypeOK, server, ledger
<1>11. ASSUME NEW b \in Tabs, Error(b) PROVE  Served
  BY <1>11, SessionIs DEF Error, Served, TypeOK, server, ledger
<1>12. ASSUME NEW b \in Tabs, Refresh(b) PROVE  Served
  BY <1>12, SessionIs
     DEF Refresh, Reads, OriginProven, L!Next, Served, TypeOK, server, ledger
<1>13. ASSUME NEW b \in Tabs, Replay(b) PROVE  Served
  BY <1>13, SessionIs DEF Replay, Served, TypeOK, server, ledger
<1>14. ASSUME NEW b \in Tabs, Reuse(b) PROVE  Served
  BY <1>14, SessionIs
     DEF Reuse, Reads, OriginProven, Burn, SignedOut, L!Next, Reasons,
         ledger, Served, TypeOK, server, ledger
<1>15. ASSUME NEW b \in Tabs, Logout(b) PROVE  Served
  BY <1>15, SessionIs
     DEF Logout, Reads, OriginProven, SignOuts, Ends, LiveFamilies, L!Next,
         Reasons, Served, TypeOK, server, ledger
<1>16. ASSUME NEW b \in Tabs, Api(b) PROVE  Served
  BY <1>16, SessionIs DEF Api, Served, TypeOK, server, ledger
<1>17. ASSUME NEW t \in Tokens, AccessExpires(t) PROVE  Served
  BY <1>17, SessionIs DEF AccessExpires, Served, TypeOK, server, ledger
<1>18. ASSUME NEW t \in Tokens, GraceExpires(t) PROVE  Served
  BY <1>18, SessionIs DEF GraceExpires, Served, TypeOK, server, ledger
<1>19. CASE Outage
  BY <1>19, SessionIs DEF Outage, Served, TypeOK, server, ledger
<1>20. ASSUME NEW f \in Families, SessionExpires(f) PROVE  Served
  BY <1>20, SessionIs DEF SessionExpires, Served, TypeOK, server, ledger
<1>21. CASE Purge
  BY <1>21, SessionIs DEF Purge, L!Next, Served, TypeOK, server, ledger
<1>22. ASSUME NEW u \in Users, SetActive(u) PROVE  Served
  BY <1>22, SessionIs DEF SetActive, Served, TypeOK, server, ledger
<1>23. ASSUME NEW t \in Tokens, Puts(t) PROVE  Served
  BY <1>23 DEF Puts, GracePut, Served, TypeOK, ledger
<1>24. ASSUME NEW b \in Tabs, Grant(b) PROVE  Served
  BY <1>23, <1>24, GrantIs
<1> QED BY <1>1, <1>2, <1>3, <1>4, <1>5, <1>6, <1>7, <1>8, <1>9, <1>10,
           <1>11, <1>12, <1>13, <1>14, <1>15, <1>16, <1>17, <1>18, <1>19,
           <1>20, <1>21, <1>22, <1>23, <1>24
       DEF Next, Page, View, GrantNobody, Environment

LEMMA GrownStep ==
    ASSUME TypeOK, Shape, Known, Next
    PROVE  L!TypeOK' /\ Grown
<1>1. AllIssued
  BY DEF Known, AllIssued
<1> QED BY <1>1, ServerStep, LedgerStep, LedgerStutter DEF Served, TypeOK

\* A session that is over stays over, and one that stands stood.
LEMMA OverStays ==
    ASSUME TypeOK, Shape, Known, Next, NEW f \in Families
    PROVE  /\ Over(f) => Over(f)'
           /\ fam[f] # "absent" /\ Live(f)' => Live(f)
BY GrownStep, ServerStep DEF Grown, Served, Over, Live, TypeOK, L!TypeOK

-----------------------------------------------------------------------------
(* What a step does to the browser.                                        *)

Stages == {"idle", "ready", "sent", "rotated", "answered"}

BrowserTypes ==
    /\ jar \in Cookies
    /\ pc \in [Tabs -> Stages]
    /\ call \in [Tabs -> Calls \cup {None}]
    /\ hdr \in [Tabs -> BOOLEAN]
    /\ sent \in [Tabs -> Requests]
    /\ resp \in [Tabs -> Answers]
    /\ late \in [Tabs -> BOOLEAN]
    /\ \A b \in Tabs :
          pc[b] = "idle" => sent[b] = NoRequest /\ resp[b] = NoAnswer /\ ~hdr[b]

Same(d) == /\ pc'[d] = pc[d] /\ call'[d] = call[d] /\ sent'[d] = sent[d]
           /\ resp'[d] = resp[d] /\ late'[d] = late[d]

Others(b) == \A d \in Tabs \ {b} : Same(d)

\* The ways in which a tab's call goes on, and ends.
Fetched(b, c) ==
    /\ Others(b) /\ pc[b] = "idle" /\ pc'[b] = "ready" /\ call'[b] = c
    /\ UNCHANGED <<jar, sent, resp, late>>

Departed(b) ==
    /\ Others(b) /\ pc[b] = "ready" /\ pc'[b] = "sent"
    /\ sent'[b].access = Attached(call[b]).access
    /\ sent'[b].refresh = Attached(call[b]).refresh
    /\ late'[b] => \E t \in {sent'[b].access, sent'[b].refresh} \ {None} :
                      sid[t] \in out
    /\ UNCHANGED <<jar, call, resp>>

Committed(b) ==
    /\ Others(b) /\ pc[b] = "sent" /\ pc'[b] = "rotated"
    /\ call[b] \in Refreshes /\ OriginProven(b) /\ Live(Session(b))
    /\ UNCHANGED <<jar, call, sent, resp, late>>

Asked(b) == pc[b] \in {"sent", "rotated"}

Replied(b) ==
    /\ Others(b) /\ Asked(b) /\ pc'[b] = "answered"
    /\ UNCHANGED <<jar, call, sent, late>>

Ended(b) ==
    /\ Others(b) /\ pc[b] # "idle" /\ pc'[b] = "idle"
    /\ sent'[b] = NoRequest /\ resp'[b] = NoAnswer /\ ~late'[b]

\* The jar becomes what b's answer makes of it.
JarFrom(b) ==
    \/ jar' = jar
    \/ jar' = NoCookies
    \/ /\ resp[b].pair # None
       /\ jar' = [access |-> resp[b].pair, refresh |-> resp[b].pair,
                  csrf |-> TRUE]

LEMMA FetchStep ==
    ASSUME BrowserTypes, NEW b \in Tabs, NEW c \in Calls, Fetch(b, c)
    PROVE  BrowserTypes' /\ Fetched(b, c)
BY DEF Fetch, BrowserTypes, Fetched, Others, Same, Stages, Cookies

LEMMA SendStep ==
    ASSUME BrowserTypes, NEW b \in Tabs, Send(b)
    PROVE  BrowserTypes' /\ Departed(b)
<1> DEFINE carried == Attached(call[b])
           r == [access |-> carried.access, refresh |-> carried.refresh,
                 proved |-> hdr[b]]
<1>1. /\ carried.access \in Tokens \cup {None}
      /\ carried.refresh \in Tokens \cup {None}
  BY DEF Attached, BrowserTypes, Cookies
<1>2. r \in Requests
  BY <1>1 DEF Requests, BrowserTypes
<1>3. /\ pc[b] = "ready" /\ pc' = [pc EXCEPT ![b] = "sent"]
      /\ sent' = [sent EXCEPT ![b] = r]
      /\ hdr' = [hdr EXCEPT ![b] = FALSE]
      /\ late' = [late EXCEPT ![b] =
                    \E t \in {carried.access, carried.refresh} \ {None} :
                       sid[t] \in out]
      /\ UNCHANGED <<jar, call, resp>>
  BY DEF Send
<1> HIDE DEF carried
<1>4. BrowserTypes'
  BY <1>2, <1>3 DEF BrowserTypes, Stages
<1>5. sent'[b] = r /\ pc'[b] = "sent"
  BY <1>3 DEF BrowserTypes
<1>6. late'[b] => \E t \in {carried.access, carried.refresh} \ {None} :
                     sid[t] \in out
  BY <1>3 DEF BrowserTypes
<1>7. Others(b)
  BY <1>3 DEF Others, Same, BrowserTypes
<1> QED BY <1>3, <1>4, <1>5, <1>6, <1>7 DEF Departed, carried

LEMMA ReplyTypes ==
    ASSUME BrowserTypes, NEW b \in Tabs, Asked(b), NEW a \in Answers,
           pc' = [pc EXCEPT ![b] = "answered"], resp' = [resp EXCEPT ![b] = a],
           UNCHANGED <<jar, call, hdr, sent, late>>
    PROVE  BrowserTypes' /\ Replied(b) /\ resp'[b] = a
BY DEF BrowserTypes, Stages, Asked, Replied, Others, Same

LEMMA RefreshStep ==
    ASSUME BrowserTypes, NEW b \in Tabs, Refresh(b)
    PROVE  BrowserTypes' /\ Committed(b)
BY DEF Refresh, Reads, BrowserTypes, Stages, Committed, Others, Same

LEMMA PlainStep ==
    ASSUME BrowserTypes, NEW b \in Tabs, Asked(b),
           NEW status \in {200, 400, 401, 403, 500}, Plain(b, status)
    PROVE  /\ BrowserTypes' /\ Replied(b)
           /\ resp'[b].status = status /\ resp'[b].pair = None /\ ~resp'[b].clear
<1> DEFINE a == [status |-> status, pair |-> None, clear |-> FALSE]
<1>1. a \in Answers
  BY DEF Answers
<1>2. /\ pc' = [pc EXCEPT ![b] = "answered"] /\ resp' = [resp EXCEPT ![b] = a]
      /\ UNCHANGED <<jar, call, hdr, sent, late>>
  BY DEF Plain, Reply
<1>3. PICK x \in Answers : x = a
  BY <1>1
<1>4. /\ x.status = status /\ x.pair = None /\ x.clear = FALSE
      /\ pc' = [pc EXCEPT ![b] = "answered"] /\ resp' = [resp EXCEPT ![b] = x]
      /\ UNCHANGED <<jar, call, hdr, sent, late>>
  BY <1>2, <1>3
<1> HIDE DEF a
<1>5. BrowserTypes' /\ Replied(b) /\ resp'[b] = x
  BY <1>4 DEF BrowserTypes, Stages, Asked, Replied, Others, Same
<1> QED BY <1>4, <1>5

LEMMA PairStep ==
    ASSUME BrowserTypes, NEW b \in Tabs, Asked(b), NEW p \in Tokens,
           SetCookies(b, p)
    PROVE  /\ BrowserTypes' /\ Replied(b)
           /\ resp'[b].status = 200 /\ resp'[b].pair = p /\ ~resp'[b].clear
<1> DEFINE a == [status |-> 200, pair |-> p, clear |-> FALSE]
<1>1. a \in Answers
  BY DEF Answers
<1>2. /\ pc' = [pc EXCEPT ![b] = "answered"] /\ resp' = [resp EXCEPT ![b] = a]
      /\ UNCHANGED <<jar, call, hdr, sent, late>>
  BY DEF SetCookies, Reply
<1> HIDE DEF a
<1>3. BrowserTypes' /\ Replied(b) /\ resp'[b] = a
  BY <1>1, <1>2, ReplyTypes
<1> QED BY <1>3 DEF a

LEMMA AnswerStep ==
    ASSUME BrowserTypes, NEW b \in Tabs, Asked(b),
           NEW status \in {200, 401}, Answer(b, status)
    PROVE  /\ BrowserTypes' /\ Replied(b)
           /\ resp'[b].status = status /\ resp'[b].pair = None
           /\ resp'[b].clear => OriginProven(b)
<1> DEFINE a == [status |-> status, pair |-> None, clear |-> OriginProven(b)]
<1>1. a \in Answers
  BY DEF Answers, OriginProven
<1>2. /\ pc' = [pc EXCEPT ![b] = "answered"] /\ resp' = [resp EXCEPT ![b] = a]
      /\ UNCHANGED <<jar, call, hdr, sent, late>>
  BY DEF Answer, Reply
<1>3. PICK x \in Answers : x = a
  BY <1>1
<1>4. /\ x.status = status /\ x.pair = None /\ x.clear = OriginProven(b)
      /\ pc' = [pc EXCEPT ![b] = "answered"] /\ resp' = [resp EXCEPT ![b] = x]
      /\ UNCHANGED <<jar, call, hdr, sent, late>>
  BY <1>2, <1>3
<1> HIDE DEF a
<1>5. BrowserTypes' /\ Replied(b) /\ resp'[b] = x
  BY <1>4 DEF BrowserTypes, Stages, Asked, Replied, Others, Same
<1> QED BY <1>4, <1>5

LEMMA ReturnStep ==
    ASSUME BrowserTypes, NEW b \in Tabs, pc[b] # "idle",
           NEW c \in Calls \cup {None}, Return(b, c), jar' \in Cookies,
           hdr' \in [Tabs -> BOOLEAN], \A d \in Tabs : hdr'[d] => hdr[d],
           ~hdr[b]
    PROVE  BrowserTypes' /\ Ended(b)
<1>1. NoRequest \in Requests /\ NoAnswer \in Answers
  BY DEF NoRequest, Requests, NoAnswer, Answers
<1>2. BrowserTypes'
  BY <1>1 DEF Return, BrowserTypes, Stages
<1>3. Ended(b)
  BY DEF Return, BrowserTypes, Ended, Others, Same
<1> QED BY <1>2, <1>3

LEMMA DeliverStep ==
    ASSUME BrowserTypes, Shape, NEW b \in Tabs, Deliver(b)
    PROVE  BrowserTypes' /\ Ended(b) /\ JarFrom(b)
<1>1. resp[b] \in Answers /\ Following(b) \in Calls \cup {None}
  BY DEF BrowserTypes, Following, Calls
<1>2. \A j, csrfToo : Store(j, csrfToo) =>
         /\ jar' = j
         /\ hdr' \in [Tabs -> BOOLEAN] /\ \A d \in Tabs : hdr'[d] => hdr[d]
  BY DEF Store, BrowserTypes
<1>3. JarFrom(b) /\ jar' \in Cookies
      /\ hdr' \in [Tabs -> BOOLEAN] /\ \A d \in Tabs : hdr'[d] => hdr[d]
  <2>1. CASE resp[b].clear
    <3>1. NoCookies \in Cookies
      BY DEF NoCookies, Cookies
    <3> QED BY <1>2, <2>1, <3>1 DEF Deliver, JarFrom, Cleared
  <2>2. CASE ~resp[b].clear /\ resp[b].pair = None
    BY <1>2, <2>2 DEF Deliver, JarFrom, BrowserTypes
  <2>3. CASE ~resp[b].clear /\ resp[b].pair # None
    <3> DEFINE j == [access |-> resp[b].pair, refresh |-> resp[b].pair,
                     csrf |-> TRUE]
    <3>1. j \in Cookies
      BY <1>1, <2>3 DEF Answers, Cookies
    <3>2. Store(j, TRUE)
      BY <2>3 DEF Deliver
    <3> HIDE DEF j
    <3>3. jar' = j /\ jar' \in Cookies
          /\ hdr' \in [Tabs -> BOOLEAN] /\ \A d \in Tabs : hdr'[d] => hdr[d]
      BY <1>2, <3>1, <3>2
    <3> QED BY <2>3, <3>3 DEF JarFrom, j
  <2> QED BY <2>1, <2>2, <2>3
<1>4. pc[b] = "answered" /\ ~hdr[b]
  BY DEF Deliver, Shape, ShapeOf
<1>5. Return(b, Following(b))
  BY DEF Deliver
<1> QED BY <1>1, <1>3, <1>4, <1>5, ReturnStep

LEMMA LoseStep ==
    ASSUME BrowserTypes, Shape, NEW b \in Tabs, Lose(b)
    PROVE  BrowserTypes' /\ Ended(b) /\ JarFrom(b)
<1>1. pc[b] # "idle" /\ ~hdr[b] /\ Return(b, None) /\ UNCHANGED <<jar, hdr>>
  BY DEF Lose, Shape, ShapeOf
<1>2. jar' \in Cookies /\ hdr' \in [Tabs -> BOOLEAN]
  BY <1>1 DEF BrowserTypes
<1> QED BY <1>1, <1>2, ReturnStep DEF JarFrom

LEMMA RestartStep ==
    ASSUME BrowserTypes, Restart
    PROVE  /\ BrowserTypes' /\ jar' = jar
           /\ \A b \in Tabs : /\ pc'[b] = "idle" /\ ~late'[b]
                              /\ sent'[b] = NoRequest /\ resp'[b] = NoAnswer
<1>1. NoRequest \in Requests /\ NoAnswer \in Answers
  BY DEF NoRequest, Requests, NoAnswer, Answers
<1> QED BY <1>1 DEF Restart, KeptOverRestart, BrowserTypes, Stages

LEMMA LapseStep ==
    ASSUME BrowserTypes, Lapse
    PROVE  /\ BrowserTypes'
           /\ UNCHANGED <<pc, call, sent, resp, late>>
           /\ \/ jar'.refresh = jar.refresh /\ jar'.csrf = jar.csrf
              \/ jar'.refresh = None
           /\ jar'.access \in {jar.access, None}
<1>1. UNCHANGED <<pc, call, sent, resp, late>>
  BY DEF Lapse
<1>2. CASE Store([jar EXCEPT !.access = None], FALSE)
  BY <1>1, <1>2 DEF Store, BrowserTypes, Cookies
<1>3. CASE Store([jar EXCEPT !.refresh = None, !.csrf = FALSE], TRUE)
  BY <1>1, <1>3 DEF Store, BrowserTypes, Cookies
<1> QED BY <1>2, <1>3 DEF Lapse

-----------------------------------------------------------------------------
(* What the views answer.                                                  *)

OverAfter(f) == reason'[f] # None \/ fam'[f] = "purged" \/ f \in expired'

LEMMA OverAfterIs ==
    ASSUME TypeOK, Shape, Known, Next, NEW f \in Families, Over(f)
    PROVE  OverAfter(f)
BY OverStays DEF Over, OverAfter

\* A plain answer lets nobody in but an API view; a pair is a login's, or the
\* one of the rotation of the request's own token, or the one the grace window
\* holds for a token of a session that stands; and an answer that clears goes
\* to a request whose session is over.
PlainFor(b, status) ==
    status = 200 =>
       /\ call[b] \in ApiCalls /\ sent[b].access # None
       /\ CheckFamily(sid[sent[b].access])

PairFor(b, p) ==
    /\ Issued(p)'
    /\ \/ call[b] = "login" /\ tok[p] = "absent"
       \/ /\ call[b] \in Refreshes /\ Credential(b) \in Tokens
          /\ \/ pc[b] = "rotated" /\ p = putting[Credential(b)]
             \/ Live(Session(b)) /\ p = grace[Credential(b)]

ClearingFor(b, status) ==
    /\ status = 200 => call[b] \in SignOuts
    /\ OriginProven(b) /\ BurnOnReuse => OverAfter(Session(b))

Viewed(b) ==
    /\ Asked(b)
    /\ \/ \E status \in {200, 400, 401, 403, 500} :
             Plain(b, status) /\ PlainFor(b, status)
       \/ \E q \in Tokens : SetCookies(b, q) /\ PairFor(b, q)
       \/ \E status \in {200, 401} : Answer(b, status) /\ ClearingFor(b, status)

LEMMA RefusalIs ==
    ASSUME NEW b \in Tabs, Asked(b), Refuse(b),
           OriginProven(b) /\ BurnOnReuse => OverAfter(Session(b))
    PROVE  Viewed(b)
BY DEF Refuse, SignOuts, Viewed, ClearingFor

LEMMA ViewStep ==
    ASSUME TypeOK, Shape, Known, Next, NEW b \in Tabs, View(b),
           ~Refresh(b)
    PROVE  Viewed(b)
<1> USE DEF Asked
<1>1. CASE Login(b)
  <2>1. CASE Plain(b, 400)
    BY <1>1, <2>1 DEF Login, Viewed, PlainFor
  <2>2. ASSUME NEW f \in Families, NEW t \in Tokens, L!Open(f, t),
               SetCookies(b, t)
        PROVE  Viewed(b)
    <3>1. Issued(t)' /\ tok[t] = "absent" /\ tok'[t] = "unspent"
      BY <2>2 DEF L!Open, Issued, TypeOK, L!TypeOK
    <3> QED BY <1>1, <2>2, <3>1 DEF Login, Viewed, PairFor
  <2> QED BY <1>1, <2>1, <2>2 DEF Login
<1>2. CASE Unread(b)
  <2>1. CASE Credential(b) = None /\ Refuse(b)
    BY <1>2, <2>1, RefusalIs DEF OriginProven, Unread
  <2>2. CASE CsrfFailure(b)
    BY <1>2, <2>2 DEF Unread, CsrfFailure, Viewed, PlainFor
  <2> QED BY <1>2, <2>1, <2>2 DEF Unread
<1>3. CASE Disabled(b)
  <2>1. PICK f \in Families : f = Session(b) /\ fam[f] # "absent"
    BY <1>3, SessionIs DEF Disabled, Reads, OriginProven, Issued, Session
  <2>2. ASSUME f \in LiveFamilies(Owner[f])
        PROVE  OverAfter(Session(b))
    <3>1. L!Revoke({f}, "admin")
      <4>1. {f} \cap LiveFamilies(Owner[f]) = {f}
        BY <2>2
      <4> QED BY <1>3, <2>1, <4>1 DEF Disabled
    <3>2. reason'[f] = "admin"
      BY <2>2, <3>1 DEF L!Revoke, L!EndSessions, LiveFamilies
    <3> QED BY <2>1, <3>2, NoneAssumption DEF OverAfter, Reasons
  <2>3. ASSUME f \notin LiveFamilies(Owner[f])
        PROVE  OverAfter(Session(b))
    <3>1. Over(f)
      BY <2>1, <2>3 DEF LiveFamilies, Over, TypeOK, L!TypeOK
    <3>2. OverAfter(f)
      BY <3>1, OverAfterIs
    <3> QED BY <2>1, <3>2
  <2> QED BY <1>3, <2>2, <2>3, RefusalIs DEF Disabled, Reads
<1>4. CASE Dead(b)
  <2>1. Session(b) \in Families /\ Issued(Credential(b))
    BY <1>4, SessionIs DEF Dead, Reads, OriginProven
  <2>2. OverAfter(Session(b))
    <3>1. Over(Session(b))
      BY <1>4, <2>1
         DEF Dead, Live, Over, Issued, Session, TypeOK, L!TypeOK
    <3> QED BY <2>1, <3>1, OverAfterIs
  <2> QED BY <1>4, <2>2, RefusalIs DEF Dead, Reads
<1>5. CASE Error(b)
  BY <1>5 DEF Error, Reads, Viewed, PlainFor
<1>6. CASE Grant(b)
  <2>1. PICK p \in Tokens : /\ p = putting[Credential(b)] /\ Issued(p)
                            /\ SetCookies(b, p)
    BY <1>6, GrantIs
  <2>2. Issued(p)'
    BY <2>1, GrownStep DEF Grown
  <2>3. pc[b] = "rotated" /\ call[b] \in Refreshes /\ Credential(b) \in Tokens
    BY <1>6, GrantIs DEF Grant
  <2> QED BY <2>1, <2>2, <2>3 DEF Viewed, PairFor
<1>7. CASE Replay(b)
  <2>1. /\ Credential(b) \in Tokens /\ call[b] \in Refreshes /\ Live(Session(b))
        /\ pc[b] = "sent" /\ grace[Credential(b)] # None
        /\ SetCookies(b, grace[Credential(b)])
    BY <1>7, SessionIs DEF Replay, Reads, OriginProven, Graced
  <2>2. PICK p \in Tokens : p = grace[Credential(b)] /\ Issued(p)
    BY <2>1 DEF Known, Held, Issued
  <2>3. Issued(p)'
    BY <2>2, GrownStep DEF Grown
  <2> QED BY <2>1, <2>2, <2>3 DEF Viewed, PairFor
<1>8. CASE Reuse(b)
  <2>1. Session(b) \in Families /\ call[b] \in Refreshes \cup SignOuts
    BY <1>8, SessionIs DEF Reuse, Reads, OriginProven
  <2>2. BurnOnReuse => OverAfter(Session(b))
    BY <1>8, <2>1, NoneAssumption
       DEF Reuse, Burn, L!Revoke, L!EndSessions, OverAfter, Reasons, Live
  <2> QED BY <1>8, <2>1, <2>2, RefusalIs DEF Reuse, Reads
<1>9. CASE Logout(b)
  <2>1. /\ Session(b) \in Families /\ call[b] \in SignOuts
        /\ call[b] \notin ApiCalls \cup Refreshes /\ call[b] \in Reasons
        /\ OriginProven(b) = TRUE /\ Live(Session(b))
    BY <1>9, SessionIs
       DEF Logout, Reads, OriginProven, SignOuts, ApiCalls, Refreshes, Reasons
  <2>2. Session(b) \in Ends(b)
    BY <2>1 DEF Ends, LiveFamilies, Live
  <2>3. OverAfter(Session(b))
    BY <1>9, <2>1, <2>2, NoneAssumption
       DEF Logout, L!SignOut, L!Revoke, L!EndSessions, OverAfter, Live
  <2> QED BY <1>9, <2>1, <2>3
          DEF Logout, Reads, Viewed, ClearingFor
<1>10. CASE Api(b)
  BY <1>10 DEF Api, Viewed, PlainFor
<1> QED BY <1>1, <1>2, <1>3, <1>4, <1>5, <1>6, <1>7, <1>8, <1>9, <1>10
       DEF View

\* What the tab has been answered.
Given(b) ==
    \/ /\ resp'[b].pair = None /\ ~resp'[b].clear
       /\ PlainFor(b, resp'[b].status)
    \/ \E p \in Tokens :
          /\ resp'[b].pair = p /\ ~resp'[b].clear
          /\ PairFor(b, p)
    \/ /\ resp'[b].pair = None
       /\ resp'[b].clear => OriginProven(b)
       /\ ClearingFor(b, resp'[b].status)

LEMMA GivenStep ==
    ASSUME BrowserTypes, NEW b \in Tabs, Viewed(b)
    PROVE  BrowserTypes' /\ Replied(b) /\ Given(b)
<1>1. Asked(b)
  BY DEF Viewed
<1>2. ASSUME NEW status \in {200, 400, 401, 403, 500}, Plain(b, status),
             PlainFor(b, status)
      PROVE  BrowserTypes' /\ Replied(b) /\ Given(b)
  BY <1>1, <1>2, PlainStep DEF Given
<1>3. ASSUME NEW p \in Tokens, SetCookies(b, p), PairFor(b, p)
      PROVE  BrowserTypes' /\ Replied(b) /\ Given(b)
  BY <1>1, <1>3, PairStep DEF Given
<1>4. ASSUME NEW status \in {200, 401}, Answer(b, status),
             ClearingFor(b, status)
      PROVE  BrowserTypes' /\ Replied(b) /\ Given(b)
  BY <1>1, <1>4, AnswerStep DEF Given
<1> QED BY <1>2, <1>3, <1>4 DEF Viewed

Restarted ==
    /\ jar' = jar
    /\ \A b \in Tabs : /\ pc'[b] = "idle" /\ ~late'[b]
                       /\ sent'[b] = NoRequest /\ resp'[b] = NoAnswer

Lapsed ==
    /\ UNCHANGED <<pc, call, sent, resp, late>>
    /\ \/ jar'.refresh = jar.refresh /\ jar'.csrf = jar.csrf
       \/ jar'.refresh = None
    /\ jar'.access \in {jar.access, None}

Rests == UNCHANGED <<jar, pc, call, sent, resp, late>>

\* Whatever a step does to the browser is one of these.
Browsed ==
    \/ \E b \in Tabs, c \in Calls : Fetched(b, c)
    \/ \E b \in Tabs : Departed(b)
    \/ \E b \in Tabs : Committed(b)
    \/ \E b \in Tabs : Replied(b) /\ Given(b)
    \/ \E b \in Tabs : Ended(b) /\ JarFrom(b)
    \/ Restarted \/ Lapsed \/ Rests

LEMMA BrowserStep ==
    ASSUME TypeOK, Shape, Known, Next
    PROVE  BrowserTypes' /\ Browsed
<1>1. BrowserTypes
  BY DEF TypeOK, BrowserTypes, Stages
<1>2. ASSUME NEW b \in Tabs, Page(b) PROVE  BrowserTypes' /\ Browsed
  BY <1>1, <1>2, FetchStep, SendStep, DeliverStep DEF Page, Browsed
<1>3. ASSUME NEW b \in Tabs, View(b) PROVE  BrowserTypes' /\ Browsed
  BY <1>1, <1>3, RefreshStep, ViewStep, GivenStep DEF Browsed
<1>4. ASSUME NEW b \in Tabs, Lose(b) PROVE  BrowserTypes' /\ Browsed
  BY <1>1, <1>4, LoseStep DEF Browsed
<1>5. CASE Restart
  BY <1>1, <1>5, RestartStep DEF Browsed, Restarted
<1>6. CASE Lapse
  BY <1>1, <1>6, LapseStep DEF Browsed, Lapsed
<1>7. ASSUME UNCHANGED <<jar, tabs>> PROVE  BrowserTypes' /\ Browsed
  BY <1>1, <1>7 DEF tabs, BrowserTypes, Browsed, Rests
<1>8. ASSUME NEW t \in Tokens, AccessExpires(t) \/ GraceExpires(t)
      PROVE  UNCHANGED <<jar, tabs>>
  BY <1>8 DEF AccessExpires, GraceExpires
<1>9. ASSUME NEW f \in Families, SessionExpires(f)
      PROVE  UNCHANGED <<jar, tabs>>
  BY <1>9 DEF SessionExpires
<1>10. ASSUME NEW u \in Users, SetActive(u) PROVE  UNCHANGED <<jar, tabs>>
  BY <1>10 DEF SetActive
<1>11. Outage \/ Purge => UNCHANGED <<jar, tabs>>
  BY DEF Outage, Purge
<1>12. ASSUME NEW t \in Tokens, GrantNobody(t) PROVE  UNCHANGED <<jar, tabs>>
  BY <1>12 DEF GrantNobody
<1> QED BY <1>2, <1>3, <1>4, <1>5, <1>6, <1>7, <1>8, <1>9, <1>10, <1>11, <1>12
        DEF Next, Environment

\* The header of a request exists from its fetch until it leaves.
LEMMA HeaderStep ==
    ASSUME TypeOK, Shape, Next, NEW d \in Tabs, hdr'[d]
    PROVE  pc'[d] = "ready"
<1>1. /\ hdr \in [Tabs -> BOOLEAN] /\ pc \in [Tabs -> Stages]
      /\ \A b \in Tabs : hdr[b] => pc[b] = "ready"
  BY DEF TypeOK, Stages, Shape, ShapeOf
<1>2. ASSUME NEW b \in Tabs, NEW c \in Calls, Fetch(b, c)
      PROVE  pc'[d] = "ready"
  BY <1>1, <1>2 DEF Fetch
<1>3. ASSUME NEW b \in Tabs, Send(b) PROVE  pc'[d] = "ready"
  BY <1>1, <1>3 DEF Send
<1>4. ASSUME NEW b \in Tabs, Deliver(b) PROVE  pc'[d] = "ready"
  BY <1>1, <1>4 DEF Deliver, Store, Return
<1>5. ASSUME NEW b \in Tabs, Lose(b) PROVE  pc'[d] = "ready"
  BY <1>1, <1>5 DEF Lose, Return
<1>6. CASE Restart
  BY <1>1, <1>6 DEF Restart
<1>7. CASE Lapse
  BY <1>1, <1>7 DEF Lapse, Store
<1>8. ASSUME NEW b \in Tabs, View(b)
      PROVE  /\ hdr' = hdr /\ pc[b] # "ready"
             /\ pc' = [pc EXCEPT ![b] = "answered"]
                \/ pc' = [pc EXCEPT ![b] = "rotated"]
  BY <1>8 DEF View, Login, Unread, Disabled, Dead, Error, Refresh, Grant, Replay,
              Reuse, Logout, Api, Reads, Refuse, CsrfFailure, Plain,
              SetCookies, Answer, Reply
<1>9. ASSUME NEW b \in Tabs, View(b) PROVE  pc'[d] = "ready"
  BY <1>1, <1>8, <1>9
<1>10. ASSUME NEW t \in Tokens, AccessExpires(t) \/ GraceExpires(t)
       PROVE  pc'[d] = "ready"
  BY <1>1, <1>10 DEF AccessExpires, GraceExpires, tabs
<1>11. ASSUME NEW f \in Families, SessionExpires(f)
       PROVE  pc'[d] = "ready"
  BY <1>1, <1>11 DEF SessionExpires, tabs
<1>12. ASSUME NEW u \in Users, SetActive(u) PROVE  pc'[d] = "ready"
  BY <1>1, <1>12 DEF SetActive, tabs
<1>13. CASE Outage \/ Purge
  BY <1>1, <1>13 DEF Outage, Purge, tabs
<1>14. ASSUME NEW t \in Tokens, GrantNobody(t) PROVE  pc'[d] = "ready"
  BY <1>1, <1>14 DEF GrantNobody, tabs
<1> QED BY <1>2, <1>3, <1>4, <1>5, <1>6, <1>7, <1>9, <1>10, <1>11, <1>12,
           <1>13, <1>14
        DEF Next, Environment, Page

-----------------------------------------------------------------------------
(* The parts of the invariant, one by one.                                 *)

LEMMA TypedStep ==
    ASSUME TypeOK, Shape, Known, Next
    PROVE  TypeOK'
<1>1. BrowserTypes' /\ Served /\ L!TypeOK'
  BY BrowserStep, ServerStep, GrownStep
<1>2. events' \in 0 .. MaxEvents
  BY BoundAssumption DEF TypeOK, Next
<1> QED BY <1>1, <1>2 DEF BrowserTypes, Served, TypeOK, Stages

\* Nothing to carry and nothing to answer with.
LEMMA Nothing ==
    /\ NoRequest.access = None /\ NoRequest.refresh = None
    /\ NoAnswer.pair = None /\ ~NoAnswer.clear /\ NoAnswer.status = 0
    /\ NoCookies.access = None /\ NoCookies.refresh = None /\ ~NoCookies.csrf
BY DEF NoRequest, NoAnswer, NoCookies

\* The kinds of call are apart.
LEMMA KindsApart ==
    /\ "login" \notin ApiCalls \cup Refreshes \cup SignOuts
    /\ ApiCalls \cap Refreshes = {} /\ ApiCalls \cap SignOuts = {}
    /\ Refreshes \cap SignOuts = {}
BY DEF ApiCalls, Refreshes, SignOuts

\* A tab that a step leaves alone keeps its shape.
LEMMA SameShape ==
    ASSUME TypeOK, Shape, Next, NEW d \in Tabs, Same(d)
    PROVE  ShapeOf(d)'
<1>1. ShapeOf(d)
  BY DEF Shape
<1>2. pc'[d] # "ready" => ~hdr'[d]
  BY HeaderStep
<1> QED BY <1>1, <1>2 DEF ShapeOf, Same, OriginProven, Credential

LEMMA ShapeStep ==
    ASSUME TypeOK, Shape, Known, Next
    PROVE  Shape'
<1> SUFFICES ASSUME NEW d \in Tabs PROVE ShapeOf(d)'
  BY DEF Shape
<1>1. pc'[d] # "ready" => ~hdr'[d]
  BY HeaderStep
<1>2. CASE Same(d)
  BY <1>2, SameShape
<1>3. ASSUME NEW c \in Calls, Fetched(d, c) PROVE ShapeOf(d)'
  BY <1>1, <1>3, Nothing DEF Fetched, ShapeOf, Shape, TypeOK
<1>4. CASE Departed(d)
  BY <1>1, <1>4, Nothing DEF Departed, ShapeOf, Shape, Attached
<1>5. CASE Committed(d) \/ Replied(d)
  BY <1>1, <1>5
     DEF Committed, Replied, Asked, Shape, ShapeOf, OriginProven, Credential
<1>6. CASE pc'[d] = "idle" /\ sent'[d] = NoRequest /\ resp'[d] = NoAnswer
           /\ ~late'[d]
  BY <1>1, <1>6, Nothing DEF ShapeOf
<1> QED BY <1>2, <1>3, <1>4, <1>5, <1>6, BrowserStep
        DEF Browsed, Fetched, Departed, Committed, Replied, Ended, Others,
            Restarted, Lapsed, Rests, Same

\* A rotation of t has committed and made a new pair.
Made(t) == \E n \in Tokens : putting'[t] = n /\ tok[n] = "absent" /\ Issued(n)'

\* What the grace window has, or will have, for a token was there, or goes
\* over from the worker to the cache, or a rotation makes it.
LEMMA GraceStep ==
    ASSUME TypeOK, Shape, Known, Next, NEW t \in Tokens
    PROVE  /\ grace'[t] \in {grace[t], putting[t], None}
           /\ \/ putting'[t] \in {putting[t], None}
              \/ Made(t)
<1> DEFINE Goal == /\ grace'[t] \in {grace[t], putting[t], None}
                   /\ \/ putting'[t] \in {putting[t], None}
                      \/ Made(t)
<1> SUFFICES Goal
  OBVIOUS
<1>1. ASSUME NEW b \in Tabs, Refresh(b) PROVE Goal
  <2>1. PICK c \in Tokens : c = Credential(b) /\ Issued(c)
    BY <1>1, SessionIs DEF Refresh, Reads, OriginProven
  <2>2. PICK n \in Tokens : /\ L!Rotate(c, n)
                            /\ putting' = [putting EXCEPT ![c] = n]
                            /\ UNCHANGED grace
    BY <1>1, <2>1 DEF Refresh
  <2>3. Made(c)
    <3>1. putting'[c] = n
      BY <2>2 DEF TypeOK
    <3>2. tok[n] = "absent" /\ Issued(n)'
      BY <2>1, <2>2 DEF L!Rotate, TypeOK, L!TypeOK, Issued
    <3> QED BY <3>1, <3>2 DEF Made
  <2> QED BY <2>2, <2>3 DEF TypeOK
<1>2. ASSUME NEW u \in Tokens, GraceExpires(u) PROVE Goal
  BY <1>2 DEF GraceExpires, TypeOK
<1>3. ASSUME NEW u \in Tokens, Puts(u) PROVE Goal
  BY <1>3 DEF Puts, GracePut, TypeOK
<1>4. ASSUME UNCHANGED <<grace, putting>> PROVE Goal
  BY <1>4
<1> HIDE DEF Goal
<1>5. \A b \in Tabs, c \in Calls : Fetch(b, c) => UNCHANGED <<grace, putting>>
  BY DEF Fetch, server
<1>6. \A b \in Tabs :
         Send(b) \/ Deliver(b) \/ Lose(b) => UNCHANGED <<grace, putting>>
  BY DEF Send, Deliver, Lose, server
<1>7. \A b \in Tabs :
         View(b) => Refresh(b) \/ Grant(b) \/ UNCHANGED <<grace, putting>>
  BY DEF View, Login, Unread, Disabled, Dead, Error, Replay, Reuse, Logout,
         Api, server
<1>8. \A u \in Tokens : AccessExpires(u) => UNCHANGED <<grace, putting>>
  BY DEF AccessExpires
<1>9. \A f \in Families : SessionExpires(f) => UNCHANGED <<grace, putting>>
  BY DEF SessionExpires
<1>10. \A u \in Users : SetActive(u) => UNCHANGED <<grace, putting>>
  BY DEF SetActive
<1>11. Restart \/ Lapse \/ Outage \/ Purge => UNCHANGED <<grace, putting>>
  BY DEF Restart, Lapse, Outage, Purge, server
<1>12. ASSUME NEW b \in Tabs, Grant(b) PROVE Goal
  BY <1>3, <1>12, GrantIs
<1> QED BY <1>1, <1>2, <1>3, <1>4, <1>5, <1>6, <1>7, <1>8, <1>9, <1>10, <1>11,
           <1>12
        DEF Next, Page, GrantNobody, Environment

\* Issued before, issued after.
HeldAfter(x) ==
    x = None \/ /\ x \in Tokens /\ tok'[x] # "absent"
                /\ sid'[x] \in Families /\ fam'[sid'[x]] # "absent"

LEMMA HeldStays ==
    ASSUME TypeOK, Shape, Known, Next
    PROVE  \A x : Held(x) => HeldAfter(x)
BY GrownStep DEF Held, HeldAfter, Grown, Issued

LEMMA KnownStep ==
    ASSUME TypeOK, Shape, Known, Next
    PROVE  Known'
<1>1. Browsed /\ Grown /\ \A x : Held(x) => HeldAfter(x)
  BY BrowserStep, GrownStep, HeldStays
<1>2. HeldAfter(None)
  BY DEF HeldAfter
<1>3. /\ HeldAfter(jar.access) /\ HeldAfter(jar.refresh)
      /\ \A b \in Tabs :
            /\ HeldAfter(sent[b].access) /\ HeldAfter(sent[b].refresh)
            /\ HeldAfter(resp[b].pair)
  BY <1>1 DEF Known
<1>4. HeldAfter(jar'.access) /\ HeldAfter(jar'.refresh)
  <2>1. ASSUME NEW b \in Tabs, JarFrom(b)
        PROVE  HeldAfter(jar'.access) /\ HeldAfter(jar'.refresh)
    BY <1>2, <1>3, <2>1, Nothing DEF JarFrom
  <2>2. CASE Lapsed
    BY <1>2, <1>3, <2>2 DEF Lapsed
  <2>3. CASE jar' = jar
    BY <1>3, <2>3
  <2> QED BY <1>1, <2>1, <2>2, <2>3
          DEF Browsed, Fetched, Departed, Committed, Replied, Restarted, Rests
<1>5. ASSUME NEW d \in Tabs
      PROVE  /\ HeldAfter(sent'[d].access) /\ HeldAfter(sent'[d].refresh)
             /\ HeldAfter(resp'[d].pair)
  <2>1. CASE sent'[d] = sent[d] /\ resp'[d] = resp[d]
    BY <1>3, <2>1
  <2>2. CASE sent'[d] = NoRequest /\ resp'[d] = NoAnswer
    BY <1>2, <2>2, Nothing
  <2>3. CASE Departed(d)
    BY <1>2, <1>3, <2>3 DEF Departed, Attached
  <2>4. CASE Replied(d) /\ Given(d)
    <3>1. resp'[d].pair = None \/ \E p \in Tokens : resp'[d].pair = p /\ Issued(p)'
      BY <2>4 DEF Given, PairFor
    <3>2. HeldAfter(resp'[d].pair)
      BY <3>1 DEF HeldAfter, Issued
    <3> QED BY <1>3, <2>4, <3>2 DEF Replied
  <2> QED BY <1>1, <2>1, <2>2, <2>3, <2>4
          DEF Browsed, Fetched, Departed, Committed, Replied, Ended, Others,
              Restarted, Lapsed, Rests, Same
<1>6. ASSUME NEW t \in Tokens
      PROVE  /\ tok'[t] # "absent" => Issued(t)'
             /\ HeldAfter(putting'[t]) /\ HeldAfter(grace'[t])
  <2>1. HeldAfter(putting[t]) /\ HeldAfter(grace[t])
    BY <1>1 DEF Known
  <2>2. Made(t) => HeldAfter(putting'[t])
    BY DEF Made, Issued, HeldAfter
  <2>3. tok'[t] # "absent" => Issued(t)'
    BY <1>1 DEF Grown, AllIssued
  <2> QED BY <1>2, <2>1, <2>2, <2>3, GraceStep
<1>7. ASSUME NEW t \in Tokens
      PROVE  (/\ tok[t] # "absent" => Issued(t)
              /\ Held(putting[t]) /\ Held(grace[t]))'
  BY <1>6 DEF HeldAfter, Held, Issued
<1> QED BY <1>4, <1>5, <1>7 DEF Known, Held, HeldAfter, Issued

LEMMA NeverStrandedStep ==
    ASSUME TypeOK, Shape, Known, NeverStrandedByCsrf, Next
    PROVE  NeverStrandedByCsrf'
<1>1. ASSUME NEW b \in Tabs, JarFrom(b) PROVE NeverStrandedByCsrf'
  BY <1>1, Nothing DEF JarFrom, NeverStrandedByCsrf
<1>2. CASE Lapsed
  BY <1>2 DEF Lapsed, NeverStrandedByCsrf
<1>3. CASE jar' = jar
  BY <1>3 DEF NeverStrandedByCsrf
<1> QED BY <1>1, <1>2, <1>3, BrowserStep
        DEF Browsed, Fetched, Departed, Committed, Replied, Restarted, Rests

\* Whatever a step adds to the sessions answered for is over.
LEMMA OutStep ==
    ASSUME TypeOK, Shape, Known, Next, BurnOnReuse
    PROVE  /\ out \subseteq out'
           /\ \A f \in out' : f \in out \/ OverAfter(f)
<1>1. ASSUME NEW b \in Tabs, Dead(b) \/ Reuse(b)
      PROVE  \A f \in out' : f \in out \/ OverAfter(f)
  <2>1. PICK f \in Families : f = Session(b) /\ fam[f] # "absent"
    BY <1>1, SessionIs DEF Dead, Reuse, Reads, OriginProven, Issued, Session
  <2>2. ASSUME Dead(b) PROVE OverAfter(f)
    <3>1. Over(f)
      BY <2>1, <2>2 DEF Dead, Live, Over, TypeOK, L!TypeOK
    <3> QED BY <3>1, OverAfterIs
  <2>3. ASSUME Reuse(b) PROVE OverAfter(f)
    BY <2>1, <2>3, NoneAssumption
       DEF Reuse, Burn, L!Revoke, L!EndSessions, OverAfter, Reasons, Live
  <2> QED BY <1>1, <2>1, <2>2, <2>3 DEF Dead, Reuse, SignedOut
<1>2. ASSUME NEW b \in Tabs, Logout(b), NEW f \in Ends(b)
      PROVE  OverAfter(f)
  <2>1. call[b] \in Reasons /\ f \in Families
    BY <1>2, SessionIs
       DEF Logout, Reads, OriginProven, SignOuts, Reasons, Ends, LiveFamilies
  <2> QED BY <1>2, <2>1, NoneAssumption
          DEF Logout, L!SignOut, L!Revoke, L!EndSessions, OverAfter
<1>3. ASSUME NEW b \in Tabs, Dead(b) \/ Reuse(b) PROVE out \subseteq out'
  BY <1>3 DEF Dead, Reuse, SignedOut
<1>4. ASSUME NEW b \in Tabs, Logout(b) PROVE out' = out \cup Ends(b)
  BY <1>4 DEF Logout
<1>5. \A b \in Tabs, c \in Calls : Fetch(b, c) => UNCHANGED out
  BY DEF Fetch
<1>6. \A b \in Tabs : Send(b) \/ Deliver(b) \/ Lose(b) => UNCHANGED out
  BY DEF Send, Deliver, Lose
<1>7. \A b \in Tabs :
         View(b) => Dead(b) \/ Reuse(b) \/ Logout(b) \/ UNCHANGED out
  BY DEF View, Login, Unread, Disabled, Error, Refresh, Grant, Puts, Replay, Api
<1>8. \A t \in Tokens :
         AccessExpires(t) \/ GraceExpires(t) \/ GrantNobody(t) => UNCHANGED out
  BY DEF AccessExpires, GraceExpires, GrantNobody, Puts
<1>9. \A f \in Families : SessionExpires(f) => UNCHANGED out
  BY DEF SessionExpires
<1>10. \A u \in Users : SetActive(u) => UNCHANGED out
  BY DEF SetActive
<1>11. Restart \/ Lapse \/ Outage \/ Purge => UNCHANGED out
  BY DEF Restart, Lapse, Outage, Purge
<1>12. CASE \E b \in Tabs : Dead(b) \/ Reuse(b)
  BY <1>1, <1>3, <1>12
<1>13. CASE \E b \in Tabs : Logout(b)
  BY <1>2, <1>4, <1>13
<1>14. CASE UNCHANGED out
  BY <1>14
<1> QED BY <1>5, <1>6, <1>7, <1>8, <1>9, <1>10, <1>11, <1>12, <1>13, <1>14
        DEF Next, Page, Environment

\* The four things that Answered says of a tab.
ClearedRightly(b) == resp[b].clear => OriginProven(b) /\ Over(Session(b))

LateFor(b) == \E t \in {sent[b].access, sent[b].refresh} \ {None} : sid[t] \in out

LateInVain(b) ==
    late[b] /\ resp[b].status = 200 =>
       call[b] \notin Refreshes /\ ~(Strict /\ call[b] \in ApiCalls)

RotatedInTime(b) == pc[b] = "rotated" => ~late[b]

LEMMA AnsweredIs ==
    Answered <=> (BurnOnReuse =>
                     /\ \A f \in out : Over(f)
                     /\ \A b \in Tabs : /\ ClearedRightly(b)
                                        /\ late[b] => LateFor(b)
                                        /\ LateInVain(b)
                                        /\ RotatedInTime(b))
BY DEF Answered, ClearedRightly, LateFor, LateInVain, RotatedInTime

\* A request that was late is still late for a session that is over.
LEMMA LateStays ==
    ASSUME TypeOK, Shape, Known, Next, BurnOnReuse, NEW b \in Tabs,
           LateFor(b), sent'[b] = sent[b]
    PROVE  LateFor(b)'
<1>1. PICK t \in {sent[b].access, sent[b].refresh} \ {None} : sid[t] \in out
  BY DEF LateFor
<1>2. Issued(t) /\ Grown
  BY <1>1, GrownStep DEF Known, Held
<1>3. sid'[t] \in out'
  BY <1>1, <1>2, OutStep DEF Grown, Issued
<1> QED BY <1>1, <1>3 DEF LateFor

LEMMA AnsweredStep ==
    ASSUME TypeOK, Shape, Known, Answered, Next
    PROVE  Answered'
<1> SUFFICES ASSUME BurnOnReuse
             PROVE  /\ \A f \in out' : OverAfter(f)
                    /\ \A b \in Tabs : /\ ClearedRightly(b)'
                                       /\ late'[b] => LateFor(b)'
                                       /\ LateInVain(b)'
                                       /\ RotatedInTime(b)'
  BY DEF Answered, ClearedRightly, LateFor, LateInVain, RotatedInTime, Over,
         OverAfter
<1>1. /\ \A f \in out : Over(f)
      /\ \A b \in Tabs : /\ ClearedRightly(b)
                         /\ late[b] => LateFor(b)
                         /\ LateInVain(b)
                         /\ RotatedInTime(b)
  BY AnsweredIs
<1>2. \A f \in out' : OverAfter(f)
  BY <1>1, OutStep, OverAfterIs DEF TypeOK
<1>3. ASSUME NEW d \in Tabs
      PROVE  /\ ClearedRightly(d)'
             /\ late'[d] => LateFor(d)'
             /\ LateInVain(d)'
             /\ RotatedInTime(d)'
  <2>1. ASSUME OriginProven(d), Over(Session(d)), sent'[d] = sent[d]
        PROVE  OriginProven(d)' /\ Over(Session(d))'
    <3>1. PICK t \in Tokens : t = Credential(d) /\ Issued(t)
      BY <2>1, SessionIs DEF OriginProven
    <3>2. sid'[t] = sid[t] /\ OverAfter(sid[t])
      BY <2>1, <3>1, GrownStep, OverAfterIs DEF Grown, Issued, Session
    <3> QED BY <2>1, <3>1, <3>2
            DEF OriginProven, Credential, Session, Over, OverAfter
  <2>2. CASE Same(d)
    BY <1>1, <2>1, <2>2, LateStays
       DEF Same, ClearedRightly, LateInVain, RotatedInTime
  <2>3. CASE resp'[d] = NoAnswer /\ ~late'[d]
    BY <2>3, Nothing DEF ClearedRightly, LateInVain, RotatedInTime
  <2>4. ASSUME NEW c \in Calls, Fetched(d, c)
        PROVE  resp'[d] = NoAnswer /\ ~late'[d]
    BY <2>4 DEF Fetched, TypeOK, Shape, ShapeOf
  <2>5. CASE Departed(d)
    <3>1. resp'[d] = NoAnswer
      BY <2>5 DEF Departed, Shape, ShapeOf
    <3>2. ASSUME late'[d] PROVE LateFor(d)'
      <4>1. PICK t \in {sent'[d].access, sent'[d].refresh} \ {None} :
                 sid[t] \in out
        BY <2>5, <3>2 DEF Departed
      <4>2. t \in {jar.access, jar.refresh} /\ t # None
        BY <2>5, <4>1 DEF Departed, Attached
      <4>3. Issued(t)
        BY <4>2 DEF Known, Held
      <4>4. sid'[t] \in out'
        BY <4>1, <4>3, GrownStep, OutStep DEF Grown, Issued
      <4> QED BY <4>1, <4>4 DEF LateFor
    <3> QED BY <2>5, <3>1, <3>2, Nothing
            DEF Departed, ClearedRightly, LateInVain, RotatedInTime
  <2>6. CASE Replied(d) /\ Given(d)
    <3>1. sent'[d] = sent[d] /\ late'[d] = late[d] /\ call'[d] = call[d]
      BY <2>6 DEF Replied
    <3>2. ClearedRightly(d)'
      <4>1. ASSUME resp'[d].clear
            PROVE  OriginProven(d) /\ OverAfter(Session(d))
        BY <2>6, <4>1 DEF Given, ClearingFor
      <4>2. ASSUME resp'[d].clear PROVE OriginProven(d)' /\ Over(Session(d))'
        <5>1. PICK t \in Tokens : t = Credential(d) /\ Issued(t)
          BY <4>1, <4>2, SessionIs DEF OriginProven
        <5>2. sid'[t] = sid[t] /\ OverAfter(sid[t])
          BY <4>1, <4>2, <5>1, GrownStep DEF Grown, Session
        <5> QED BY <3>1, <4>1, <4>2, <5>1, <5>2
                DEF OriginProven, Credential, Session, Over, OverAfter
      <4> QED BY <4>2 DEF ClearedRightly
    <3>3. late'[d] => LateFor(d)'
      BY <1>1, <3>1, LateStays
    <3>4. ASSUME late[d], resp'[d].status = 200
          PROVE  call[d] \notin Refreshes /\ ~(Strict /\ call[d] \in ApiCalls)
      <4>1. PICK t \in {sent[d].access, sent[d].refresh} \ {None} :
                 sid[t] \in out /\ Over(sid[t])
        BY <1>1, <3>4 DEF LateFor
      <4>2. ~Live(sid[t])
        BY <4>1 DEF Over, Live
      <4>3. call[d] \in ApiCalls => t = sent[d].access
        BY <4>1, KindsApart DEF Shape, ShapeOf
      <4>4. call[d] \in Refreshes => t = Credential(d)
        BY <4>1, KindsApart DEF Shape, ShapeOf, Credential
      <4>5. CASE PlainFor(d, resp'[d].status)
        BY <3>4, <4>2, <4>3, <4>5, KindsApart DEF PlainFor, CheckFamily
      <4>6. CASE \E p \in Tokens : PairFor(d, p)
        BY <1>1, <3>4, <4>2, <4>4, <4>6, KindsApart
           DEF PairFor, Session, RotatedInTime
      <4>7. CASE ClearingFor(d, resp'[d].status)
        BY <3>4, <4>7, KindsApart DEF ClearingFor
      <4> QED BY <2>6, <4>5, <4>6, <4>7 DEF Given
    <3> QED BY <2>6, <3>1, <3>2, <3>3, <3>4
            DEF Replied, LateInVain, RotatedInTime
  <2>7. CASE Committed(d)
    <3>1. /\ UNCHANGED <<call, sent, resp, late>> /\ resp[d] = NoAnswer
          /\ call[d] \in Refreshes /\ Live(Session(d))
      <4>1. pc[d] = "answered" \/ resp[d] = NoAnswer
        BY DEF Shape, ShapeOf
      <4> QED BY <2>7, <4>1 DEF Committed
    <3>2. ASSUME late[d] PROVE FALSE
      <4>1. PICK t \in {sent[d].access, sent[d].refresh} \ {None} :
                 sid[t] \in out /\ Over(sid[t])
        BY <1>1, <3>2 DEF LateFor
      <4>2. t = Credential(d)
        BY <3>1, <4>1, KindsApart DEF Shape, ShapeOf, Credential
      <4> QED BY <3>1, <4>1, <4>2 DEF Over, Live, Session
    <3> QED BY <3>1, <3>2, Nothing
            DEF ClearedRightly, LateInVain, RotatedInTime
  <2> QED BY <2>2, <2>3, <2>4, <2>5, <2>6, <2>7, BrowserStep
          DEF Browsed, Fetched, Departed, Committed, Replied, Ended, Others,
              Restarted, Lapsed, Rests, Same
<1> QED BY <1>2, <1>3

-----------------------------------------------------------------------------
(* As long as it is calm.                                                  *)

\* Calm, once lost, is lost.
LEMMA CalmStep ==
    ASSUME TypeOK, Next, calm'
    PROVE  calm
<1>1. \A b \in Tabs, c \in Calls : Fetch(b, c) => calm
  BY DEF Fetch
<1>2. \A b \in Tabs : Send(b) \/ Deliver(b) \/ Lose(b) => calm
  BY DEF Send, Deliver, Lose
<1>3. \A b \in Tabs : View(b) => calm
  BY DEF View, Login, Unread, Disabled, Dead, Error, Refresh, Grant, Puts,
         Replay, Reuse, Logout, Api
<1>4. \A t \in Tokens : AccessExpires(t) \/ GraceExpires(t) \/ GrantNobody(t) => calm
  BY DEF AccessExpires, GraceExpires, GrantNobody, Puts
<1>5. \A f \in Families : SessionExpires(f) => calm
  BY DEF SessionExpires
<1>6. \A u \in Users : SetActive(u) => calm
  BY DEF SetActive
<1>7. Restart \/ Lapse \/ Outage \/ Purge => calm
  BY DEF Restart, Lapse, Outage, Purge
<1> QED BY <1>1, <1>2, <1>3, <1>4, <1>5, <1>6, <1>7
        DEF Next, Page, Environment

LiveAfter(f) == fam'[f] = "stored" /\ reason'[f] = None /\ f \notin expired'

\* There is an entry for t, or one is on its way.
Kept(t) == grace[t] # None \/ putting[t] # None

\* A token of a session that stands after the step is spent by it only at a
\* rotation, which has an entry on its way; the cache still works; and no entry
\* is lost of a token in use.
Careful ==
    /\ up' = up
    /\ \A t \in Tokens :
          /\ tok'[t] = "spent" /\ tok[t] # "spent" /\ LiveAfter(sid'[t])
                => putting'[t] # None
          /\ InUse(t) /\ Kept(t) => Kept(t)'

LEMMA CarefulStep ==
    ASSUME TypeOK, Shape, Known, Next, calm', up
    PROVE  Careful
<1> USE DEF Careful, LiveAfter, Kept
<1>1. L!TypeOK /\ \A t \in Tokens : tok[t] # "absent" => Issued(t)
  BY DEF Known, TypeOK
<1>2. ASSUME UNCHANGED <<tok, putting, grace, up>> PROVE Careful
  BY <1>2
<1>3. ASSUME UNCHANGED server PROVE Careful
  BY <1>2, <1>3 DEF server, ledger
<1>4. ASSUME NEW b \in Tabs, Login(b) PROVE Careful
  <2>1. CASE UNCHANGED ledger
    BY <1>2, <1>4, <2>1 DEF Login, ledger
  <2>2. ASSUME NEW f \in Families, NEW t \in Tokens, L!Open(f, t)
        PROVE  Careful
    BY <1>1, <1>4, <2>2 DEF Login, L!Open, L!TypeOK
  <2> QED BY <1>4, <2>1, <2>2 DEF Login
<1>5. ASSUME NEW b \in Tabs, Disabled(b) PROVE Careful
  BY <1>2, <1>5 DEF Disabled, L!Revoke
<1>6. ASSUME NEW b \in Tabs, Refresh(b) PROVE Careful
  <2>1. PICK c \in Tokens : c = Credential(b)
    BY <1>6, SessionIs DEF Refresh, Reads, OriginProven
  <2>2. PICK n \in Tokens : /\ L!Rotate(c, n)
                            /\ putting' = [putting EXCEPT ![c] = n]
                            /\ UNCHANGED <<grace, up>>
    BY <1>6, <2>1 DEF Refresh
  <2> QED BY <2>2, NoneAssumption DEF L!Rotate, TypeOK, L!TypeOK
<1>7. ASSUME NEW c \in Tokens, Puts(c) PROVE Careful
  BY <1>7 DEF Puts, GracePut, TypeOK, ledger
<1>8. ASSUME NEW b \in Tabs, Grant(b) PROVE Careful
  BY <1>7, <1>8, GrantIs
<1>9. ASSUME NEW b \in Tabs, Reuse(b) PROVE Careful
  BY <1>2, <1>9 DEF Reuse, Burn, L!Revoke, ledger
<1>10. ASSUME NEW b \in Tabs, Logout(b) PROVE Careful
  <2>1. /\ Credential(b) \in Tokens /\ Ends(b) \in SUBSET Families
        /\ call[b] \in Reasons
    BY <1>10, SessionIs
       DEF Logout, Reads, OriginProven, SignOuts, Reasons, Ends, LiveFamilies
  <2>2. CASE L!Revoke(Ends(b), call[b])
    BY <1>2, <1>10, <2>2 DEF Logout, L!Revoke
  <2>3. CASE L!SignOut(Credential(b), Ends(b), call[b])
    BY <1>10, <2>1, <2>3, NoneAssumption
       DEF Logout, L!SignOut, L!EndSessions, TypeOK, L!TypeOK
  <2> QED BY <1>10, <2>2, <2>3 DEF Logout
<1>11. ASSUME NEW b \in Tabs,
              Unread(b) \/ Dead(b) \/ Error(b) \/ Replay(b) \/ Api(b)
       PROVE  Careful
  BY <1>3, <1>11 DEF Unread, Dead, Error, Replay, Api
<1>12. ASSUME NEW b \in Tabs, NEW c \in Calls, Fetch(b, c) PROVE Careful
  BY <1>3, <1>12 DEF Fetch
<1>13. ASSUME NEW b \in Tabs, Send(b) \/ Deliver(b) \/ Lose(b) PROVE Careful
  BY <1>3, <1>13 DEF Send, Deliver, Lose
<1>14. CASE Restart \/ Lapse
  BY <1>3, <1>14 DEF Restart, Lapse
<1>15. ASSUME Outage PROVE FALSE
  BY <1>15 DEF Outage
<1>16. CASE Purge
  BY <1>16 DEF Purge, L!Forget, TypeOK, L!TypeOK
<1>17. ASSUME NEW t \in Tokens, AccessExpires(t) PROVE Careful
  BY <1>2, <1>17 DEF AccessExpires, ledger
<1>18. ASSUME NEW t \in Tokens, GraceExpires(t) PROVE Careful
  <2>1. ~InUse(t) /\ UNCHANGED <<tok, putting, up>>
        /\ grace' = [grace EXCEPT ![t] = None]
    BY <1>18 DEF GraceExpires, ledger
  <2> HIDE DEF LiveAfter
  <2> QED BY <2>1 DEF TypeOK
<1>19. ASSUME NEW f \in Families, SessionExpires(f) PROVE Careful
  BY <1>2, <1>19 DEF SessionExpires, ledger
<1>20. ASSUME NEW u \in Users, SetActive(u) PROVE Careful
  BY <1>2, <1>20 DEF SetActive, ledger
<1> QED BY <1>4, <1>5, <1>6, <1>7, <1>8, <1>9, <1>10, <1>11, <1>12, <1>13,
           <1>14, <1>15, <1>16, <1>17, <1>18, <1>19, <1>20
        DEF Next, Page, View, GrantNobody, Environment

\* What is in use was in use, or is new.
LEMMA UseStep ==
    ASSUME TypeOK, Shape, Known, Next, NEW t \in Tokens, InUse(t)'
    PROVE  InUse(t) \/ tok[t] = "absent"
<1>1. Browsed /\ t # None
  BY BrowserStep, NoneAssumption
<1>2. ASSUME jar'.refresh = t
      PROVE  jar.refresh = t \/ \E b \in Tabs : resp[b].pair = t
  <2>1. ASSUME NEW b \in Tabs, JarFrom(b)
        PROVE  jar.refresh = t \/ resp[b].pair = t
    BY <1>1, <1>2, <2>1, Nothing DEF JarFrom
  <2>2. CASE Lapsed
    BY <1>1, <1>2, <2>2 DEF Lapsed
  <2>3. CASE jar' = jar
    BY <1>2, <2>3
  <2> QED BY <1>1, <2>1, <2>2, <2>3
          DEF Browsed, Fetched, Departed, Committed, Replied, Restarted, Rests
<1>3. ASSUME NEW d \in Tabs, t \in {sent'[d].refresh, resp'[d].pair}
      PROVE  InUse(t) \/ tok[t] = "absent"
  <2>1. CASE sent'[d] = sent[d] /\ resp'[d] = resp[d]
    BY <1>3, <2>1 DEF InUse, Credential
  <2>2. CASE sent'[d] \in {sent[d], NoRequest} /\ resp'[d] \in {resp[d], NoAnswer}
    BY <1>1, <1>3, <2>2, Nothing DEF InUse, Credential
  <2>3. CASE Departed(d)
    BY <1>1, <1>3, <2>3 DEF Departed, Attached, InUse, Credential
  <2>4. CASE Replied(d) /\ Given(d)
    <3>1. CASE sent[d].refresh = t
      BY <3>1 DEF InUse, Credential
    <3>2. CASE PairFor(d, t)
      BY <3>2 DEF PairFor, InUse
    <3> QED BY <1>1, <1>3, <2>4, <3>1, <3>2 DEF Replied, Given
  <2> QED BY <1>1, <2>1, <2>2, <2>3, <2>4
          DEF Browsed, Fetched, Departed, Committed, Replied, Ended, Others,
              Restarted, Lapsed, Rests, Same
<1>4. ASSUME NEW k \in Tokens, t \in {putting'[k], grace'[k]}
      PROVE  InUse(t) \/ tok[t] = "absent"
  BY <1>1, <1>4, GraceStep DEF InUse, Made
<1> QED BY <1>2, <1>3, <1>4 DEF InUse, Credential

LEMMA CoveredStep ==
    ASSUME TypeOK, Shape, Known, Covered, Next, calm'
    PROVE  Covered'
<1>1. up /\ Careful /\ Grown
  BY CarefulStep, GrownStep DEF Covered
<1>2. ASSUME NEW t \in Tokens, tok'[t] = "spent", LiveAfter(sid'[t]), InUse(t)'
      PROVE  Kept(t)'
  <2>1. CASE tok[t] # "spent"
    BY <1>1, <1>2, <2>1 DEF Careful, Kept
  <2>2. CASE tok[t] = "spent"
    <3>1. Issued(t) /\ sid'[t] = sid[t]
      BY <1>1, <2>2 DEF Known, Grown
    <3>2. Live(sid[t])
      BY <1>2, <3>1, OverStays DEF Issued, Live, LiveAfter
    <3>3. InUse(t)
      BY <1>2, <2>2, UseStep
    <3> QED BY <1>1, <2>2, <3>2, <3>3 DEF Covered, Careful, Kept
  <2> QED BY <2>1, <2>2
<1> QED BY <1>1, <1>2 DEF Covered, Careful, Kept, Live, LiveAfter

\* An alarm is new only at a reuse.
LEMMA AlarmStep ==
    ASSUME TypeOK, Shape, Known, Next, NEW f \in Families,
           reason'[f] = "reuse_detected", reason[f] # "reuse_detected"
    PROVE  \E b \in Tabs : Reuse(b)
<1>1. \A b \in Tabs, c \in Calls : ~Fetch(b, c)
  BY DEF Fetch, server, ledger
<1>2. \A b \in Tabs : ~(Send(b) \/ Deliver(b) \/ Lose(b))
  BY DEF Send, Deliver, Lose, server, ledger
<1>3. \A b \in Tabs : ~(Login(b) \/ Unread(b) \/ Dead(b) \/ Error(b)
                        \/ Refresh(b) \/ Grant(b) \/ Replay(b) \/ Api(b))
  BY DEF Login, Unread, Dead, Error, Refresh, Grant, Puts, Replay, Api, server,
         ledger, L!Open, L!Rotate
<1>4. \A b \in Tabs : ~Disabled(b)
  BY DEF Disabled, L!Revoke, L!EndSessions
<1>5. \A b \in Tabs : ~Logout(b)
  BY DEF Logout, Reads, SignOuts, L!SignOut, L!Revoke, L!EndSessions
<1>6. \A t \in Tokens : ~(AccessExpires(t) \/ GraceExpires(t) \/ GrantNobody(t))
  BY DEF AccessExpires, GraceExpires, GrantNobody, Puts, ledger
<1>7. \A g \in Families : ~SessionExpires(g)
  BY DEF SessionExpires, ledger
<1>8. \A u \in Users : ~SetActive(u)
  BY DEF SetActive, ledger
<1>9. ~(Restart \/ Lapse \/ Outage \/ Purge)
  BY DEF Restart, Lapse, Outage, Purge, L!Forget, server, ledger
<1> QED BY <1>1, <1>2, <1>3, <1>4, <1>5, <1>6, <1>7, <1>8, <1>9
        DEF Next, Page, View, Environment

\* A reuse is not found, as long as what is in use is covered, but of a token
\* whose entry is on its way.
LEMMA NoReuse ==
    ASSUME TypeOK, Known, Covered, NEW b \in Tabs, Reuse(b)
    PROVE  ~calm'
<1>1. PICK c \in Tokens : c = Credential(b)
  BY SessionIs DEF Reuse, Reads, OriginProven
<1>2. tok[c] = "spent" /\ Live(sid[c]) /\ ~Graced(b) /\ InUse(c)
  BY <1>1 DEF Reuse, Session, InUse
<1>3. up /\ (grace[c] # None \/ putting[c] # None)
  BY <1>2 DEF Covered
<1>4. grace[c] = None
  BY <1>1, <1>2, <1>3 DEF Graced, Session
<1> QED BY <1>1, <1>3, <1>4 DEF Reuse

LEMMA QuietStep ==
    ASSUME TypeOK, Shape, Known, Quiet, Next
    PROVE  Quiet'
<1> SUFFICES ASSUME calm' PROVE Covered' /\ NoFalseAlarm'
  BY DEF Quiet
<1>1. calm /\ Covered /\ NoFalseAlarm
  BY CalmStep DEF Quiet
<1>2. Covered'
  BY <1>1, CoveredStep
<1>3. \A f \in Families : reason'[f] # "reuse_detected"
  BY <1>1, AlarmStep, NoReuse DEF NoFalseAlarm
<1>4. NoFalseAlarm'
  BY <1>3 DEF NoFalseAlarm
<1> QED BY <1>2, <1>4

-----------------------------------------------------------------------------
(* The theorems.                                                           *)

LEMMA InvInit == Init => IInv
<1> SUFFICES ASSUME Init PROVE IInv
  OBVIOUS
<1> USE NoneAssumption, Nothing DEF Init, L!Init
<1>1. NoCookies \in Cookies /\ NoRequest \in Requests /\ NoAnswer \in Answers
  BY DEF NoCookies, Cookies, NoRequest, Requests, NoAnswer, Answers
<1>2. TypeOK
  BY <1>1, BoundAssumption DEF TypeOK, L!TypeOK
<1>3. Shape
  BY DEF Shape, ShapeOf
<1>4. Known
  BY DEF Known, Held
<1>5. NeverStrandedByCsrf
  BY DEF NeverStrandedByCsrf
<1>6. Answered
  BY DEF Answered
<1>7. Covered
  BY DEF Covered
<1>8. NoFalseAlarm
  BY DEF NoFalseAlarm, Reasons
<1> QED BY <1>2, <1>3, <1>4, <1>5, <1>6, <1>7, <1>8 DEF IInv, Quiet

LEMMA InvNext == IInv /\ [Next]_vars => IInv'
<1> SUFFICES ASSUME IInv, [Next]_vars PROVE IInv'
  OBVIOUS
<1> USE DEF IInv
<1>1. CASE Next
  <2>1. TypeOK' /\ Shape' /\ Known'
    BY <1>1, TypedStep, ShapeStep, KnownStep
  <2>2. NeverStrandedByCsrf' /\ Answered'
    BY <1>1, NeverStrandedStep, AnsweredStep
  <2>3. Quiet'
    BY <1>1, QuietStep
  <2> QED BY <2>1, <2>2, <2>3
<1>2. CASE UNCHANGED vars
  <2> USE <1>2 DEF vars, server, ledger, tabs
  <2>1. TypeOK'
    BY DEF TypeOK, L!TypeOK
  <2>2. Shape'
    BY DEF Shape, ShapeOf, OriginProven, Credential
  <2>3. Known'
    BY DEF Known, Held, Issued
  <2>4. NeverStrandedByCsrf'
    BY DEF NeverStrandedByCsrf
  <2>5. Answered'
    BY DEF Answered, OriginProven, Credential, Session, Over
  <2>6. Quiet'
    BY DEF Quiet, Covered, InUse, Live, Credential, NoFalseAlarm
  <2> QED BY <2>1, <2>2, <2>3, <2>4, <2>5, <2>6
<1> QED BY <1>1, <1>2

LEMMA Invariance == Spec => []IInv
BY InvInit, InvNext, PTL DEF Spec

\* Every variable of the browser and of the server keeps its type, and a call
\* that has ended leaves nothing behind.
THEOREM BrowserTyped == Spec => []TypeOK
<1>1. IInv => TypeOK
  BY DEF IInv
<1> QED BY <1>1, Invariance, PTL

\* set_cookies(), clear_cookies() and their expiries: a browser that holds a
\* refresh cookie holds a CSRF cookie, however the answers of its tabs,
\* restarts and expiries interleave.
THEOREM CsrfCookieOutlives == Spec => []NeverStrandedByCsrf
<1>1. IInv => NeverStrandedByCsrf
  BY DEF IInv
<1> QED BY <1>1, Invariance, PTL

\* clear_cookies() and csrf_failure(): an answer that deletes the cookies goes
\* to a request that proved its origin and whose session is over.
THEOREM ClearingIsDeserved == Spec => []ClearedMeansOver
<1>1. IInv => ClearedMeansOver
  BY DEF IInv, Answered, ClearedMeansOver
<1> QED BY <1>1, Invariance, PTL

\* LogoutView, LogoutAllView, rotate() and check_family(): no request that
\* leaves after a sign-out was answered refreshes the session it presents, and
\* none passes a strict view.
THEOREM SignOutIsFinal == Spec => []SignedOutStaysOut
<1>1. IInv => SignedOutStaysOut
  BY DEF IInv, Answered, SignedOutStaysOut
<1> QED BY <1>1, Invariance, PTL

\* rotate(), _grace_put() and the grace window: tabs that race each other, or
\* repeat a call whose answer was lost, or hold a pair that a late answer put
\* back, are taken for a theft only when the cache failed, an entry ran out
\* while its token was in use, or the second request came between the commit of
\* the rotation and its grace entry.
THEOREM BenignRacesAreGraced == Spec => []NoFalseAlarm
<1>1. IInv /\ calm => NoFalseAlarm
  BY DEF IInv, Quiet
<1>2. ~calm => NoFalseAlarm
  BY DEF NoFalseAlarm
<1>3. IInv => NoFalseAlarm
  BY <1>1, <1>2
<1> QED BY <1>3, Invariance, PTL

\* The endpoints of views.py do to the stored sessions what the ledger, that
\* SessionRotation implements too, lets them do: the whole system keeps it.
THEOREM BrowserKeepsLedger == Spec => L!Spec
<1>1. Init => L!Init
  BY DEF Init
<1>2. IInv /\ [Next]_vars => [L!Next]_(L!ledger)
  <2>1. IInv /\ Next => L!Next \/ UNCHANGED ledger
    BY ServerStep DEF IInv, Served
  <2> QED BY <2>1 DEF vars, server, ledger, L!ledger
<1> QED BY <1>1, <1>2, Invariance, PTL DEF Spec, L!Spec

=============================================================================
