--------------------------- MODULE SessionLedger ---------------------------
(***************************************************************************)
(* What the TokenStore port and RotationPolicy promise of the stored       *)
(* sessions, with no worker, lock or statement in sight: a session holds   *)
(* one redeemable refresh token, redeeming it either replaces it or ends   *)
(* sessions, and the first reason a session ended for is final.            *)
(***************************************************************************)

CONSTANTS Families, Tokens, Owner, None, Reasons

VARIABLES
    fam,      \* fam[f]: "absent", "stored" or "purged"
    reason,   \* reason[f]: why the session was revoked, None if it was not
    tok,      \* tok[t]: "absent", "unspent", "spent" or "purged"
    sid       \* sid[t]: the session the token belongs to

ledger == <<fam, reason, tok, sid>>

TypeOK ==
    /\ fam \in [Families -> {"absent", "stored", "purged"}]
    /\ reason \in [Families -> Reasons \cup {None}]
    /\ tok \in [Tokens -> {"absent", "unspent", "spent", "purged"}]
    /\ sid \in [Tokens -> Families \cup {None}]

Init ==
    /\ fam = [f \in Families |-> "absent"]
    /\ reason = [f \in Families |-> None]
    /\ tok = [t \in Tokens |-> "absent"]
    /\ sid = [t \in Tokens |-> None]

\* Login: open_family() and issue() of its first token.
Open(f, t) ==
    /\ fam[f] = "absent"
    /\ tok[t] = "absent"
    /\ fam' = [fam EXCEPT ![f] = "stored"]
    /\ tok' = [tok EXCEPT ![t] = "unspent"]
    /\ sid' = [sid EXCEPT ![t] = f]
    /\ UNCHANGED reason

\* A redemption at refresh: t is replaced by n.  The session may have ended by
\* then: between the claim, which looks at the family, and the commit nothing
\* but last_used_at touches its row, and a revocation of another worker that
\* commits there comes first.  The successor is as dead as its session; that no
\* claim is made of an ended one is RevocationIsInstant of SessionRotation.
Rotate(t, n) ==
    /\ tok[t] = "unspent"
    /\ tok[n] = "absent"
    /\ tok' = [tok EXCEPT ![t] = "spent", ![n] = "unspent"]
    /\ sid' = [sid EXCEPT ![n] = sid[t]]
    /\ UNCHANGED <<fam, reason>>

\* The sessions of fs end for reason w, unless they have ended before.
EndSessions(fs, w) ==
    reason' = [f \in Families |->
                 IF f \in fs /\ reason[f] = None THEN w ELSE reason[f]]

\* A redemption at logout or logout-all: t is spent and its session ends, in
\* the same step, with any other sessions of the same user.  As with Rotate, the
\* session may have ended since the claim; its first reason then stands.
SignOut(t, fs, w) ==
    /\ tok[t] = "unspent"
    /\ sid[t] \in fs
    /\ \A f \in fs : Owner[f] = Owner[sid[t]]
    /\ tok' = [tok EXCEPT ![t] = "spent"]
    /\ EndSessions(fs, w)
    /\ UNCHANGED <<fam, sid>>

\* Sessions of one user end: a reuse burn, a subject that may not keep a
\* session, a sign-out that redeemed through the grace window.
Revoke(fs, w) ==
    /\ \A f, g \in fs : Owner[f] = Owner[g]
    /\ EndSessions(fs, w)
    /\ UNCHANGED <<fam, tok, sid>>

\* purge_expired(): sessions are forgotten, with all their tokens.
Forget(fs) ==
    /\ \A f \in fs : fam[f] = "stored"
    /\ fam' = [f \in Families |-> IF f \in fs THEN "purged" ELSE fam[f]]
    /\ tok' = [t \in Tokens |-> IF sid[t] \in fs THEN "purged" ELSE tok[t]]
    /\ UNCHANGED <<reason, sid>>

Next ==
    \/ \E f \in Families, t \in Tokens : Open(f, t)
    \/ \E t, n \in Tokens : Rotate(t, n)
    \/ \E t \in Tokens, fs \in SUBSET Families, w \in Reasons : SignOut(t, fs, w)
    \/ \E fs \in SUBSET Families, w \in Reasons : Revoke(fs, w)
    \/ \E fs \in SUBSET Families : Forget(fs)

Spec == Init /\ [][Next]_ledger
=============================================================================
