----------------------------- MODULE TokenStore -----------------------------
(***************************************************************************)
(* What the TokenStore port (sessions/stores/base.py) asks of every store, *)
(* call by call and each call at one instant: consume() redeems a token    *)
(* that was issued, once, and none whose family was revoked before; what   *)
(* revoke_family() has ended stays ended, and of each family that is told  *)
(* once at most, and never before it ended.                                *)
(***************************************************************************)

CONSTANTS Families, Tokens, None

VARIABLES
    state,    \* state[t]: "unknown", "issued" or "redeemed"
    member,   \* member[t]: the family t was issued to
    revoked,  \* the families that were revoked
    sent      \* sent[f]: how often family_revoked was sent for f

store == <<state, member, revoked, sent>>

Init ==
    /\ state = [t \in Tokens |-> "unknown"]
    /\ member = [t \in Tokens |-> None]
    /\ revoked = {}
    /\ sent = [f \in Families |-> 0]

\* issue(family, digest)
Issue(t, f) ==
    /\ state[t] = "unknown"
    /\ state' = [state EXCEPT ![t] = "issued"]
    /\ member' = [member EXCEPT ![t] = f]
    /\ UNCHANGED <<revoked, sent>>

\* consume() answers LIVE; every other answer changes nothing.
Consume(t) ==
    /\ state[t] = "issued"
    /\ member[t] \notin revoked
    /\ state' = [state EXCEPT ![t] = "redeemed"]
    /\ UNCHANGED <<member, revoked, sent>>

\* revoke_family(), also of a family the store does not hold.
RevokeFamily(f) ==
    /\ revoked' = revoked \cup {f}
    /\ UNCHANGED <<state, member, sent>>

\* The revocation that won reports it, unless its worker dies first.
Report(f) ==
    /\ f \in revoked
    /\ sent[f] = 0
    /\ sent' = [sent EXCEPT ![f] = 1]
    /\ UNCHANGED <<state, member, revoked>>

Next ==
    \/ \E t \in Tokens, f \in Families : Issue(t, f)
    \/ \E t \in Tokens : Consume(t)
    \/ \E f \in Families : RevokeFamily(f) \/ Report(f)

Spec == Init /\ [][Next]_store
=============================================================================
