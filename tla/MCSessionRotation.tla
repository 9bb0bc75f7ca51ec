------------------------- MODULE MCSessionRotation -------------------------
(* Small instances of SessionRotation for TLC.                             *)
EXTENDS SessionRotation, TLC

CONSTANTS r1, r2, r3, f1, f2, f3, t1, t2, t3, t4, u1

\* Every family belongs to one user, the case logout-all is about.
OneUser == [f \in Families |-> u1]

\* With one owner, no two values of a kind can be told apart.
Symmetry ==
    Permutations(Requests) \cup Permutations(Families) \cup Permutations(Tokens)

\* Bound: no family expires and no account is disabled.
NoClockNoAdmin == expired = {} /\ active = Users
=============================================================================
