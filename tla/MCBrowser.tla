----------------------------- MODULE MCBrowser -----------------------------
(* Small instances of Browser for TLC.                                     *)
EXTENDS Browser, TLC

CONSTANTS b1, b2, f1, f2, t1, t2, t3, u1

OneUser == [f \in Families |-> u1]

Symmetry == Permutations(Tabs) \cup Permutations(Families) \cup Permutations(Tokens)
=============================================================================
