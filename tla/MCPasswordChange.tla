--------------------------- MODULE MCPasswordChange --------------------------
(* PasswordChange for TLC. *)
EXTENDS PasswordChange, TLC

Symmetric == Permutations(Requests) \cup Permutations(Sessions)
                 \cup Permutations(Hashes) \cup Permutations(Passwords)
=============================================================================
