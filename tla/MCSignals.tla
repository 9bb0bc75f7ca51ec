------------------------------ MODULE MCSignals -----------------------------
(* Signals for TLC. *)
EXTENDS Signals, TLC

Symmetric == Permutations(Requests) \cup Permutations(Families)

\* Bound: while a second family is about, requests come one at a time, and what
\* ends a session is the logout of all.
OneByOne ==
    \/ \E f \in Families : \A g \in Families \ {f} :
          fam[g] = "none" /\ \A r \in Requests : g \notin promised[r]
    \/ \E r \in Requests :
          /\ op[r] \in {"login", "logout_all", None}
          /\ \A q \in Requests \ {r} : op[q] = None
=============================================================================
