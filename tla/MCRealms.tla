------------------------------ MODULE MCRealms ------------------------------
(* The realms of the how-to guides, for TLC.                               *)
EXTENDS Realms, TLC

CONSTANTS s1, s2, u1, default, staff, pocket, none

\* A realm of each sort: docs/howto/realms.md and docs/howto/header-clients.md.
HybridRealm == [cookies |-> default, header |-> TRUE, bound |-> FALSE]
StaffRealm  == [cookies |-> staff, header |-> FALSE, bound |-> TRUE]
MobileRealm == [cookies |-> none, header |-> TRUE, bound |-> FALSE]
ThreeSorts  == {HybridRealm, StaffRealm, MobileRealm}

OneUser == [s \in {s1, s2} |-> u1]

\* A view changes nothing, nor does a form of another site as the run itself
\* shows, so what can follow them can follow the state before them as well, and is
\* not looked at twice.
AfterChanges ==
    answer = None \/ (answer.to \notin Views /\ answer.who # "elsewhere")

\* Sessions are alike.
Alike == Permutations({s1, s2})
=============================================================================
