---------------------------- MODULE MCCacheStore ----------------------------
(* Small instances of CacheStore for TLC.  Times are in half seconds.      *)
EXTENDS CacheStore, TLC

Symmetry == Permutations(Requests) \cup Permutations(Tokens)

\* Bound: the one login is the first thing that happens.  Nothing depends on
\* when it does, but on the time that has passed since.
LoginFirst == \A f \in Families : familyExp[f] \in {0, RefreshLifetime}
=============================================================================
