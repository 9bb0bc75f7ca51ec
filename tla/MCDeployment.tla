---------------------------- MODULE MCDeployment ----------------------------
(* Small sets of configurations for TLC.                                   *)
EXTENDS Deployment

CONSTANTS s1, s2

AllStrings == STRING

\* The defaults of conf.py, at the mount point they are made for.
Default ==
    [debug |-> FALSE, secure |-> TRUE, samesite |-> "Lax", domain |-> FALSE,
     path |-> <<"/", "api", "/", "auth", "/">>,
     mount |-> <<"/", "api", "/", "auth", "/">>, prefix |-> "",
     access |-> None, refresh |-> None, csrf |-> None,
     algorithm |-> "HS256", signing |-> None, verifying |-> None,
     store |-> "orm", grace |-> "shared"]

Chosen(pre) == [pre |-> pre, base |-> "chosen"]

\* At most one name is set explicitly, so that no two cookies share one.
ExplicitNames ==
    LET given == {Wrong} \cup {Chosen(pre) : pre \in {"", "__Secure-", "__Host-"}}
    IN  {<<None, None, None>>} \cup {<<n, None, None>> : n \in given}
        \cup {<<None, n, None>> : n \in given} \cup {<<None, None, n>> : n \in given}

Paths == {<<>>, <<"/">>, <<"/", "api", "/", "auth">>,
          <<"/", "api", "/", "auth", "/">>, Wrong}

Mounts == {<<"/">>, <<"/", "api", "/", "auth", "/">>,
           <<"/", "api", "/", "auth", "n", "/">>}

\* DEBUG and COOKIE_SECURE; DEBUG changes nothing for a secure cookie.
Security == {<<FALSE, TRUE>>, <<FALSE, FALSE>>, <<TRUE, FALSE>>}

CookieSettings ==
    {[Default EXCEPT !.debug = sec[1], !.secure = sec[2], !.samesite = same,
                     !.domain = dom, !.path = p, !.mount = m,
                     !.access = n[1], !.refresh = n[2], !.csrf = n[3]] :
        sec \in Security, same \in {"Lax", "None", "Strict"}, dom \in BOOLEAN,
        p \in Paths, m \in Mounts, n \in ExplicitNames}

\* Of an RSA algorithm, the keys that are set are a pair.
TokenSettings ==
    {[Default EXCEPT !.algorithm = a, !.signing = k, !.verifying = v,
                     !.store = st, !.grace = g] :
        a \in {"HS256", "RS256", Wrong}, k \in {None, "k1"}, v \in {None, "k1"},
        st \in {"orm", "cache", "file", "broken"},
        g \in {None, "shared", "keeps", "missing"}}

\* What operators change: the key, the algorithm, the store, the names.
Changes ==
    {Default,
     [Default EXCEPT !.signing = "k1"],
     [Default EXCEPT !.algorithm = "RS256", !.signing = "k2", !.verifying = "k2"],
     [Default EXCEPT !.store = "cache"],
     [Default EXCEPT !.csrf = Chosen("")],
     [Default EXCEPT !.refresh = Chosen("__Secure-"), !.grace = None]}

\* What moves a cookie and leaves its name alone.
Wider == [Default EXCEPT !.path = <<"/", "api", "/">>]
Moves == {Default, Wider, [Default EXCEPT !.domain = TRUE]}

Deployed == Changes \cup Moves

AllSettings == CookieSettings \cup TokenSettings \cup Deployed

\* What is deployed over a configuration: one of the same sort.
OfTheSameSort(c) == UNION {S \in {Changes, Moves} : c \in S} \ {c}

\* What DeploymentProofs takes for granted holds of them.
ASSUME SettingsAssumption == StaysSecure /\ EvenHanded
ASSUME FormAssumption == \A c \in AllSettings : WellFormed(c)

\* Bound: a second session where something is deployed over something only.
SecondSession == home[s2] = None \/ cfg \in Deployed

\* What the checks are silent about, see README.md.
OtherAlgorithms == {[Default EXCEPT !.algorithm = a] : a \in {"HS999", "ES256"}}

OtherSameSite == {[Default EXCEPT !.samesite = "Laxx"]}

HostPrefix ==
    {[Default EXCEPT !.prefix = "__Host-", !.debug = TRUE, !.secure = b] : b \in BOOLEAN}
=============================================================================
