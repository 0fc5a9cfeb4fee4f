------------------------------- MODULE MCDrivers -------------------------------
(* Instances of Drivers for TLC. *)
EXTENDS Drivers

CONSTANTS a, b, ns1, ns2, n1, n2, r1, r2, s1, s2, i1, i2

TwoConfigs    == {a, b}
TwoNamespaces == {ns1, ns2}
TwoNames      == {n1, n2}
TwoRegions    == {r1, r2}
TwoSecrets    == {s1, s2}
TwoIds        == {i1, i2}

Wanted(ns, n, r, s) == [ns |-> ns, name |-> n, region |-> r, secret |-> s]
Both(p, q) == [c \in {a, b} |-> IF c = a THEN p ELSE q]

(* Twins of one namespace and of two; two configurations that share        *)
(* nothing until one of them is given the secret of the other.             *)
Twins     == Both(Wanted(ns1, n1, r1, s1), Wanted(ns1, n1, r1, s1))
FarTwins  == Both(Wanted(ns1, n1, r1, s1), Wanted(ns2, n1, r1, s1))
Regional  == Both(Wanted(ns1, n1, r1, s1), Wanted(ns1, n2, r2, s2))
AllPairs  == {Twins, FarTwins, Regional}
First     == {a}

AllEditKinds == {"secret", "rotate", "revoke"}
=============================================================================
