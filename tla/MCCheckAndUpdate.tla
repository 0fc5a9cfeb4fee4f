-------------------------- MODULE MCCheckAndUpdate --------------------------
(* Instances of CheckAndUpdate for TLC. *)
EXTENDS CheckAndUpdate

CONSTANTS a, b, i1, i2, i3, i4, small, large

TwoNames == {a, b}
ThreeIds == {i1, i2, i3}
FourIds  == {i1, i2, i3, i4}

OneVersion  == {1}
TwoVersions == {1, 2}
OneFlavor   == {small}
TwoFlavors  == {small, large}

Request(names) == [pools |-> names, want |-> [version |-> 1, flavor |-> small]]
OnePool  == {Request(<<a>>)}
TwoPools == {Request(<<a, b>>)}

NameEdits  == {"declare", "rename"}
Console    == {"console"}

NoFaults == {}
=============================================================================
