-------------------------------- MODULE Ledger --------------------------------
(***************************************************************************)
(* What the operator promises about one configuration, without a word of   *)
(* syncs, copies, requests and faults: its object is the ledger of what    *)
(* the operator keeps in the cloud.  A thing is entered only when it is    *)
(* there, leaves the cloud only once the configuration is ending, and is   *)
(* struck out only when it has left; the configuration is ready with a     *)
(* cluster that is there, and departs with an empty ledger.  Provision     *)
(* implements this.                                                        *)
(***************************************************************************)
CONSTANTS Kinds, Ids

Things == Kinds \X Ids

VARIABLES
    stage, \* how far the configuration is
    named, \* what its object names
    real   \* what the operator has made and the cloud still has

vars == <<stage, named, real>>

Stages == {"wanted", "ready", "ending", "gone", "dropped"}

Init == stage = "wanted" /\ named = {} /\ real = {}

(* Something new.  A configuration that was dropped before it had a        *)
(* finalizer may still be worked for.                                      *)
Make ==
    /\ stage \in {"wanted", "ending", "dropped"}
    /\ \E r \in Things \ real : real' = real \cup {r}
    /\ UNCHANGED <<stage, named>>

(* Things that are there are entered, over the old entries of their kinds. *)
Enter ==
    /\ stage \in {"wanted", "ending"}
    /\ named' \in SUBSET (named \cup real)
    /\ \A r \in named \ named' : \E s \in named' \ named : s[1] = r[1]
    /\ UNCHANGED <<stage, real>>

GetReady ==
    /\ stage = "wanted" /\ \E r \in named \cap real : r[1] = "cluster"
    /\ stage' = "ready"
    /\ UNCHANGED <<named, real>>

End ==
    /\ stage \in {"wanted", "ready"}
    /\ stage' \in {"ending", "dropped"}
    /\ UNCHANGED <<named, real>>

(* Not only what is entered: the rules of a NAT gateway are looked up in   *)
(* the cloud and leave together, and what was written over may leave by an *)
(* old copy of the ledger, even after the departure.                       *)
Leave ==
    /\ stage \in {"ending", "gone"}
    /\ real' \in SUBSET real
    /\ UNCHANGED <<stage, named>>

StrikeOut ==
    /\ stage = "ending"
    /\ named' \in SUBSET named
    /\ (named \ named') \cap real = {}
    /\ UNCHANGED <<stage, real>>

Depart ==
    /\ stage = "ending" /\ named = {}
    /\ stage' = "gone"
    /\ UNCHANGED <<named, real>>

Next == Make \/ Enter \/ GetReady \/ End \/ Leave \/ StrikeOut \/ Depart

Spec == Init /\ [][Next]_vars
=============================================================================
