----------------------------- MODULE LeakProofs -----------------------------
(* Proof of what create() and the removal may leave behind in the cloud:    *)
(* nothing before a deletion as long as nothing goes wrong, two resources   *)
(* for every fault and one for every edit in the removal's way.             *)
EXTENDS NetworkProofs, FiniteSetTheorems

-----------------------------------------------------------------------------
(* What a resource in use is used by, and that an identifier was given.     *)

Uses == {<<"subnet", "vpc">>, <<"nat", "subnet">>, <<"snat", "nat">>,
         <<"snat", "snatEip">>, <<"cluster", "subnet">>, <<"cluster", "eip">>}

UsesKept ==
    \A c \in Res, s \in Refs : <<c, s>> \in uses =>
        /\ Exists(c)
        /\ <<c[1], s[1]>> \in Uses
        /\ c[2] = User => s[2] = User
        /\ s[1] = "eip" => s \in Res /\ cloud[s] # "none"

Given == \A k \in Kinds : obj.made[k] # None => cloud[<<k, obj.made[k]>>] # "none"

(* A write of create() replaces an identifier only where create() could not *)
(* see that it was there.                                                   *)
Pending ==
    /\ pc = "eipRecord" => ~obj.ext /\ ~InUse(<<"eip", held["eip"]>>)
    /\ held["vpc"] # None => obj.vpc = None
    /\ pc = "snatEipRecord" => obj.made["snatEip"] = None
    /\ pc = "snatRecord" => obj.made["snat"] = None

AtWork == NetworkAtHand /\ Pending

-----------------------------------------------------------------------------
(* What is lost, and what will be.                                          *)

(* The removal is at work on the stored object. *)
Window == pc = "cleanup" /\ "local" \in current

(* Neither named nor in the worker's hands. *)
Stray(k, i) == Exists(<<k, i>>) /\ i # obj.made[k] /\ i # held[k]

(* Named, and create() may yet write over it: it is on its way to a second *)
(* cluster, Spec names no network, or no address is recorded for the EIP.   *)
Doomed(k, i) ==
    /\ Exists(<<k, i>>) /\ i = obj.made[k]
    /\ \/ k = "cluster" /\ pc \in {"newCluster", "clusterRecord"}
       \/ k = "vpc" /\ obj.vpc = None /\ pc # "netSpec"
       \/ k = "subnet" /\ (obj.vpc = None \/ obj.subnet = None) /\ pc # "netSpec"
       \/ k = "eip" /\ ~obj.ext /\ ~Window

(* The recorded EIP, held by a lost cluster: the removal gives up on it,    *)
(* and create() may then write over it.                                     *)
Holds(c, i) == <<<<"cluster", c>>, <<"eip", i>>>> \in uses

Hostage(k, i) ==
    /\ k = "eip" /\ i = obj.made["eip"] /\ Exists(<<"eip", i>>)
    /\ \E c \in Ids : Holds(c, i) /\ (Stray("cluster", c) \/ Doomed("cluster", c))

Bad == {r \in Kinds \X Ids :
          Stray(r[1], r[2]) \/ Doomed(r[1], r[2]) \/ Hostage(r[1], r[2])}

(* The configuration is there, or went by way of the removal handler. *)
InLife == obj.exists \/ obj.finalizer

LeakInv ==
    InLife =>
        /\ IsFiniteSet(Bad) /\ Cardinality(Bad) <= 2 * faults + edits
        /\ faults = 0 => Bad \subseteq {"eip"} \X Ids
        /\ faults = 0 /\ ~obj.deleting => Bad = {}

-----------------------------------------------------------------------------
(* Every step is a request, a record, or one of these: a step aside; the    *)
(* end of resources; the removal striking off what is no longer there.      *)

EipFree == obj.made["eip"] = None \/ InUse(<<"eip", obj.made["eip"]>>)

Elsewhere ==
    /\ Aside
    /\ held' = held \/ faults' = faults + 1 \/ ~InLife
    /\ Window => Window' \/ edits' = edits + 1 \/ faults' = faults + 1 \/ EipFree

Leaving == UNCHANGED <<obj, pc, held, current>> /\ \E R : Vanish(R)

Striking ==
    /\ UNCHANGED <<cloud, uses, held>> /\ held = Nothing
    /\ obj'.vpc = obj.vpc /\ obj'.subnet = obj.subnet
    /\ \A k \in Kinds : \/ obj'.made[k] = obj.made[k]
                        \/ obj'.made[k] = None /\ ~Exists(<<k, obj.made[k]>>)
    /\ \/ pc' = "cleanup" /\ "local" \in current'
       \/ pc \notin CreateSteps \cup {"cleanup"} /\ pc' = "clearExt" /\ obj'.ext = obj.ext

LeakFacts == Facts /\ LedgerInv /\ UsesKept

(* An error of the removal that nothing has caused: a copy behind, or a    *)
(* resource in use.                                                        *)
LEMMA GiveUpElsewhere ==
    ASSUME LeakFacts, GiveUp, pc \in RemoveSteps, UNCHANGED <<cloud, uses, held>>,
           Window => faults' = faults + 1 \/ EipFree
    PROVE  Elsewhere
<1>1. UNCHANGED obj /\ pc' = "idle"
      BY DEF GiveUp, Stay, Proceed
<1>2. held = Nothing
      BY EmptyHands DEF LeakFacts, Facts, InHand, RemoveSteps, HandSteps
<1>3. Aside
      BY <1>1, <1>2 DEF Aside, SameRecord, SamePresence, TurnsAway, CreateSteps, RecordSteps
<1>   QED
      BY <1>3 DEF Elsewhere

LEMMA StoreStrikes ==
    ASSUME LeakFacts, pc \in RemoveSteps, UNCHANGED <<cloud, uses, held>>,
           NEW o, NEW next, Store(o, next),
           o.vpc = obj.vpc, o.subnet = obj.subnet,
           \A k \in Kinds : \/ o.made[k] = obj.made[k]
                            \/ o.made[k] = None /\ ~Exists(<<k, obj.made[k]>>),
           \/ next = "cleanup"
           \/ pc # "cleanup" /\ next = "clearExt" /\ o.ext = obj.ext
    PROVE  Striking
<1>1. obj' = o /\ pc' = next /\ current' = {"local"}
      BY DEF Store, Proceed
<1>2. held = Nothing
      BY EmptyHands DEF LeakFacts, Facts, InHand, RemoveSteps, HandSteps
<1>   QED
      BY <1>1, <1>2 DEF Striking, RemoveSteps, CreateSteps, RecordSteps

(* A recorded EIP in the way: what the cloud refuses to delete earlier in   *)
(* the order has no users that the removal does not clear away first.       *)
LEMMA RefusedFree ==
    ASSUME LeakFacts, Window, NEW k \in Networks, Turn(k), Cleared(k), Exists(Mine(k)), Refused(k)
    PROVE  EipFree
<1>1. local = obj
      BY DEF LeakFacts, Facts, Tracked, CopiesAgree, Window
<1>2. CASE k = "nat"
  <2>1. PICK c \in Res : <<c, Mine("nat")>> \in uses
        BY <1>2 DEF Refused, InUse
  <2>2. Mine("nat") \in Refs
        BY <1>2 DEF Exists, Res, Refs
  <2>3. Exists(c) /\ <<c[1], "nat">> \in Uses
        BY <2>1, <2>2 DEF LeakFacts, UsesKept, Mine
  <2>4. c[1] = "snat"
        BY <2>3 DEF Uses
  <2>   QED
        BY <1>2, <2>1, <2>3, <2>4 DEF Cleared, Rules
<1>3. CASE k = "eip"
      BY <1>1, <1>3 DEF Refused, Mine, Target, EipFree
<1>4. CASE k \in {"snatEip", "subnet", "vpc"}
  <2>1. "eip" \in Before[k]
        BY <1>4 DEF Before
  <2>   QED
        BY <1>1, <2>1 DEF Turn, Target, EipFree
<1>   QED
      BY <1>2, <1>3, <1>4 DEF Networks, Before

LEMMA RemovingLeaks == ASSUME LeakFacts, Removing PROVE Elsewhere \/ Leaving \/ Striking
<1>1. TypeOK /\ CopiesAgree /\ held' = held
      BY DEF LeakFacts, Facts, Tracked, Removing, EnsureDeletable, DeleteCCECluster, ClearExternalIP,
             DeleteSnatRules, DeleteEndpointService, DeleteNetworkResource,
             ForgetNetworkResource, CleanupDone, RemoveFinalizer, RemoveFails, QuietRemove
<1>2. pc \in RemoveSteps
      BY DEF Removing, EnsureDeletable, DeleteCCECluster, ClearExternalIP, DeleteSnatRules,
             DeleteEndpointService, DeleteNetworkResource, ForgetNetworkResource,
             CleanupDone, RemoveFinalizer, RemoveFails, RemoveSteps
<1>3. held = Nothing
      BY <1>2, EmptyHands DEF LeakFacts, Facts, InHand, RemoveSteps, HandSteps
<1>4. ASSUME SameRecord, SamePresence, UNCHANGED uses, pc' = pc \/ pc' \notin CreateSteps,
             Window => Window' \/ EipFree
      PROVE  Elsewhere
      BY <1>1, <1>3, <1>4 DEF Elsewhere, Aside, TurnsAway
<1>5. ASSUME GiveUp, UNCHANGED <<cloud, uses>>, Window => faults' = faults + 1 \/ EipFree
      PROVE  Elsewhere
      BY <1>1, <1>2, <1>5, GiveUpElsewhere
<1>6. ASSUME NEW o, NEW next, UpdateOrGiveUp(o, next), UNCHANGED <<cloud, uses>>,
             o.vpc = local.vpc, o.subnet = local.subnet,
             \A k \in Kinds : \/ o.made[k] = local.made[k]
                              \/ o.made[k] = None /\ (local = obj => ~Exists(<<k, obj.made[k]>>)),
             \/ next = "cleanup"
             \/ pc # "cleanup" /\ next = "clearExt" /\ o.ext = local.ext
      PROVE  Elsewhere \/ Striking
  <2>1. CASE "local" \in current /\ Store(o, next)
    <3>1. local = obj
          BY <1>1, <2>1 DEF CopiesAgree
    <3>   QED
          BY <1>1, <1>2, <1>6, <2>1, <3>1, StoreStrikes
  <2>2. CASE "local" \notin current /\ GiveUp
        BY <1>5, <1>6, <2>2 DEF Window
  <2>   QED
        BY <1>6, <2>1, <2>2 DEF UpdateOrGiveUp
<1>7. CASE EnsureDeletable
      BY <1>4, <1>7 DEF EnsureDeletable, SameRecord, SamePresence, store, fabric, CreateSteps, RecordSteps, Window
<1>8. CASE DeleteCCECluster
  <2>1. uses' = uses /\ pc = "delCluster" /\ ~Window
        BY <1>8 DEF DeleteCCECluster, Window
  <2>2. CASE pc' = "cleanup" /\ UNCHANGED <<store, cloud>>
        BY <1>4, <2>1, <2>2 DEF SameRecord, SamePresence, store, CreateSteps, RecordSteps
  <2>3. CASE /\ ~Exists(MyCluster) /\ UNCHANGED cloud
             /\ UpdateOrGiveUp([local EXCEPT !.made["cluster"] = None], "clearExt")
    <3> DEFINE o == [local EXCEPT !.made["cluster"] = None]
    <3>1. /\ o.vpc = local.vpc /\ o.subnet = local.subnet /\ o.ext = local.ext
          /\ o.made["cluster"] = None
          /\ \A k \in Kinds : k # "cluster" => o.made[k] = local.made[k]
          BY <1>1 DEF TypeOK, Object, Kinds
    <3>2. \A k \in Kinds : \/ o.made[k] = local.made[k]
                           \/ o.made[k] = None /\ (local = obj => ~Exists(<<k, obj.made[k]>>))
          BY <2>3, <3>1 DEF MyCluster
    <3> HIDE DEF o
    <3>   QED
          BY <1>6, <2>1, <2>3, <3>1, <3>2 DEF o
  <2>4. CASE /\ Exists(MyCluster) /\ cloud' = [cloud EXCEPT ![MyCluster] = "deleting"]
             /\ UNCHANGED <<pc, store>>
    <3>1. SamePresence
          BY <1>1, <2>4 DEF SamePresence, TypeOK, Exists, Here
    <3>   QED
          BY <1>4, <2>1, <2>4, <3>1 DEF SameRecord, store
  <2>   QED
        BY <1>8, <2>2, <2>3, <2>4 DEF DeleteCCECluster
<1>9. CASE ClearExternalIP
  <2> DEFINE o == [local EXCEPT !.ext = FALSE]
  <2>1. o.vpc = local.vpc /\ o.subnet = local.subnet /\ o.made = local.made
        BY <1>1 DEF TypeOK, Object
  <2> HIDE DEF o
  <2>   QED
        BY <1>6, <1>9, <2>1 DEF ClearExternalIP, fabric, o
<1>10. CASE DeleteSnatRules
      BY <1>1, <1>10 DEF DeleteSnatRules, Leaving, store
<1>11. CASE DeleteEndpointService \/ CleanupDone
  <2>1. CASE DeleteEndpointService
        BY <1>4, <2>1 DEF DeleteEndpointService, SameRecord, SamePresence, store, Window
  <2>2. CASE CleanupDone
    <3>1. Window => obj.made["eip"] = None
          BY <1>1, <2>2 DEF CleanupDone, CopiesAgree, Window, Networks, Before, Target
    <3>   QED
          BY <1>4, <2>2, <3>1
          DEF CleanupDone, SameRecord, SamePresence, store, fabric, CreateSteps, RecordSteps, EipFree
  <2>   QED
        BY <1>11, <2>1, <2>2
<1>12. CASE DeleteNetworkResource
  <2>1. PICK k \in Networks :
             /\ Turn(k) /\ Cleared(k) /\ Exists(Mine(k))
             /\ \/ Vanish({Mine(k)}) /\ UNCHANGED <<store, pc>>
                \/ Refused(k) /\ GiveUp /\ UNCHANGED <<cloud, uses>>
        BY <1>12 DEF DeleteNetworkResource
  <2>2. Refused(k) /\ Window => EipFree
        BY <2>1, RefusedFree
  <2>   QED
        BY <1>1, <1>5, <2>1, <2>2 DEF Leaving, store
<1>13. CASE ForgetNetworkResource
  <2>1. PICK k \in Networks :
             /\ Turn(k) /\ Cleared(k) /\ ~Exists(Mine(k))
             /\ UpdateOrGiveUp([local EXCEPT !.made = Without(Forgotten(k))], "cleanup")
        BY <1>13 DEF ForgetNetworkResource
  <2> DEFINE o == [local EXCEPT !.made = Without(Forgotten(k))]
  <2>2. /\ o.vpc = local.vpc /\ o.subnet = local.subnet
        /\ o.made = [j \in Kinds |-> IF j \in Forgotten(k) THEN None ELSE local.made[j]]
        BY <1>1 DEF TypeOK, Object, Without
  <2>3. ASSUME NEW j \in Kinds, j \in Forgotten(k), local = obj
        PROVE  ~Exists(<<j, obj.made[j]>>)
    <3>1. CASE j = k
          BY <2>1, <2>3, <3>1 DEF Mine, Target
    <3>2. CASE k = "nat" /\ j = "snat"
      <4>1. ~Exists(<<"snat", obj.made["snat"]>>)
        <5>1. Exists(<<"snat", obj.made["snat"]>>) =>
                 <<<<"snat", obj.made["snat"]>>, <<"nat", obj.made["nat"]>>>> \in uses
              BY DEF LeakFacts, LedgerInv, RuleInGateway, InGateway
        <5>2. Rules = {}
              BY <2>1, <3>2 DEF Cleared
        <5>   QED
              BY <2>3, <5>1, <5>2 DEF Rules, Mine, Target, Exists
      <4>   QED
            BY <3>2, <4>1
    <3>   QED
          BY <2>3, <3>1, <3>2 DEF Forgotten
  <2>4. \A j \in Kinds : \/ o.made[j] = local.made[j]
                         \/ o.made[j] = None /\ (local = obj => ~Exists(<<j, obj.made[j]>>))
        BY <2>2, <2>3
  <2>5. UNCHANGED <<cloud, uses>>
        BY <1>13 DEF ForgetNetworkResource, fabric
  <2> HIDE DEF o
  <2>   QED
        BY <1>6, <2>1, <2>2, <2>4, <2>5 DEF o
<1>14. CASE RemoveFinalizer
  <2>1. ~Window
        BY <1>14 DEF RemoveFinalizer, Window
  <2>2. UNCHANGED <<cloud, uses>>
        BY <1>14 DEF RemoveFinalizer, fabric
  <2>3. CASE "local" \in current /\ Store([local EXCEPT !.exists = FALSE], "idle")
    <3>1. local = obj
          BY <1>1, <2>3 DEF CopiesAgree
    <3>2. obj' = [obj EXCEPT !.exists = FALSE] /\ pc' = "idle"
          BY <2>3, <3>1 DEF Store, Proceed
    <3>   QED
          BY <1>1, <1>4, <2>1, <2>2, <3>2
          DEF SameRecord, SamePresence, TypeOK, Object, CreateSteps, RecordSteps
  <2>4. CASE GiveUp
        BY <1>5, <2>1, <2>2, <2>4
  <2>   QED
        BY <1>14, <2>3, <2>4 DEF RemoveFinalizer, UpdateOrGiveUp
<1>15. CASE RemoveFails
      BY <1>5, <1>15 DEF RemoveFails, Fault, fabric
<1>   QED
      BY <1>7, <1>8, <1>9, <1>10, <1>11, <1>12, <1>13, <1>14, <1>15 DEF Removing

(* What is lost from the worker's hands outside a request, a fault has      *)
(* taken, or the object has gone without a removal.                         *)
LEMMA FailingLeaks ==
    ASSUME LeakFacts, CallFails \/ WriteFails \/ SyncEndFails \/ Crash
    PROVE  Elsewhere
<1>1. UNCHANGED <<obj, cloud, uses>>
      BY DEF CallFails, WriteFails, SyncEndFails, Crash, Stay, store, fabric
<1>2. SameRecord /\ SamePresence
      BY <1>1 DEF SameRecord, SamePresence
<1>3. CASE CallFails
  <2>1. pc' = "report" /\ held' = Nothing /\ faults' = faults + 1
        BY <1>3 DEF CallFails, Abandon, Fault
  <2>   QED
        BY <1>1, <1>2, <2>1 DEF Elsewhere, Aside, TurnsAway, CreateSteps, RecordSteps
<1>4. CASE WriteFails
  <2>1. pc' = "lost" /\ held' = Nothing /\ ~Window /\ (faults' = faults + 1 \/ ~obj.exists)
        BY <1>4 DEF WriteFails, Fault, Window, RecordSteps
  <2>2. pc \in CreateSteps \/ held = Nothing
    <3>1. CASE pc \in {"validate", "setRunning"}
          BY <3>1, EmptyHands DEF LeakFacts, Facts, InHand, HandSteps
    <3>   QED
          BY <1>4, <3>1 DEF WriteFails, CreateSteps, RecordSteps
  <2>3. held' = held \/ faults' = faults + 1 \/ ~InLife
        BY <2>1, <2>2 DEF LeakFacts, LedgerInv, Alive, Removed, InLife
  <2>   QED
        BY <1>1, <1>2, <2>1, <2>3 DEF Elsewhere, Aside, TurnsAway, CreateSteps, RecordSteps
<1>5. CASE SyncEndFails
  <2>1. pc' \in {"lost", "idle"} /\ pc \in {"report", "finalizer"} /\ held' = held
        BY <1>5 DEF SyncEndFails, Stay, Proceed
  <2>2. held = Nothing
        BY <2>1, EmptyHands DEF LeakFacts, Facts, InHand, HandSteps
  <2>   QED
        BY <1>1, <1>2, <2>1, <2>2 DEF Elsewhere, Aside, TurnsAway, CreateSteps, RecordSteps, Window
<1>6. CASE Crash
  <2>1. pc' = "idle" /\ held' = Nothing /\ faults' = faults + 1
        BY <1>6 DEF Crash, Proceed, Fault
  <2>   QED
        BY <1>1, <1>2, <2>1 DEF Elsewhere, Aside, TurnsAway, CreateSteps, RecordSteps
<1>   QED
      BY <1>3, <1>4, <1>5, <1>6

LEMMA EnvironmentLeaks ==
    ASSUME LeakFacts, Environment PROVE Elsewhere \/ Leaving
<1>1. CASE Inform \/ UserEdits \/ NodesChange \/ NodesSettle
  <2>1. UNCHANGED <<obj, pc, held, cloud, uses>>
        BY <1>1 DEF Inform, UserEdits, NodesChange, NodesSettle, worker, fabric, store
  <2>2. Window => Window' \/ edits' = edits + 1
        BY <1>1, <2>1 DEF Inform, UserEdits, NodesChange, NodesSettle, store, Window
  <2>   QED
        BY <2>1, <2>2 DEF Elsewhere, Aside, SameRecord, SamePresence, TurnsAway
<1>2. CASE UserDeletes
  <2>1. SameRecord /\ UNCHANGED <<pc, held, cloud, uses>> /\ ~obj.deleting
        BY <1>2 DEF UserDeletes, LeakFacts, Facts, TypeOK, Object, SameRecord, worker, fabric
  <2>2. ~Window
        BY <2>1 DEF Window, LeakFacts, Facts, Tracked, DeletionKept, RemoveSteps
  <2>   QED
        BY <2>1, <2>2 DEF Elsewhere, Aside, SamePresence, TurnsAway
<1>3. CASE ClusterSettles
  <2>1. UNCHANGED <<obj, pc, held, uses, current>>
        BY <1>3 DEF ClusterSettles, worker, store
  <2>2. PICK i \in Ids, s \in {"live", "failed"} :
             /\ cloud[<<"cluster", i>>] = "creating"
             /\ cloud' = [cloud EXCEPT ![<<"cluster", i>>] = s]
        BY <1>3 DEF ClusterSettles
  <2>3. SamePresence
        BY <2>2 DEF LeakFacts, Facts, TypeOK, SamePresence, Here
  <2>   QED
        BY <2>1, <2>3 DEF Elsewhere, Aside, SameRecord, TurnsAway, Window
<1>4. CASE ClusterVanishes
      BY <1>4 DEF ClusterVanishes, Leaving, store, worker
<1>5. CASE Crash
      BY <1>5, FailingLeaks
<1>   QED
      BY <1>1, <1>2, <1>3, <1>4, <1>5 DEF Environment

LEMMA EveryStep ==
    ASSUME LeakFacts, [Next]_vars
    PROVE  Requesting \/ Recording \/ Elsewhere \/ Leaving \/ Striking
<1>1. CASE UNCHANGED vars
      BY <1>1 DEF vars, store, worker, fabric, Elsewhere, Aside, SameRecord, SamePresence,
                  TurnsAway, Window
<1>2. CASE QuietSync
  <2>1. /\ SameRecord /\ UNCHANGED <<cloud, uses, held>> /\ held = Nothing
        /\ pc' \notin CreateSteps \ {"eip"}
        BY <1>2, QuietSyncSame DEF LeakFacts, Facts
  <2>2. ~Window
        BY <1>2 DEF QuietSync, Window, OnCCEConfigChanged, RecordError, AddFinalizer, RemoveAtOnce,
                    ValidateCreate, WaitForCreationComplete, AdoptCluster, SetRunning
  <2>   QED
        BY <2>1, <2>2 DEF Elsewhere, Aside, SamePresence, TurnsAway
<1>   QED
      BY <1>1, <1>2, RemovingLeaks, FailingLeaks, EnvironmentLeaks
      DEF Next, Worker, Creating, QuietSync, Requesting, Recording, Environment

-----------------------------------------------------------------------------
(* What uses what.                                                          *)

LEMMA AppearsUses ==
    ASSUME TypeOK, UsesKept, NEW k \in Kinds, NEW i \in Ids, NEW state \in Here, NEW parents,
           Appears(k, i, state, parents),
           \A s \in parents : /\ <<k, s[1]>> \in Uses
                              /\ s[1] = "eip" => s \in Res /\ cloud[s] # "none"
    PROVE  UsesKept'
<1>1. \A r \in Res : cloud[r] \in Here => cloud'[r] \in Here
      BY AppearsKeeps
<1>2. \A r \in Res : cloud[r] # "none" => cloud'[r] # "none"
      BY DEF Appears, Here
<1>3. <<k, i>> \in Res /\ cloud'[<<k, i>>] \in Here
      BY DEF Appears, Res
<1>4. ASSUME NEW c \in Res, NEW s \in Refs, <<c, s>> \in uses'
      PROVE  /\ Exists(c)' /\ <<c[1], s[1]>> \in Uses
             /\ c[2] = User => s[2] = User
             /\ s[1] = "eip" => s \in Res /\ cloud'[s] # "none"
  <2>1. CASE <<c, s>> \in uses
        BY <1>1, <1>2, <2>1 DEF UsesKept, Exists
  <2>2. CASE c = <<k, i>> /\ s \in parents
        BY <1>2, <1>3, <2>2, IdsAssumption DEF Exists
  <2>   QED
        BY <1>4, <2>1, <2>2 DEF Appears
<1>   QED
      BY <1>4 DEF UsesKept

LEMMA VanishUses == ASSUME TypeOK, UsesKept, NEW R, Vanish(R) PROVE UsesKept'
<1>1. ASSUME NEW r \in Res, cloud[r] # "none" PROVE cloud'[r] # "none"
      BY <1>1 DEF Vanish
<1>2. ASSUME NEW c \in Res, NEW s, Exists(c), <<c, s>> \in uses' PROVE Exists(c)'
      BY <1>2 DEF Vanish, Exists
<1>3. uses' \subseteq uses
      BY DEF Vanish
<1>   QED
      BY <1>1, <1>2, <1>3 DEF UsesKept

LEMMA StillUses == ASSUME UsesKept, SamePresence, uses' = uses PROVE UsesKept'
BY DEF UsesKept, SamePresence, Exists

LEMMA AskedUses ==
    ASSUME TypeOK, UsesKept, Given, Asked PROVE UsesKept'
<1>1. /\ "live" \in Here /\ "creating" \in Here
      /\ \A k \in {"eip", "vpc", "subnet", "nat", "snatEip", "snat", "cluster"} : k \in Kinds
      BY DEF Here, Kinds
<1>2. ASSUME NEW at, NEW k \in Kinds, NEW state \in Here, NEW parents, NEW next,
             Asks(at, k, state, parents, next),
             \A s \in parents : /\ <<k, s[1]>> \in Uses
                                /\ s[1] = "eip" => s \in Res /\ cloud[s] # "none"
      PROVE  UsesKept'
      BY <1>2, AppearsUses DEF Asks
<1>3. \A s \in RuleParents : <<"snat", s[1]>> \in Uses /\ s[1] # "eip"
      BY DEF RuleParents, Uses
<1>4. \A s \in MyParents : /\ <<"cluster", s[1]>> \in Uses
                           /\ s[1] = "eip" => s \in Res /\ cloud[s] # "none"
  <2>1. obj.made["eip"] # None => /\ <<"eip", obj.made["eip"]>> \in Res
                                  /\ cloud[<<"eip", obj.made["eip"]>>] # "none"
        BY DEF Given, TypeOK, Object, Res, Kinds
  <2>   QED
        BY <2>1 DEF MyParents, Uses
<1>5. /\ \A v : <<"subnet", <<"vpc", v>>[1]>> \in Uses
      /\ \A v : <<"nat", <<"subnet", v>>[1]>> \in Uses
      BY DEF Uses
<1>6. CASE \/ Asks("eip", "eip", "live", {}, "eipRecord")
           \/ Asks("network", "vpc", "live", {}, "subnet")
           \/ Asks("snat", "snatEip", "live", {}, "snatEipRecord")
      BY <1>1, <1>2, <1>6
<1>7. CASE Asks("subnet", "subnet", "live", {<<"vpc", HomeVPC>>}, "netStatus")
      BY <1>1, <1>2, <1>5, <1>7
<1>8. CASE Asks("nat", "nat", "live", {<<"subnet", obj.subnet>>}, "natRecord")
      BY <1>1, <1>2, <1>5, <1>8
<1>9. CASE Asks("snat", "snat", "live", RuleParents, "snatRecord")
      BY <1>1, <1>2, <1>3, <1>9
<1>10. CASE Asks("newCluster", "cluster", "creating", MyParents, "clusterRecord")
      BY <1>1, <1>2, <1>4, <1>10
<1>   QED
      BY <1>6, <1>7, <1>8, <1>9, <1>10 DEF Asked

-----------------------------------------------------------------------------
(* Identifiers stay given, and writes pend as they did.                     *)

(* What is there, or was, is not forgotten by the cloud. *)
Remembers == \A r \in Res : cloud[r] # "none" => cloud'[r] # "none"

LEMMA GivenStays ==
    ASSUME TypeOK, Given, Remembers,
           \A k \in Kinds : \/ obj'.made[k] \in {obj.made[k], None}
                            \/ obj'.made[k] = held[k] /\ cloud[<<k, held[k]>>] # "none"
    PROVE  Given'
<1> SUFFICES ASSUME NEW k \in Kinds, obj'.made[k] # None
             PROVE  cloud'[<<k, obj'.made[k]>>] # "none"
    BY DEF Given
<1>1. obj.made[k] \in Ids \cup {None} /\ held[k] \in Ids \cup {None}
      BY DEF TypeOK, Object
<1>2. \A i \in Ids : <<k, i>> \in Res
      BY DEF Res
<1>3. cloud[<<k, obj'.made[k]>>] # "none" /\ obj'.made[k] \in Ids
      BY <1>1 DEF Given
<1>   QED
      BY <1>2, <1>3 DEF Remembers

LEMMA RecordedGiven ==
    ASSUME TypeOK, LedgerInv, Given, Recorded, UNCHANGED cloud PROVE Given'
<1>1. obj.made \in [Kinds -> Ids \cup {None}] /\ held \in [Kinds -> Ids \cup {None}]
      BY DEF TypeOK, Object
<1>2. \A k \in Kinds : obj'.made[k] = obj.made[k] \/ obj'.made[k] = held[k]
      BY <1>1 DEF Recorded, WritesOne, Writes, Name, NetworkStatus
<1>3. \A k \in Kinds : held[k] # None => cloud[<<k, held[k]>>] # "none"
      BY DEF LedgerInv, Handed
<1>   QED
      BY <1>2, <1>3, GivenStays DEF Remembers

LEMMA AtWorkStays ==
    ASSUME AtWork, SameRecord, uses' \subseteq uses, TurnsAway PROVE AtWork'
<1>1. CASE pc' = pc /\ held' = held
  <2>1. \A r : InUse(r)' => InUse(r)
        BY DEF InUse
  <2>   QED
        BY <1>1, <2>1 DEF AtWork, NetworkAtHand, Pending, SameRecord
<1>2. CASE pc' \notin CreateSteps \ {"eip"} /\ held' = Nothing
      BY <1>2 DEF AtWork, NetworkAtHand, Pending, NetworkSteps, Nothing, CreateSteps, RecordSteps, Kinds
<1>   QED
      BY <1>1, <1>2 DEF TurnsAway

LEMMA PassedAtWork ==
    ASSUME HeldByStep, AtWork, Passed, obj' = obj PROVE AtWork'
BY DEF AtWork, NetworkAtHand, Pending, NetworkSteps, Passed, Passes, HeldByStep

LEMMA AsksAtWork ==
    ASSUME TypeOK, HeldByStep, UsesKept, AtWork, obj' = obj,
           NEW at, NEW k, NEW state, NEW parents, NEW next,
           Asks(at, k, state, parents, next), <<at, k, next>> \in Questions,
           k = "eip" => ~obj.ext /\ parents = {},
           k = "vpc" => obj.vpc = None,
           k \in {"snat", "snatEip"} => obj.made[k] = None
    PROVE  AtWork'
<1>1. PICK i \in Ids : Appears(k, i, state, parents) /\ (Brings(k, i, next) \/ Loses)
      BY DEF Asks
<1>2. pc = at /\ i # None /\ k \in Kinds
      BY IdsAssumption DEF Asks, Questions, Kinds
<1>3. CASE Loses
      BY <1>3 DEF Loses, AtWork, NetworkAtHand, Pending, NetworkSteps, Nothing, Kinds
<1>4. CASE Brings(k, i, next)
  <2>1. /\ pc' = next /\ held'[k] = i
        /\ \A j \in Kinds : j # k => held'[j] = held[j]
        BY <1>2, <1>4 DEF Brings, TypeOK
  <2>2. NetworkAtHand'
        BY <1>2, <2>1 DEF AtWork, NetworkAtHand, NetworkSteps, Questions, Kinds, HeldByStep
  <2>3. k = "eip" => ~InUse(<<"eip", i>>)'
    <3>1. <<"eip", i>> \in Refs
          BY DEF Refs, Kinds
    <3>2. k = "eip" => uses' = uses
          BY <1>1 DEF Appears
    <3>   QED
          BY <1>1, <3>1, <3>2 DEF UsesKept, InUse, Appears
  <2>4. Pending'
        BY <1>2, <2>1, <2>3 DEF AtWork, Pending, Questions, Kinds, InUse
  <2>   QED
        BY <2>2, <2>4 DEF AtWork
<1>   QED
      BY <1>1, <1>3, <1>4

LEMMA AskedAtWork ==
    ASSUME TypeOK, HeldByStep, UsesKept, AtWork, Asked, obj' = obj PROVE AtWork'
BY AsksAtWork DEF Asked, Questions

LEMMA RecordedAtWork ==
    ASSUME TypeOK, HeldByStep, AtWork, Recorded PROVE AtWork'
<1>1. obj.made \in [Kinds -> Ids \cup {None}] /\ held \in [Kinds -> Ids \cup {None}]
      BY DEF TypeOK, Object
<1>2. \A k \in Kinds : held'[k] \in {held[k], None}
      BY DEF Recorded, WritesOne, Writes
<1>3. CASE pc = "netStatus"
  <2>1. Writes("netStatus", "netSpec", {}, NetworkStatus, obj.ext, obj.vpc, obj.subnet)
        BY <1>3 DEF Recorded, WritesOne, Writes
  <2>2. \A k \in Kinds : held'[k] = held[k]
        BY <2>1 DEF Writes
  <2>3. /\ obj'.made["subnet"] = held["subnet"]
        /\ held["vpc"] # None => obj'.made["vpc"] = held["vpc"]
        BY <1>1, <2>1, IdsAssumption DEF Writes, NetworkStatus, Kinds
  <2>4. pc' = "netSpec" /\ obj'.vpc = obj.vpc /\ obj'.subnet = obj.subnet
        BY <2>1 DEF Writes
  <2>   QED
        BY <1>3, <2>2, <2>3, <2>4 DEF AtWork, NetworkAtHand, Pending, NetworkSteps, Kinds
<1>4. CASE pc # "netStatus"
  <2>1. pc' \notin NetworkSteps \cup {"eipRecord", "snatEipRecord", "snatRecord"}
        BY <1>4 DEF Recorded, WritesOne, Writes, NetworkSteps
  <2>2. held'["vpc"] = None
    <3>1. CASE pc = "netSpec"
      <4>1. held' = [k \in Kinds |-> IF k \in {"vpc", "subnet"} THEN None ELSE held[k]]
            BY <3>1 DEF Recorded, WritesOne, Writes
      <4>   QED
            BY <4>1 DEF Kinds
    <3>2. CASE pc # "netSpec"
      <4>1. pc # "subnet"
            BY DEF Recorded, WritesOne, Writes
      <4>2. held["vpc"] = None
            BY <1>4, <3>2, <4>1 DEF HeldByStep
      <4>   QED
            BY <1>2, <4>2 DEF Kinds
    <3>   QED
          BY <3>1, <3>2
  <2>   QED
        BY <2>1, <2>2 DEF AtWork, NetworkAtHand, Pending, NetworkSteps
<1>   QED
      BY <1>3, <1>4

LEMMA StrikingAtWork ==
    ASSUME Striking PROVE AtWork'
<1>1. held'["vpc"] = None
      BY DEF Striking, Nothing, Kinds
<1>   QED
      BY <1>1 DEF Striking, AtWork, NetworkAtHand, Pending, NetworkSteps

-----------------------------------------------------------------------------
(* What a step adds to the lost.                                            *)

Lost(k, i) == Stray(k, i) \/ Doomed(k, i)

LEMMA BadFrom ==
    ASSUME NEW X,
           \A k \in Kinds, i \in Ids : Lost(k, i)' => <<k, i>> \in Bad \cup X,
           \A c \in Ids, i \in Ids :
              /\ i = obj'.made["eip"] /\ Exists(<<"eip", i>>)'
              /\ Holds(c, i)' /\ Lost("cluster", c)'
              => \/ <<"eip", i>> \in X
                 \/ /\ i = obj.made["eip"] /\ Exists(<<"eip", i>>)
                    /\ Holds(c, i) /\ Lost("cluster", c)
    PROVE  Bad' \subseteq Bad \cup X
<1> SUFFICES ASSUME NEW k \in Kinds, NEW i \in Ids,
                    (Stray(k, i) \/ Doomed(k, i) \/ Hostage(k, i))'
             PROVE  <<k, i>> \in Bad \cup X
    BY DEF Bad
<1>1. CASE Lost(k, i)'
      BY <1>1
<1>2. CASE Hostage(k, i)'
  <2>1. /\ k = "eip" /\ i = obj'.made["eip"] /\ Exists(<<"eip", i>>)'
        /\ \E c \in Ids : Holds(c, i)' /\ Lost("cluster", c)'
        BY <1>2 DEF Hostage, Lost
  <2>2. CASE <<"eip", i>> \in X
        BY <2>1, <2>2
  <2>3. CASE Hostage(k, i)
        BY <2>3 DEF Bad
  <2>   QED
        BY <2>1, <2>2, <2>3 DEF Hostage, Lost
<1>   QED
      BY <1>1, <1>2 DEF Lost

LEMMA LostBad == \A k \in Kinds, i \in Ids : Lost(k, i) => <<k, i>> \in Bad
BY DEF Bad, Lost

(* What a step costs. *)
BadGrows ==
    \/ Bad' \subseteq Bad
    \/ edits' = edits + 1 /\ Window /\ Bad' \subseteq Bad \cup {<<"eip", obj.made["eip"]>>}
    \/ faults' = faults + 1 /\ \E a, b : Bad' \subseteq Bad \cup {a, b}

LEMMA LeavingBad ==
    ASSUME Leaving PROVE Bad' \subseteq Bad
<1>1. UNCHANGED <<obj, pc, held, current>> /\ uses' \subseteq uses
      BY DEF Leaving, Vanish
<1>2. \A r : Exists(r)' => Exists(r)
      BY DEF Leaving, Vanish, Exists, Here
<1>3. \A k, i : Lost(k, i)' => Lost(k, i)
      BY <1>1, <1>2 DEF Lost, Stray, Doomed, Window
<1>4. \A c, i : Holds(c, i)' => Holds(c, i)
      BY <1>1 DEF Holds
<1>5. Bad' \subseteq Bad \cup {}
      BY <1>1, <1>2, <1>3, <1>4, LostBad, BadFrom
<1>   QED
      BY <1>5

LEMMA StrikingBad ==
    ASSUME TypeOK, LedgerInv, Striking PROVE Bad' \subseteq Bad
<1>1. /\ UNCHANGED <<cloud, uses, held>> /\ obj'.vpc = obj.vpc /\ obj'.subnet = obj.subnet
      /\ \A k \in Kinds : \/ obj'.made[k] = obj.made[k]
                          \/ obj'.made[k] = None /\ ~Exists(<<k, obj.made[k]>>)
      BY DEF Striking
<1>2. pc # "netSpec" /\ pc' \notin {"netSpec", "newCluster", "clusterRecord"}
      BY DEF Striking, LedgerInv, Handed, Nothing, Kinds, CreateSteps, RecordSteps
<1>3. \A r : Exists(r)' <=> Exists(r)
      BY <1>1 DEF Exists
<1>4. ~Window' => ~Window /\ obj'.ext = obj.ext
      BY DEF Striking, Window
<1>5. ASSUME NEW k \in Kinds, NEW i \in Ids, Lost(k, i)' PROVE Lost(k, i)
  <2>1. CASE Stray(k, i)'
        BY <1>1, <1>3, <2>1 DEF Stray, Lost
  <2>2. CASE Doomed(k, i)'
        BY <1>1, <1>2, <1>3, <1>4, <2>2, IdsAssumption DEF Doomed, Lost
  <2>   QED
        BY <1>5, <2>1, <2>2 DEF Lost
<1>6. \A c, i : Holds(c, i)' => Holds(c, i)
      BY <1>1 DEF Holds
<1>7. "eip" \in Kinds /\ "cluster" \in Kinds
      BY DEF Kinds
<1>8. Bad' \subseteq Bad \cup {}
      BY <1>1, <1>3, <1>5, <1>6, <1>7, LostBad, BadFrom, IdsAssumption
<1>   QED
      BY <1>8

(* The cluster that keeps the recorded EIP from being deleted is lost. *)
LEMMA FreeBad ==
    ASSUME LeakFacts, Window, EipFree, NEW i \in Ids, i = obj.made["eip"], Exists(<<"eip", i>>)
    PROVE  <<"eip", i>> \in Bad
<1>1. PICK c \in Res : <<c, <<"eip", i>>>> \in uses
      BY IdsAssumption DEF EipFree, InUse
<1>2. <<"eip", i>> \in Refs
      BY DEF Refs, Kinds
<1>3. Exists(c) /\ <<c[1], "eip">> \in Uses /\ (c[2] = User => i = User)
      BY <1>1, <1>2 DEF LeakFacts, UsesKept
<1>4. c = <<"cluster", c[2]>> /\ c[2] \in Ids
      BY <1>3, IdsAssumption DEF Uses, Res
<1>5. local = obj /\ obj.made["cluster"] = None
      BY DEF Window, LeakFacts, Facts, Tracked, CopiesAgree, RemovalInv, CleanedUp
<1>6. held["cluster"] = None
      BY DEF Window, LeakFacts, Facts, InHand, HeldByStep
<1>7. Stray("cluster", c[2])
      BY <1>3, <1>4, <1>5, <1>6, IdsAssumption DEF Stray
<1>8. Hostage("eip", i)
      BY <1>1, <1>4, <1>7 DEF Hostage, Holds
<1>   QED
      BY <1>8 DEF Bad, Kinds

(* A worker holds little at a time. *)
LEMMA HandsFew ==
    ASSUME HeldByStep
    PROVE  \E a, b : /\ \A k \in Kinds : held[k] # None => <<k, held[k]>> \in {a, b}
                     /\ held["cluster"] # None => <<"eip", obj.made["eip"]>> \in {a, b}
<1>1. CASE pc \in {"subnet", "netStatus", "netSpec"}
  <2>1. \A k \in Kinds : held[k] # None => k \in {"vpc", "subnet"}
        BY <1>1 DEF HeldByStep, Kinds
  <2>2. held["cluster"] = None
        BY <1>1 DEF HeldByStep
  <2> WITNESS <<"vpc", held["vpc"]>>, <<"subnet", held["subnet"]>>
  <2>   QED
        BY <2>1, <2>2
<1>2. CASE pc = "clusterRecord"
  <2>1. \A k \in Kinds : held[k] # None => k = "cluster"
        BY <1>2 DEF HeldByStep, Kinds
  <2>   QED
        BY <2>1
<1>3. CASE pc \notin {"subnet", "netStatus", "netSpec", "clusterRecord"}
  <2>1. ASSUME NEW k \in Kinds, NEW j \in Kinds, held[k] # None, held[j] # None PROVE k = j
        BY <1>3, <2>1 DEF HeldByStep, Kinds
  <2>2. held["cluster"] = None
        BY <1>3 DEF HeldByStep
  <2>3. CASE \E j \in Kinds : held[j] # None
    <3>1. PICK j \in Kinds : held[j] # None
          BY <2>3
    <3>   QED
          BY <2>1, <2>2, <3>1
  <2>   QED
        BY <2>2, <2>3
<1>   QED
      BY <1>1, <1>2, <1>3

LEMMA ElsewhereBad ==
    ASSUME LeakFacts, AtWork, Elsewhere, InLife PROVE BadGrows
<1>1. /\ SameRecord /\ uses' = uses /\ HeldByStep
      /\ \A k \in Kinds, i \in Ids : Exists(<<k, i>>)' <=> Exists(<<k, i>>)
      BY DEF Elsewhere, Aside, SamePresence, Exists, LeakFacts, Facts, InHand, Res
<1>2. ASSUME NEW k \in Kinds, NEW i \in Ids, Lost(k, i)', ~Lost(k, i)
      PROVE  \/ held' # held /\ i = held[k]
             \/ k = "eip" /\ i = obj.made["eip"] /\ Exists(<<"eip", i>>) /\ Window /\ ~Window'
  <2>1. CASE Stray(k, i)'
        BY <1>1, <1>2, <2>1 DEF Stray, Lost, SameRecord
  <2>2. CASE Doomed(k, i)'
    <3>1. i = obj.made[k] /\ Exists(<<k, i>>)
          BY <1>1, <2>2 DEF Doomed, SameRecord
    <3>2. pc' \in {"newCluster", "clusterRecord"} => pc' = pc
          BY DEF Elsewhere, Aside, TurnsAway, CreateSteps, RecordSteps
    <3>3. CASE pc = "netSpec" /\ pc' # "netSpec"
      <4>1. held' # held
            BY <3>3 DEF Elsewhere, Aside, TurnsAway, LeakFacts, LedgerInv, Handed, Nothing, Kinds
      <4>2. ~Window
            BY <3>3 DEF Window
      <4>3. k \in {"vpc", "subnet", "eip"}
            BY <2>2, <3>2, <3>3 DEF Doomed
      <4>4. k = "eip" => FALSE
            BY <1>1, <1>2, <2>2, <3>1, <4>2 DEF Doomed, Lost, SameRecord
      <4>5. k \in {"vpc", "subnet"} => i = held[k]
            BY <1>1, <2>2, <3>1, <3>3 DEF Doomed, AtWork, NetworkAtHand, NetworkSteps, SameRecord
      <4>   QED
            BY <4>1, <4>3, <4>4, <4>5
    <3>4. CASE ~(pc = "netSpec" /\ pc' # "netSpec")
          BY <1>1, <1>2, <2>2, <3>1, <3>2, <3>4 DEF Doomed, Lost, SameRecord
    <3>   QED
          BY <3>3, <3>4
  <2>   QED
        BY <1>2, <2>1, <2>2 DEF Lost
<1>3. ASSUME NEW X,
             \A k \in Kinds, i \in Ids : Lost(k, i)' /\ ~Lost(k, i) => <<k, i>> \in Bad \cup X,
             held' # held /\ held["cluster"] # None => <<"eip", obj.made["eip"]>> \in X
      PROVE  Bad' \subseteq Bad \cup X
  <2>1. \A k \in Kinds, i \in Ids : Lost(k, i)' => <<k, i>> \in Bad \cup X
        BY <1>3, LostBad
  <2>2. \A c \in Ids : Lost("cluster", c)' /\ ~Lost("cluster", c) =>
           held' # held /\ held["cluster"] # None
        BY <1>2, IdsAssumption DEF Kinds
  <2>3. \A c, i : Holds(c, i)' <=> Holds(c, i)
        BY <1>1 DEF Holds
  <2>4. "eip" \in Kinds
        BY DEF Kinds
  <2>5. obj'.made["eip"] = obj.made["eip"]
        BY <1>1 DEF SameRecord
  <2>   QED
        BY <1>1, <1>3, <2>1, <2>2, <2>3, <2>4, <2>5, BadFrom
<1>4. CASE held' # held
  <2>1. faults' = faults + 1
        BY <1>4 DEF Elsewhere
  <2>2. PICK a, b : /\ \A k \in Kinds : held[k] # None => <<k, held[k]>> \in {a, b}
                    /\ held["cluster"] # None => <<"eip", obj.made["eip"]>> \in {a, b}
        BY <1>1, HandsFew
  <2>3. ~Window
    <3>1. pc # "cleanup" \/ held = Nothing
          BY <1>1, EmptyHands DEF LeakFacts, Facts, HandSteps
    <3>   QED
          BY <1>4, <3>1 DEF Window, Elsewhere, Aside, TurnsAway
  <2>4. \A k \in Kinds, i \in Ids : Lost(k, i)' /\ ~Lost(k, i) => <<k, i>> \in Bad \cup {a, b}
        BY <1>2, <2>2, <2>3, IdsAssumption
  <2>5. Bad' \subseteq Bad \cup {a, b}
        BY <1>3, <2>2, <2>4
  <2>   QED
        BY <2>1, <2>5 DEF BadGrows
<1>5. CASE held' = held
  <2> DEFINE X == {<<"eip", obj.made["eip"]>>}
  <2>1. Bad' \subseteq Bad \cup X
    <3>1. \A k \in Kinds, i \in Ids : Lost(k, i)' /\ ~Lost(k, i) => <<k, i>> \in Bad \cup X
          BY <1>2, <1>5
    <3> HIDE DEF X
    <3>   QED
          BY <1>3, <1>5, <3>1
  <2>2. ASSUME ~Window \/ Window' \/ EipFree PROVE Bad' \subseteq Bad
    <3>1. \A k \in Kinds, i \in Ids : Lost(k, i)' /\ ~Lost(k, i) => <<k, i>> \in Bad \cup {}
          BY <1>2, <1>5, <2>2, FreeBad
    <3>2. Bad' \subseteq Bad \cup {}
          BY <1>3, <1>5, <3>1
    <3>   QED
          BY <3>2
  <2>3. CASE faults' = faults + 1
    <3>1. \E a, b : Bad' \subseteq Bad \cup {a, b}
      <4>1. {<<"eip", obj.made["eip"]>>, <<"eip", obj.made["eip"]>>} = {<<"eip", obj.made["eip"]>>}
            OBVIOUS
      <4>   QED
            BY <2>1, <4>1
    <3>   QED
          BY <2>3, <3>1 DEF BadGrows
  <2>   QED
        BY <2>1, <2>2, <2>3 DEF Elsewhere, BadGrows
<1>   QED
      BY <1>4, <1>5

LEMMA AsksBad ==
    ASSUME LeakFacts, Given, obj' = obj,
           NEW at, NEW k, NEW state \in Here, NEW parents, NEW next,
           Asks(at, k, state, parents, next), <<at, k, next>> \in Questions
    PROVE  BadGrows
<1>1. PICK i \in Ids : Appears(k, i, state, parents) /\ (Brings(k, i, next) \/ Loses)
      BY DEF Asks
<1>2. pc = at /\ i # None /\ k \in Kinds /\ TypeOK /\ HeldByStep
      BY IdsAssumption DEF Asks, Questions, Kinds, LeakFacts, Facts, InHand
<1>3. /\ \A j \in Kinds, m \in Ids : Exists(<<j, m>>)' => Exists(<<j, m>>) \/ <<j, m>> = <<k, i>>
      /\ ~Exists(<<k, i>>) /\ i # obj.made[k]
      BY <1>1, <1>2 DEF Appears, Exists, Here, Given
<1>4. \A c, m : Holds(c, m)' => Holds(c, m) \/ <<"cluster", c>> = <<k, i>>
      BY <1>1 DEF Holds, Appears
<1>5. ~Window /\ pc # "netSpec"
      BY <1>2 DEF Window, Questions
<1>6. \A j \in Kinds : held[j] # None => j = "vpc" /\ k = "subnet"
      BY <1>2 DEF HeldByStep, Questions, Kinds
<1>7. ASSUME NEW j \in Kinds, NEW m \in Ids, Doomed(j, m)' PROVE Doomed(j, m)
  <2>1. Exists(<<j, m>>) /\ m = obj.made[j]
        BY <1>3, <1>7 DEF Doomed
  <2>2. pc' \in {"newCluster", "clusterRecord"} => pc = "newCluster"
        BY <1>1, <1>2 DEF Brings, Loses, Questions
  <2>   QED
        BY <1>5, <1>7, <2>1, <2>2 DEF Doomed
<1>8. CASE Brings(k, i, next)
  <2>1. held'[k] = i /\ \A j \in Kinds : j # k => held'[j] = held[j]
        BY <1>2, <1>8 DEF Brings, TypeOK
  <2>2. ASSUME NEW j \in Kinds, NEW m \in Ids, Lost(j, m)' PROVE Lost(j, m)
    <3>1. CASE Stray(j, m)'
      <4>1. m # held[j]
            BY <1>2, <1>6, <2>1, <3>1, IdsAssumption DEF Stray, Questions
      <4>   QED
            BY <1>3, <2>1, <3>1, <4>1 DEF Stray, Lost
    <3>   QED
          BY <1>7, <2>2, <3>1 DEF Lost
  <2>3. Lost("cluster", i) /\ k = "cluster" => FALSE
        BY <1>3 DEF Lost, Stray, Doomed
  <2>4. "eip" \in Kinds /\ "cluster" \in Kinds
        BY DEF Kinds
  <2>5. Bad' \subseteq Bad \cup {}
        BY <1>3, <1>4, <2>2, <2>3, <2>4, LostBad, BadFrom
  <2>   QED
        BY <2>5 DEF BadGrows
<1>9. CASE Loses
  <2> DEFINE X == {<<k, i>>, IF k = "subnet" THEN <<"vpc", held["vpc"]>>
                                             ELSE <<"eip", obj.made["eip"]>>}
  <2>1. ASSUME NEW j \in Kinds, NEW m \in Ids, Lost(j, m)'
        PROVE  Lost(j, m) \/ <<j, m>> = <<k, i>> \/ (j = "vpc" /\ k = "subnet" /\ m = held["vpc"])
    <3>1. CASE Stray(j, m)'
          BY <1>3, <1>6, <3>1, IdsAssumption DEF Stray, Lost
    <3>   QED
          BY <1>7, <2>1, <3>1 DEF Lost
  <2>2. \A j \in Kinds, m \in Ids : Lost(j, m)' => <<j, m>> \in Bad \cup X
        BY <2>1, LostBad
  <2>3. "eip" \in Kinds /\ "cluster" \in Kinds
        BY DEF Kinds
  <2>4. ASSUME NEW c \in Ids, NEW m \in Ids, m = obj'.made["eip"], Exists(<<"eip", m>>)',
               Holds(c, m)', Lost("cluster", c)'
        PROVE  \/ <<"eip", m>> \in X
               \/ /\ m = obj.made["eip"] /\ Exists(<<"eip", m>>)
                  /\ Holds(c, m) /\ Lost("cluster", c)
    <3>1. CASE k = "cluster"
          BY <2>4, <3>1
    <3>2. CASE k # "cluster"
          BY <1>3, <1>4, <2>1, <2>3, <2>4, <3>2
    <3>   QED
          BY <3>1, <3>2
  <2>5. Bad' \subseteq Bad \cup X
    <3> HIDE DEF X
    <3>   QED
          BY <2>2, <2>4, BadFrom
  <2>   QED
        BY <1>9, <2>5 DEF Loses, BadGrows
<1>   QED
      BY <1>1, <1>8, <1>9

LEMMA AskedBad == ASSUME LeakFacts, Given, Asked, obj' = obj PROVE BadGrows
<1>1. "live" \in Here /\ "creating" \in Here
      BY DEF Here
<1>   QED
      BY <1>1, AsksBad DEF Asked, Questions

LEMMA PassedBad ==
    ASSUME LeakFacts, Passed, UNCHANGED <<obj, cloud, uses>> PROVE BadGrows
<1>1. /\ held' = held /\ ~Window /\ pc # "netSpec"
      /\ \A k, i : Exists(<<k, i>>)' <=> Exists(<<k, i>>)
      /\ \A c, i : Holds(c, i)' <=> Holds(c, i)
      BY DEF Passed, Passes, Window, Exists, Holds
<1>2. ASSUME NEW k \in Kinds, NEW i \in Ids, Lost(k, i)'
      PROVE  Lost(k, i) \/ (faults' = faults + 1 /\ k = "cluster" /\ i = obj.made["cluster"])
  <2>1. CASE Stray(k, i)'
        BY <1>1, <2>1 DEF Stray, Lost
  <2>2. CASE Doomed(k, i)'
    <3>1. Exists(<<k, i>>) /\ i = obj.made[k] /\ i # None
          BY <1>1, <2>2, IdsAssumption DEF Doomed
    <3>2. CASE k = "cluster" /\ pc' = "newCluster"
          BY <3>1, <3>2 DEF Passed, Passes
    <3>3. CASE k # "cluster" \/ pc' # "newCluster"
      <4>1. pc' # "clusterRecord"
            BY DEF Passed, Passes
      <4>   QED
            BY <1>1, <2>2, <3>1, <3>3, <4>1 DEF Doomed, Lost
    <3>   QED
          BY <3>2, <3>3
  <2>   QED
        BY <1>2, <2>1, <2>2 DEF Lost
<1>3. "cluster" \in Kinds
      BY DEF Kinds
<1>4. CASE faults' = faults + 1
  <2> DEFINE X == {<<"cluster", obj.made["cluster"]>>, <<"eip", obj.made["eip"]>>}
  <2>1. \A k \in Kinds, i \in Ids : Lost(k, i)' => <<k, i>> \in Bad \cup X
        BY <1>2, LostBad
  <2>2. <<"eip", obj.made["eip"]>> \in X
        OBVIOUS
  <2>3. Bad' \subseteq Bad \cup X
    <3> HIDE DEF X
    <3>   QED
          BY <2>1, <2>2, BadFrom
  <2>   QED
        BY <1>4, <2>3 DEF BadGrows
<1>5. CASE faults' # faults + 1
  <2>1. \A k \in Kinds, i \in Ids : Lost(k, i)' => Lost(k, i)
        BY <1>2, <1>5
  <2>2. Bad' \subseteq Bad \cup {}
        BY <1>1, <1>3, <2>1, LostBad, BadFrom
  <2>   QED
        BY <2>2 DEF BadGrows
<1>   QED
      BY <1>4, <1>5

(* What a record writes over was doomed already, what it records was in    *)
(* hand.                                                                   *)
LEMMA RecordedBad ==
    ASSUME LeakFacts, AtWork, Recorded, UNCHANGED <<cloud, uses>> PROVE Bad' \subseteq Bad
<1>1. /\ TypeOK /\ HeldByStep
      /\ \A k, i : Exists(<<k, i>>)' <=> Exists(<<k, i>>)
      /\ \A c, i : Holds(c, i)' <=> Holds(c, i)
      BY DEF LeakFacts, Facts, InHand, Exists, Holds
<1>2. /\ obj.made \in [Kinds -> Ids \cup {None}] /\ held \in [Kinds -> Ids \cup {None}]
      /\ Kinds = {"eip", "vpc", "subnet", "nat", "snatEip", "snat", "cluster"}
      BY <1>1 DEF TypeOK, Object, Kinds
<1>3. ~Window
      BY DEF Recorded, WritesOne, Writes, Window
<1>4. ASSUME \A k \in Kinds, i \in Ids : Lost(k, i)' => Lost(k, i),
             obj'.made["eip"] # obj.made["eip"] => \A c : ~Holds(c, obj'.made["eip"])
      PROVE  Bad' \subseteq Bad
  <2>1. Bad' \subseteq Bad \cup {}
        BY <1>1, <1>2, <1>4, LostBad, BadFrom
  <2>   QED
        BY <2>1
<1>5. CASE Writes("eipRecord", "network", {"eip"}, Name("eip"), TRUE, obj.vpc, obj.subnet)
  <2>1. /\ obj'.made["eip"] = held["eip"] /\ obj'.ext /\ pc = "eipRecord" /\ pc' = "network"
        /\ \A k \in Kinds : k # "eip" => obj'.made[k] = obj.made[k] /\ held'[k] = held[k]
        /\ obj'.vpc = obj.vpc /\ obj'.subnet = obj.subnet
        BY <1>2, <1>5 DEF Writes, Name
  <2>2. ~obj.ext /\ ~InUse(<<"eip", held["eip"]>>)
        BY <2>1 DEF AtWork, Pending
  <2>3. ASSUME NEW k \in Kinds, NEW i \in Ids, Lost(k, i)' PROVE Lost(k, i)
    <3>1. CASE k = "eip"
          BY <1>1, <1>3, <2>1, <2>2, <2>3, <3>1, IdsAssumption DEF Lost, Stray, Doomed
    <3>2. CASE k # "eip"
          BY <1>1, <2>1, <2>3, <3>2 DEF Lost, Stray, Doomed
    <3>   QED
          BY <3>1, <3>2
  <2>4. \A c : ~Holds(c, held["eip"])
    <3>1. ASSUME NEW c, Holds(c, held["eip"]) PROVE <<"cluster", c>> \in Res
          BY <1>1, <3>1 DEF Holds, TypeOK
    <3>   QED
          BY <2>2, <3>1 DEF InUse, Holds
  <2>   QED
        BY <1>4, <2>1, <2>3, <2>4
<1>6. CASE \/ Writes("extRecord", "network", {}, obj.made, TRUE, obj.vpc, obj.subnet)
           \/ Writes("phaseRecord", "report", {}, obj.made, obj.ext, obj.vpc, obj.subnet)
  <2>1. /\ obj'.made = obj.made /\ \A k \in Kinds : held'[k] = held[k]
        /\ pc # "netSpec" /\ pc' \in {"network", "report"}
        /\ obj'.ext = obj.ext \/ obj'.ext
        /\ obj'.vpc = obj.vpc /\ obj'.subnet = obj.subnet
        BY <1>2, <1>6 DEF Writes
  <2>2. \A k \in Kinds, i \in Ids : Lost(k, i)' => Lost(k, i)
        BY <1>1, <1>3, <2>1 DEF Lost, Stray, Doomed
  <2>   QED
        BY <1>4, <2>1, <2>2
<1>7. CASE Writes("netStatus", "netSpec", {}, NetworkStatus, obj.ext, obj.vpc, obj.subnet)
  <2>1. /\ obj'.made["subnet"] = held["subnet"]
        /\ obj'.made["vpc"] = IF held["vpc"] # None THEN held["vpc"] ELSE obj.made["vpc"]
        /\ \A k \in Kinds : k \notin {"subnet", "vpc"} => obj'.made[k] = obj.made[k]
        /\ \A k \in Kinds : held'[k] = held[k]
        /\ pc = "netStatus" /\ pc' = "netSpec"
        /\ obj'.vpc = obj.vpc /\ obj'.subnet = obj.subnet /\ obj'.ext = obj.ext
        BY <1>2, <1>7 DEF Writes, NetworkStatus
  <2>2. /\ obj.vpc = None \/ obj.subnet = None
        /\ held["vpc"] # None => obj.vpc = None
        BY <2>1 DEF AtWork, NetworkAtHand, Pending, NetworkSteps
  <2>3. ASSUME NEW k \in Kinds, NEW i \in Ids, Lost(k, i)' PROVE Lost(k, i)
    <3>1. CASE k \in {"subnet", "vpc"}
          BY <1>1, <2>1, <2>2, <2>3, <3>1 DEF Lost, Stray, Doomed
    <3>2. CASE k \notin {"subnet", "vpc"}
          BY <1>1, <1>3, <2>1, <2>3, <3>2 DEF Lost, Stray, Doomed
    <3>   QED
          BY <3>1, <3>2
  <2>   QED
        BY <1>2, <1>4, <2>1, <2>3
<1>8. CASE Writes("netSpec", "nat", {"vpc", "subnet"}, obj.made, obj.ext,
                  IF held["vpc"] # None THEN held["vpc"] ELSE obj.vpc, held["subnet"])
  <2>1. /\ obj'.vpc = IF held["vpc"] # None THEN held["vpc"] ELSE obj.vpc
        /\ obj'.made = obj.made /\ obj'.subnet = held["subnet"] /\ obj'.ext = obj.ext
        /\ pc = "netSpec" /\ pc' = "nat"
        /\ \A k \in Kinds : held'[k] = IF k \in {"vpc", "subnet"} THEN None ELSE held[k]
        BY <1>2, <1>8 DEF Writes
  <2>2. /\ obj.vpc # None \/ held["vpc"] # None
        /\ obj.made["subnet"] = held["subnet"]
        /\ held["vpc"] # None => obj.made["vpc"] = held["vpc"]
        BY <2>1 DEF AtWork, NetworkAtHand, NetworkSteps
  <2>3. held["subnet"] # None
        BY <2>1 DEF LeakFacts, LedgerInv, Handed
  <2>4. ASSUME NEW k \in Kinds, NEW i \in Ids, Lost(k, i)' PROVE Lost(k, i)
    <3>1. CASE Stray(k, i)'
          BY <1>1, <2>1, <2>2, <3>1, IdsAssumption DEF Lost, Stray
    <3>2. CASE Doomed(k, i)'
          BY <1>1, <1>3, <2>1, <2>2, <2>3, <3>2 DEF Lost, Doomed
    <3>   QED
          BY <2>4, <3>1, <3>2 DEF Lost
  <2>   QED
        BY <1>4, <2>1, <2>4
<1>9. ASSUME NEW at, NEW k \in Kinds, NEW next, WritesOne(at, k, next),
             at # "netSpec", next \notin {"netSpec", "newCluster", "clusterRecord"}, k \notin {"eip", "vpc", "subnet"},
             \A i \in Ids : i = obj.made[k] => Lost(k, i) \/ ~Exists(<<k, i>>)
      PROVE  Bad' \subseteq Bad
  <2>1. /\ obj'.made[k] = held[k] /\ pc = at /\ pc' = next
        /\ \A j \in Kinds : j # k => obj'.made[j] = obj.made[j] /\ held'[j] = held[j]
        /\ obj'.vpc = obj.vpc /\ obj'.subnet = obj.subnet /\ obj'.ext = obj.ext
        BY <1>2, <1>9 DEF WritesOne, Writes, Name
  <2>2. ASSUME NEW j \in Kinds, NEW i \in Ids, Lost(j, i)' PROVE Lost(j, i)
    <3>1. CASE j = k
      <4>1. Stray(k, i)'
            BY <1>9, <2>1, <2>2, <3>1 DEF Lost, Doomed
      <4>   QED
            BY <1>1, <1>9, <2>1, <3>1, <4>1 DEF Lost, Stray
    <3>2. CASE j # k
          BY <1>1, <1>3, <1>9, <2>1, <2>2, <3>2 DEF Lost, Stray, Doomed
    <3>   QED
          BY <3>1, <3>2
  <2>3. obj'.made["eip"] = obj.made["eip"]
        BY <1>2, <1>9, <2>1
  <2>   QED
        BY <1>4, <2>2, <2>3
<1>10. CASE WritesOne("natRecord", "nat", "snat")
  <2>1. obj.made["nat"] = None
        BY <1>10 DEF LeakFacts, LedgerInv, RuleInGateway, WritesOne, Writes
  <2>   QED
        BY <1>2, <1>9, <1>10, <2>1, IdsAssumption
<1>11. CASE WritesOne("snatEipRecord", "snatEip", "snat") \/ WritesOne("snatRecord", "snat", "cluster")
  <2>1. /\ pc = "snatEipRecord" => obj.made["snatEip"] = None
        /\ pc = "snatRecord" => obj.made["snat"] = None
        BY DEF AtWork, Pending
  <2>   QED
        BY <1>2, <1>9, <1>11, <2>1, IdsAssumption DEF WritesOne, Writes
<1>12. CASE WritesOne("clusterRecord", "cluster", "phaseRecord")
  <2>1. pc = "clusterRecord"
        BY <1>12 DEF WritesOne, Writes
  <2>2. \A i \in Ids : i = obj.made["cluster"] => Lost("cluster", i) \/ ~Exists(<<"cluster", i>>)
        BY <2>1 DEF Lost, Doomed
  <2>   QED
        BY <1>2, <1>9, <1>12, <2>2
<1>   QED
      BY <1>5, <1>6, <1>7, <1>8, <1>10, <1>11, <1>12 DEF Recorded

-----------------------------------------------------------------------------
LEMMA NothingPaidBack ==
    ASSUME TypeOK, [Next]_vars
    PROVE  faults' \in {faults, faults + 1} /\ edits' \in {edits, edits + 1}
<1>1. CASE UNCHANGED vars
      BY <1>1 DEF vars
<1>2. CASE \/ OnCCEConfigChanged \/ RecordError \/ SyncEndFails \/ AddFinalizer \/ RemoveAtOnce
      BY <1>2 DEF OnCCEConfigChanged, RecordError, SyncEndFails, AddFinalizer, RemoveAtOnce, Quiet, Fault
<1>3. CASE Removing
      BY <1>3 DEF Removing, EnsureDeletable, DeleteCCECluster, ClearExternalIP, DeleteSnatRules,
                  DeleteEndpointService, DeleteNetworkResource, ForgetNetworkResource,
                  CleanupDone, RemoveFinalizer, RemoveFails, QuietRemove, Fault
<1>4. CASE Requesting
  <2>1. edits' = edits
        BY <1>4 DEF Requesting, CreateClusterEIP, CreateVPC, CreateSubnet, CreateNatGateway,
                    CreateSnatRule, FindCluster, CreateCluster, QuietCreate
  <2>2. ASSUME NEW k, NEW state, NEW parents, NEW next, Request(k, state, parents, next)
        PROVE  faults' \in {faults, faults + 1}
        BY <2>2 DEF Request, Fault
  <2>   QED
        BY <1>4, <2>1, <2>2 DEF Requesting, CreateClusterEIP, CreateVPC, CreateSubnet, CreateNatGateway,
                    CreateSnatRule, FindCluster, CreateCluster, Skip, Fault
<1>5. CASE Recording
      BY <1>5, RecordingWrites
<1>6. CASE \/ ValidateCreate \/ WaitForCreationComplete \/ AdoptCluster \/ SetRunning
           \/ CallFails \/ WriteFails
      BY <1>6 DEF ValidateCreate, WaitForCreationComplete, AdoptCluster, SetRunning, CallFails,
                  WriteFails, Quiet, Fault
<1>7. CASE Environment
      BY <1>7 DEF Environment, Inform, UserEdits, UserDeletes, ClusterSettles, ClusterVanishes,
                  NodesChange, NodesSettle, Crash, Fault
<1>   QED
      BY <1>1, <1>2, <1>3, <1>4, <1>5, <1>6, <1>7
      DEF Next, Worker, Creating, Requesting, Recording, Environment

(* One more, and two more. *)
LEMMA BoundGrows ==
    ASSUME NEW S, IsFiniteSet(S), NEW n \in Nat, Cardinality(S) <= n, NEW a, NEW b, NEW T
    PROVE  /\ T \subseteq S => IsFiniteSet(T) /\ Cardinality(T) <= n
           /\ T \subseteq S \cup {a} => IsFiniteSet(T) /\ Cardinality(T) <= n + 1
           /\ T \subseteq S \cup {a, b} => IsFiniteSet(T) /\ Cardinality(T) <= n + 2
<1> DEFINE A == S \cup {a}
           B == A \cup {b}
<1>1. Cardinality(S) \in Nat
      BY FS_CardinalityType
<1>2. ASSUME NEW U, IsFiniteSet(U), NEW x
      PROVE  /\ IsFiniteSet(U \cup {x}) /\ Cardinality(U \cup {x}) \in Nat
             /\ Cardinality(U \cup {x}) <= Cardinality(U) + 1
  <2>1. Cardinality(U) \in Nat
        BY <1>2, FS_CardinalityType
  <2>2. /\ IsFiniteSet(U \cup {x})
        /\ Cardinality(U \cup {x}) = IF x \in U THEN Cardinality(U) ELSE Cardinality(U) + 1
        BY <1>2, FS_AddElement
  <2>   QED
        BY <2>1, <2>2
<1>3. IsFiniteSet(A) /\ Cardinality(A) <= n + 1 /\ Cardinality(A) \in Nat
  <2>1. /\ IsFiniteSet(A) /\ Cardinality(A) <= Cardinality(S) + 1 /\ Cardinality(A) \in Nat
        BY <1>2
  <2> HIDE DEF A
  <2>   QED
        BY <1>1, <2>1
<1>4. IsFiniteSet(B) /\ Cardinality(B) <= n + 2 /\ Cardinality(B) \in Nat
  <2> HIDE DEF A
  <2>1. /\ IsFiniteSet(B) /\ Cardinality(B) <= Cardinality(A) + 1 /\ Cardinality(B) \in Nat
        BY <1>3, <1>2
  <2> HIDE DEF B
  <2>   QED
        BY <1>3, <2>1
<1>5. S \cup {a, b} = B
      OBVIOUS
<1> HIDE DEF A, B
<1>6. ASSUME NEW U, IsFiniteSet(U), NEW m \in Nat, Cardinality(U) \in Nat, Cardinality(U) <= m, T \subseteq U
      PROVE  IsFiniteSet(T) /\ Cardinality(T) <= m
  <2>1. IsFiniteSet(T) /\ Cardinality(T) <= Cardinality(U)
        BY <1>6, FS_Subset
  <2>2. Cardinality(T) \in Nat
        BY <2>1, FS_CardinalityType
  <2>   QED
        BY <1>6, <2>1, <2>2
<1>   QED
      BY <1>1, <1>3, <1>4, <1>5, <1>6 DEF A

(* What the object names, what is in use, and what pends, at every step. *)
Support == UsesKept /\ Given /\ AtWork

LEMMA EveryStepBad ==
    ASSUME LeakFacts, Support, InLife, [Next]_vars PROVE BadGrows
<1>1. CASE Requesting
      BY <1>1, RequestingAsks, AskedBad, PassedBad DEF LeakFacts, Facts, Support
<1>2. CASE Recording
      BY <1>2, RecordingWrites, RecordedBad DEF LeakFacts, Facts, Support, BadGrows
<1>3. CASE Elsewhere
      BY <1>3, ElsewhereBad DEF Support
<1>4. CASE Leaving
      BY <1>4, LeavingBad DEF BadGrows
<1>5. CASE Striking
      BY <1>5, StrikingBad DEF LeakFacts, Facts, BadGrows
<1>   QED
      BY <1>1, <1>2, <1>3, <1>4, <1>5, EveryStep

LEMMA EveryStepSupport ==
    ASSUME LeakFacts, Support, [Next]_vars PROVE Support'
<1> USE DEF Support
<1>1. TypeOK /\ LedgerInv /\ HeldByStep
      BY DEF LeakFacts, Facts, InHand
<1>2. CASE Requesting
  <2>1. Asked \/ (Passed /\ UNCHANGED <<cloud, uses>>)
        BY <1>2, RequestingAsks DEF LeakFacts, Facts
  <2>2. obj' = obj
        BY <1>2, RequestingAsks DEF LeakFacts, Facts
  <2>3. CASE Asked
    <3>1. Remembers
          BY <2>3 DEF Asked, Asks, Appears, Remembers
    <3>2. Given'
          BY <1>1, <2>2, <3>1, GivenStays
    <3>   QED
          BY <1>1, <2>2, <2>3, <3>2, AskedUses, AskedAtWork
  <2>4. CASE Passed /\ UNCHANGED <<cloud, uses>>
    <3>1. Given' /\ UsesKept'
          BY <2>2, <2>4 DEF Given, UsesKept, Exists
    <3>   QED
          BY <1>1, <2>2, <2>4, <3>1, PassedAtWork
  <2>   QED
        BY <2>1, <2>3, <2>4
<1>3. CASE Recording
  <2>1. Recorded /\ UNCHANGED <<cloud, uses>>
        BY <1>1, <1>3, RecordingWrites
  <2>2. UsesKept'
        BY <2>1 DEF UsesKept, Exists
  <2>   QED
        BY <1>1, <2>1, <2>2, RecordedGiven, RecordedAtWork
<1>4. CASE Elsewhere
  <2>1. SameRecord /\ SamePresence /\ uses' = uses /\ TurnsAway
        BY <1>4 DEF Elsewhere, Aside
  <2>2. Given'
        BY <1>1, <2>1, GivenStays DEF SameRecord, SamePresence, Remembers
  <2>   QED
        BY <2>1, <2>2, StillUses, AtWorkStays
<1>5. CASE Leaving
  <2>1. PICK R : Vanish(R)
        BY <1>5 DEF Leaving
  <2>2. UNCHANGED <<obj, pc, held>>
        BY <1>5 DEF Leaving
  <2>3. Remembers
        BY <2>1 DEF Vanish, Remembers
  <2>4. Given'
        BY <1>1, <2>2, <2>3, GivenStays
  <2>5. UsesKept'
        BY <1>1, <2>1, VanishUses
  <2>6. AtWork'
        BY <2>1, <2>2, AtWorkStays DEF SameRecord, TurnsAway, Vanish
  <2>   QED
        BY <2>4, <2>5, <2>6
<1>6. CASE Striking
  <2>1. Given'
        BY <1>1, <1>6, GivenStays DEF Striking, Remembers
  <2>2. UsesKept'
        BY <1>6 DEF Striking, UsesKept, Exists
  <2>   QED
        BY <1>6, <2>1, <2>2, StrikingAtWork
<1>   QED
      BY <1>2, <1>3, <1>4, <1>5, <1>6, EveryStep

LEMMA SupportKept == Spec => []Support
<1>1. Init => Support
  <2> SUFFICES ASSUME Init PROVE Support
      OBVIOUS
  <2>1. obj.made = Nothing /\ held = Nothing /\ pc = "idle"
        BY DEF Init, Submitted
  <2>2. \A c, s : <<c, s>> \in uses => c = <<"subnet", User>> /\ s = <<"vpc", User>>
        BY DEF Init
  <2>3. Exists(<<"subnet", User>>)
        BY DEF Init, Exists, Here, Res, Kinds
  <2>4. UsesKept
        BY <2>2, <2>3 DEF UsesKept, Uses
  <2>5. Given /\ AtWork
        BY <2>1 DEF Given, AtWork, NetworkAtHand, Pending, NetworkSteps, Nothing, Kinds
  <2>   QED
        BY <2>4, <2>5 DEF Support
<1>2. Facts /\ LedgerInv /\ Support /\ [Next]_vars => Support'
      BY EveryStepSupport DEF LeakFacts, Support
<1>   QED
      BY <1>1, <1>2, TypeCorrect, CopiesTracked, HandsTracked, RemovalKept, LedgerKept, PTL
      DEF Spec, Facts

LEMMA LeakStep ==
    ASSUME LeakFacts, Facts', Support, LeakInv, InLife', [Next]_vars PROVE LeakInv'
<1>1. TypeOK /\ LedgerInv /\ Tracked /\ InHand /\ faults \in Nat /\ edits \in Nat
      BY BoundsAssumption DEF LeakFacts, Facts, TypeOK
<1>2. InLife
  <2>1. BookStep
        BY NextLedger DEF LeakFacts
  <2>   QED
        BY <2>1 DEF BookStep, Stage, InLife, Book!Next, Book!Make, Book!Enter, Book!GetReady,
                    Book!End, Book!Leave, Book!StrikeOut, Book!Depart
<1>3. BadGrows
      BY <1>2, EveryStepBad
<1>4. /\ IsFiniteSet(Bad) /\ Cardinality(Bad) <= 2 * faults + edits
      /\ faults = 0 => Bad \subseteq {"eip"} \X Ids
      /\ faults = 0 /\ ~obj.deleting => Bad = {}
      BY <1>2 DEF LeakInv
<1>5. faults' \in {faults, faults + 1} /\ edits' \in {edits, edits + 1}
      BY <1>1, NothingPaidBack
<1>6. ~obj'.deleting => ~obj.deleting
      BY <1>1, LifeSteps
<1>7. 2 * faults + edits \in Nat
      BY <1>1
<1>8. CASE Bad' \subseteq Bad
  <2>1. IsFiniteSet(Bad') /\ Cardinality(Bad') <= 2 * faults + edits
        BY <1>4, <1>7, <1>8, BoundGrows
  <2>2. Cardinality(Bad') \in Nat
        BY <2>1, FS_CardinalityType
  <2>3. Cardinality(Bad') <= 2 * faults' + edits'
        BY <1>1, <1>5, <2>1, <2>2
  <2>4. faults' = 0 => faults = 0
        BY <1>1, <1>5
  <2>   QED
        BY <1>4, <1>6, <1>8, <2>1, <2>3, <2>4 DEF LeakInv
<1>9. CASE edits' = edits + 1 /\ Window /\ Bad' \subseteq Bad \cup {<<"eip", obj.made["eip"]>>}
  <2>1. IsFiniteSet(Bad') /\ Cardinality(Bad') <= 2 * faults + edits + 1
        BY <1>4, <1>7, <1>9, BoundGrows
  <2>2. Cardinality(Bad') \in Nat
        BY <2>1, FS_CardinalityType
  <2>3. Cardinality(Bad') <= 2 * faults' + edits'
        BY <1>1, <1>5, <1>9, <2>1, <2>2
  <2>4. faults' = 0 => faults = 0
        BY <1>1, <1>5
  <2>5. obj.deleting
        BY <1>1, <1>9 DEF Window, Tracked, DeletionKept, RemoveSteps
  <2>6. faults' = 0 => Bad' \subseteq {"eip"} \X Ids
        BY <1>4, <1>9, <2>4 DEF Bad
  <2>   QED
        BY <1>6, <2>1, <2>3, <2>5, <2>6 DEF LeakInv
<1>10. CASE faults' = faults + 1 /\ \E a, b : Bad' \subseteq Bad \cup {a, b}
  <2>1. PICK a, b : Bad' \subseteq Bad \cup {a, b}
        BY <1>10
  <2>2. IsFiniteSet(Bad') /\ Cardinality(Bad') <= 2 * faults + edits + 2
        BY <1>4, <1>7, <2>1, BoundGrows
  <2>3. Cardinality(Bad') \in Nat
        BY <2>2, FS_CardinalityType
  <2>4. Cardinality(Bad') <= 2 * faults' + edits'
        BY <1>1, <1>5, <1>10, <2>2, <2>3
  <2>5. faults' # 0
        BY <1>1, <1>10
  <2>   QED
        BY <2>2, <2>4, <2>5 DEF LeakInv
<1>   QED
      BY <1>3, <1>8, <1>9, <1>10 DEF BadGrows

LEMMA LeakKept == Spec => []LeakInv
<1>1. Init => LeakInv
  <2> SUFFICES ASSUME Init PROVE LeakInv
      OBVIOUS
  <2>1. \A k \in Kinds, i \in Ids : ~Exists(<<k, i>>)
        BY IdsAssumption DEF Init, Exists, Here, Res
  <2>2. Bad = {}
        BY <2>1 DEF Bad, Stray, Doomed, Hostage
  <2>3. faults = 0 /\ edits = 0
        BY DEF Init
  <2>   QED
        BY <2>2, <2>3, FS_EmptySet DEF LeakInv
<1>2. Facts /\ Facts' /\ LedgerInv /\ Support /\ LeakInv /\ [Next]_vars => LeakInv'
      BY LeakStep DEF LeakFacts, Support, LeakInv
<1>   QED
      BY <1>1, <1>2, TypeCorrect, CopiesTracked, HandsTracked, RemovalKept, LedgerKept, SupportKept, PTL
      DEF Spec, Facts

LEMMA OrphansBad == ASSUME TypeOK PROVE Orphans \subseteq Bad
BY DEF TypeOK, Orphans, Owned, Bad, Stray, Exists, Res

-----------------------------------------------------------------------------
(* As long as nothing has gone wrong and the configuration has not been    *)
(* deleted, every resource that create() has made is recorded or about to  *)
(* be: copies left behind, edits and queued keys leak nothing.             *)
THEOREM NoLeak == Spec => []LeakNeedsFault
<1>1. TypeOK /\ LeakInv => LeakNeedsFault
      BY OrphansBad DEF LeakInv, InLife, LeakNeedsFault
<1>   QED
      BY <1>1, TypeCorrect, LeakKept, PTL

(* However many requests, replies, writes and syncs fail, and whoever       *)
(* edits or deletes in between: a fault leaves two resources behind at     *)
(* most, an edit one, to the end of the removal.                           *)
THEOREM LeaksBounded == Spec => []LeakBound
<1>1. TypeOK /\ LeakInv => LeakBound
  <2> SUFFICES ASSUME TypeOK, LeakInv, InLife PROVE Cardinality(Orphans) <= 2 * faults + edits
      BY DEF LeakBound, Removed, InLife
  <2>1. IsFiniteSet(Bad) /\ Cardinality(Bad) <= 2 * faults + edits
        BY DEF LeakInv
  <2>2. 2 * faults + edits \in Nat
        BY BoundsAssumption DEF TypeOK
  <2>   QED
        BY <2>1, <2>2, OrphansBad, BoundGrows
<1>   QED
      BY <1>1, TypeCorrect, LeakKept, PTL

(* A removal that nothing disturbs, after a creation that nothing           *)
(* disturbed, leaves nothing of the operator in the cloud.                 *)
THEOREM RemovalComplete == Spec => []NothingLeft
<1>1. TypeOK /\ InHand /\ LedgerInv /\ RemovalInv /\ LeakInv => NothingLeft
  <2> SUFFICES ASSUME TypeOK, InHand, LedgerInv, RemovalInv, LeakInv, Removed, faults = 0, edits = 0
               PROVE  Owned = {}
      BY DEF NothingLeft
  <2>1. IsFiniteSet(Bad) /\ Cardinality(Bad) <= 0
        BY DEF LeakInv, InLife, Removed
  <2>2. Bad = {}
        BY <2>1, FS_EmptySet, FS_CardinalityType
  <2>3. held = Nothing
    <3>1. pc \notin HandSteps
          BY DEF LedgerInv, Alive, HandSteps, CreateSteps, RecordSteps
    <3>   QED
          BY <3>1, EmptyHands DEF InHand
  <2>4. obj.made = Nothing
        BY DEF RemovalInv, NothingRecorded
  <2>5. Owned \subseteq Bad
        BY <2>3, <2>4, IdsAssumption DEF Nothing, TypeOK, Owned, Bad, Stray, Exists, Res
  <2>   QED
        BY <2>2, <2>5
<1>   QED
      BY <1>1, TypeCorrect, HandsTracked, LedgerKept, RemovalKept, LeakKept, PTL

(* Without a fault, and with a copy that names what the object names, the   *)
(* order of the removal is an order in which nothing is refused.           *)
THEOREM RemovalInOrder == Spec => []CleanupInOrder
<1>1. LeakFacts /\ LeakInv => CleanupInOrder
  <2> SUFFICES ASSUME LeakFacts, LeakInv, pc = "cleanup", faults = 0, local.made = obj.made,
                      NEW k \in Networks, Turn(k), Cleared(k), Exists(Mine(k)),
                      NEW c \in Res, <<c, Mine(k)>> \in uses
               PROVE  FALSE
      BY DEF CleanupInOrder, InUse
  <2>1. Mine(k) \in Refs /\ Target(k) \in Ids
        BY IdsAssumption DEF Exists, Mine, Target, Res, Refs, LeakFacts, Facts, TypeOK, Object, Turn
  <2>2. Exists(c) /\ <<c[1], k>> \in Uses /\ c[2] # User
        BY <2>1, IdsAssumption DEF LeakFacts, UsesKept, Mine
  <2>3. c[1] \in Kinds /\ c[2] \in Ids /\ c = <<c[1], c[2]>> /\ c[1] # "eip"
        BY <2>2 DEF Res, Uses
  <2>4. c[2] = obj.made[c[1]]
    <3>1. InLife
      <4>1. obj.deleting
            BY DEF LeakFacts, Facts, Tracked, DeletionKept, RemoveSteps
      <4>   QED
            BY <4>1 DEF LeakFacts, LedgerInv, FinalizerFirst, InLife
    <3>2. <<c[1], c[2]>> \notin Bad
          BY <2>3, <3>1 DEF LeakInv
    <3>3. held = Nothing
          BY EmptyHands DEF LeakFacts, Facts, InHand, HandSteps
    <3>   QED
          BY <2>2, <2>3, <3>2, <3>3, IdsAssumption DEF Bad, Stray, Nothing
  <2>5. local.made[c[1]] # None
        BY <2>3, <2>4, IdsAssumption
  <2>6. /\ local.made["cluster"] = None
        /\ local.made["snat"] # None => local.made["nat"] # None
        BY DEF LeakFacts, Facts, RemovalInv, CleanedUp, GatewayFirst, RuleHasGateway
  <2>7. CASE k = "nat"
        BY <2>2, <2>3, <2>7 DEF Uses, Cleared, Rules
  <2>8. CASE k \in {"eip", "snatEip", "subnet", "vpc"}
    <3>1. k # "eip" => local.made["nat"] = None
          BY <2>8 DEF Turn, Target, Before
    <3>2. k = "vpc" => local.made["subnet"] = None
          BY DEF Turn, Target, Before
    <3>   QED
          BY <2>2, <2>5, <2>6, <2>8, <3>1, <3>2 DEF Uses
  <2>   QED
        BY <2>7, <2>8 DEF Networks, Before
<1>   QED
      BY <1>1, TypeCorrect, CopiesTracked, HandsTracked, RemovalKept, LedgerKept, SupportKept,
         LeakKept, PTL DEF LeakFacts, Facts, Support
=============================================================================
