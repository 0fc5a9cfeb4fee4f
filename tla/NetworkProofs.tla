---------------------------- MODULE NetworkProofs ----------------------------
(* Proofs about the network a cluster is given: what the user provided      *)
(* survives the configuration, the network that the removal will delete is  *)
(* the recorded one, the cluster runs in it, and nothing that the object    *)
(* names is made twice.                                                     *)
EXTENDS LedgerProofs

UserResources == {<<"vpc", User>>, <<"subnet", User>>}

LEMMA UserKeptByFrame ==
    ASSUME UserNetworkKept, \A r \in UserResources : cloud'[r] = cloud[r]
    PROVE  UserNetworkKept'
BY DEF UserNetworkKept, UserResources

LEMMA VanishKeeps ==
    ASSUME UserNetworkKept, NEW R, Vanish(R), R \cap UserResources = {}
    PROVE  UserNetworkKept'
<1>1. UserResources \subseteq Res
      BY DEF UserResources, Res, Kinds
<1>2. \A r \in UserResources : cloud'[r] = cloud[r]
      BY <1>1 DEF Vanish
<1>   QED
      BY <1>2, UserKeptByFrame

LEMMA RequestKeeps ==
    ASSUME TypeOK, UserNetworkKept, NEW k, NEW state, NEW parents, NEW next,
           Request(k, state, parents, next)
    PROVE  UserNetworkKept'
<1>1. PICK i : i = NewId(k)
      OBVIOUS
<1>2. i \in Ids /\ i # User
      BY <1>1, NewIdFresh, IdsAssumption DEF Request
<1>3. cloud' = [cloud EXCEPT ![<<k, i>>] = state]
      BY <1>1 DEF Request
<1>4. \A r \in UserResources : r \in Res /\ r # <<k, i>>
      BY <1>2 DEF UserResources, Res, Kinds
<1>5. \A r \in UserResources : cloud'[r] = cloud[r]
      BY <1>3, <1>4 DEF TypeOK
<1>   QED
      BY <1>5, UserKeptByFrame

LEMMA CreatingKeeps == ASSUME TypeOK, UserNetworkKept, Creating PROVE UserNetworkKept'
<1>1. CASE UNCHANGED cloud
      BY <1>1, UserKeptByFrame
<1>2. CASE \E k, state, parents, next : Request(k, state, parents, next)
      BY <1>2, RequestKeeps
<1>   QED
      BY <1>1, <1>2, CreatingCloud

LEMMA RemovingKeeps == ASSUME TypeOK, UserNetworkKept, Removing PROVE UserNetworkKept'
<1>1. CASE \/ EnsureDeletable \/ ClearExternalIP \/ DeleteEndpointService
           \/ ForgetNetworkResource \/ CleanupDone \/ RemoveFinalizer \/ RemoveFails
      BY <1>1, UserKeptByFrame
      DEF EnsureDeletable, ClearExternalIP, DeleteEndpointService, ForgetNetworkResource,
          CleanupDone, RemoveFinalizer, RemoveFails, fabric
<1>2. CASE DeleteCCECluster
  <2>1. \A r \in UserResources : r \in Res /\ r # MyCluster
        BY DEF UserResources, Res, Kinds, MyCluster
  <2>2. \A r \in UserResources : cloud'[r] = cloud[r]
        BY <1>2, <2>1 DEF DeleteCCECluster, TypeOK
  <2>   QED
        BY <2>2, UserKeptByFrame
<1>3. CASE DeleteSnatRules
  <2>1. PICK r \in Rules : Vanish({r})
        BY <1>3 DEF DeleteSnatRules
  <2>2. {r} \cap UserResources = {}
        BY <2>1 DEF Rules, UserResources
  <2>   QED
        BY <2>1, <2>2, VanishKeeps
<1>4. CASE DeleteNetworkResource
  <2>1. CASE UNCHANGED cloud
        BY <2>1, UserKeptByFrame
  <2>2. CASE \E k \in Networks : Vanish({Mine(k)})
    <3>1. PICK k \in Networks : Vanish({Mine(k)})
          BY <2>2
    <3>2. k \in Kinds
          BY DEF Networks, Before, Kinds
    <3>3. local.made[k] # User
          BY <3>2, IdsAssumption DEF TypeOK, Object
    <3>4. {Mine(k)} \cap UserResources = {}
          BY <3>3 DEF Mine, Target, UserResources
    <3>   QED
          BY <3>1, <3>4, VanishKeeps
  <2>   QED
        BY <1>4, <2>1, <2>2 DEF DeleteNetworkResource
<1>   QED
      BY <1>1, <1>2, <1>3, <1>4 DEF Removing

LEMMA EnvironmentKeeps == ASSUME TypeOK, UserNetworkKept, Environment PROVE UserNetworkKept'
<1>1. CASE Inform \/ UserEdits \/ UserDeletes \/ NodesChange \/ NodesSettle \/ Crash
      BY <1>1, UserKeptByFrame
      DEF Inform, UserEdits, UserDeletes, NodesChange, NodesSettle, Crash, fabric
<1>2. CASE ClusterSettles
  <2>1. PICK i \in Ids, s \in States : cloud' = [cloud EXCEPT ![<<"cluster", i>>] = s]
        BY <1>2 DEF ClusterSettles, States, Here
  <2>2. \A r \in UserResources : r \in Res /\ r # <<"cluster", i>>
        BY DEF UserResources, Res, Kinds
  <2>3. \A r \in UserResources : cloud'[r] = cloud[r]
        BY <2>1, <2>2 DEF TypeOK
  <2>   QED
        BY <2>3, UserKeptByFrame
<1>3. CASE ClusterVanishes
  <2>1. PICK i \in Ids : Vanish({<<"cluster", i>>})
        BY <1>3 DEF ClusterVanishes
  <2>2. {<<"cluster", i>>} \cap UserResources = {}
        BY DEF UserResources
  <2>   QED
        BY <2>1, <2>2, VanishKeeps
<1>   QED
      BY <1>1, <1>2, <1>3 DEF Environment

(* No failure, crash, stale copy or deletion makes the operator delete the *)
(* VPC or the subnet that the user brought along.                          *)
THEOREM UserNetworkSafe == Spec => []UserNetworkKept
<1>1. Init => UserNetworkKept
  <2>1. UserResources \subseteq Res
        BY DEF UserResources, Res, Kinds
  <2>   QED
        BY <2>1 DEF Init, UserNetworkKept, UserResources
<1>2. TypeOK /\ UserNetworkKept /\ [Next]_vars => UserNetworkKept'
  <2> SUFFICES ASSUME TypeOK, UserNetworkKept, [Next]_vars PROVE UserNetworkKept'
      OBVIOUS
  <2>1. CASE UNCHANGED vars
        BY <2>1, UserKeptByFrame DEF vars, fabric
  <2>2. CASE OnCCEConfigChanged \/ RecordError \/ SyncEndFails \/ AddFinalizer \/ RemoveAtOnce
        BY <2>2, UserKeptByFrame
        DEF OnCCEConfigChanged, RecordError, SyncEndFails, AddFinalizer, RemoveAtOnce, Quiet, fabric
  <2>   QED
        BY <2>1, <2>2, CreatingKeeps, RemovingKeeps, EnvironmentKeeps
        DEF Next, Worker, Environment
<1>   QED
      BY <1>1, <1>2, TypeCorrect, PTL DEF Spec

-----------------------------------------------------------------------------
(* The steps of a life that nobody has ended: requests, records, and steps  *)
(* aside, which leave the record as it is.                                  *)

Requesting ==
    \/ CreateClusterEIP \/ CreateVPC \/ CreateSubnet \/ CreateNatGateway
    \/ CreateSnatRule \/ FindCluster \/ CreateCluster

Recording ==
    \/ RecordClusterEIP \/ RecordAddress \/ RecordNetworkStatus \/ RecordNetworkSpec
    \/ RecordNat \/ RecordSnatEIP \/ RecordSnat \/ RecordCluster \/ RecordPhase

(* What is in the cloud, and what has ever been there. *)
SamePresence ==
    \A r \in Res : /\ cloud'[r] \in Here <=> cloud[r] \in Here
                   /\ cloud'[r] = "none" <=> cloud[r] = "none"

(* The worker stays where it is, or turns away with empty hands. *)
TurnsAway ==
    \/ pc' = pc /\ held' = held
    \/ pc' \notin CreateSteps \ {"eip"} /\ held' = Nothing

Aside == SameRecord /\ SamePresence /\ uses' = uses /\ TurnsAway

LEMMA DeletionStays ==
    ASSUME TypeOK, Tracked, Removing PROVE obj.deleting /\ obj'.deleting
<1>1. obj.deleting
  <2>1. pc \in RemoveSteps
        BY DEF Removing, EnsureDeletable, DeleteCCECluster, ClearExternalIP, DeleteSnatRules,
               DeleteEndpointService, DeleteNetworkResource, ForgetNetworkResource,
               CleanupDone, RemoveFinalizer, RemoveFails, RemoveSteps
  <2>   QED
        BY <2>1 DEF Tracked, DeletionKept
<1>2. ASSUME NEW o, NEW next, o.deleting = local.deleting, UpdateOrGiveUp(o, next)
      PROVE  obj'.deleting
  <2>1. "local" \in current => local = obj
        BY DEF Tracked, CopiesAgree
  <2>   QED
        BY <1>1, <1>2, <2>1 DEF UpdateOrGiveUp, Store, GiveUp, Stay
<1>3. CASE \/ EnsureDeletable \/ DeleteSnatRules \/ DeleteEndpointService
           \/ DeleteNetworkResource \/ CleanupDone \/ RemoveFails
      BY <1>1, <1>3 DEF EnsureDeletable, DeleteSnatRules, DeleteEndpointService,
                        DeleteNetworkResource, CleanupDone, RemoveFails, GiveUp, Stay, store
<1>4. CASE DeleteCCECluster
  <2>1. CASE UpdateOrGiveUp([local EXCEPT !.made["cluster"] = None], "clearExt")
    <3>1. [local EXCEPT !.made["cluster"] = None].deleting = local.deleting
          BY DEF TypeOK, Object
    <3>   QED
          BY <1>1, <2>1, <3>1, <1>2
  <2>2. CASE UNCHANGED <<store, local>>
        BY <1>1, <2>2 DEF store
  <2>   QED
        BY <1>4, <2>1, <2>2 DEF DeleteCCECluster
<1>5. CASE ClearExternalIP
  <2>1. [local EXCEPT !.ext = FALSE].deleting = local.deleting
        BY DEF TypeOK, Object
  <2>   QED
        BY <1>1, <1>5, <2>1, <1>2 DEF ClearExternalIP
<1>6. CASE ForgetNetworkResource
  <2>1. \A K : [local EXCEPT !.made = Without(K)].deleting = local.deleting
        BY DEF TypeOK, Object
  <2>   QED
        BY <1>1, <1>6, <2>1, <1>2 DEF ForgetNetworkResource
<1>7. CASE RemoveFinalizer
  <2>1. [local EXCEPT !.exists = FALSE].deleting = local.deleting
        BY DEF TypeOK, Object
  <2>   QED
        BY <1>1, <1>7, <2>1, <1>2 DEF RemoveFinalizer
<1>   QED
      BY <1>1, <1>3, <1>4, <1>5, <1>6, <1>7 DEF Removing

LEMMA RecordFacts ==
    ASSUME NEW at, NEW o, NEW done, NEW next, Record(at, o, done, next)
    PROVE  /\ pc = at /\ pc' = next /\ obj' = o
           /\ held' = [k \in Kinds |-> IF k \in done THEN None ELSE held[k]]
           /\ UNCHANGED <<cloud, uses, faults, edits>> /\ obj.exists
BY DEF Record, Store, Proceed, Quiet, fabric

(* What a record makes of the object. *)
Writes(at, next, done, made, ext, vpc, subnet) ==
    /\ pc = at /\ pc' = next
    /\ obj'.made = made /\ obj'.ext = ext /\ obj'.vpc = vpc /\ obj'.subnet = subnet
    /\ held' = [k \in Kinds |-> IF k \in done THEN None ELSE held[k]]

WritesOne(at, k, next) == Writes(at, next, {k}, Name(k), obj.ext, obj.vpc, obj.subnet)

Recorded ==
    \/ Writes("eipRecord", "network", {"eip"}, Name("eip"), TRUE, obj.vpc, obj.subnet)
    \/ Writes("extRecord", "network", {}, obj.made, TRUE, obj.vpc, obj.subnet)
    \/ Writes("netStatus", "netSpec", {}, NetworkStatus, obj.ext, obj.vpc, obj.subnet)
    \/ Writes("netSpec", "nat", {"vpc", "subnet"}, obj.made, obj.ext,
              IF held["vpc"] # None THEN held["vpc"] ELSE obj.vpc, held["subnet"])
    \/ WritesOne("natRecord", "nat", "snat")
    \/ WritesOne("snatEipRecord", "snatEip", "snat")
    \/ WritesOne("snatRecord", "snat", "cluster")
    \/ WritesOne("clusterRecord", "cluster", "phaseRecord")
    \/ Writes("phaseRecord", "report", {}, obj.made, obj.ext, obj.vpc, obj.subnet)

LEMMA RecordingWrites ==
    ASSUME TypeOK, Recording
    PROVE  /\ Recorded
           /\ SameLife /\ obj.exists /\ obj'.finalizer = obj.finalizer
           /\ UNCHANGED <<cloud, uses, faults, edits>>
<1> DEFINE Else == /\ SameLife /\ obj.exists /\ obj'.finalizer = obj.finalizer
                   /\ UNCHANGED <<cloud, uses, faults, edits>>
<1> USE DEF TypeOK, Object, SameLife
<1>1. CASE RecordClusterEIP
  <2>1. obj' = [obj EXCEPT !.made = Name("eip"), !.ext = TRUE]
        BY <1>1, RecordFacts DEF RecordClusterEIP
  <2>2. Writes("eipRecord", "network", {"eip"}, Name("eip"), TRUE, obj.vpc, obj.subnet) /\ Else
        BY <1>1, <2>1, RecordFacts DEF RecordClusterEIP, Writes
  <2>   QED
        BY <2>2 DEF Recorded
<1>2. CASE RecordAddress
  <2>1. obj' = [obj EXCEPT !.ext = TRUE]
        BY <1>2, RecordFacts DEF RecordAddress
  <2>2. Writes("extRecord", "network", {}, obj.made, TRUE, obj.vpc, obj.subnet) /\ Else
        BY <1>2, <2>1, RecordFacts DEF RecordAddress, Writes
  <2>   QED
        BY <2>2 DEF Recorded
<1>3. CASE RecordNetworkStatus
  <2>1. obj' = [obj EXCEPT !.made = NetworkStatus]
        BY <1>3, RecordFacts DEF RecordNetworkStatus
  <2>2. Writes("netStatus", "netSpec", {}, NetworkStatus, obj.ext, obj.vpc, obj.subnet) /\ Else
        BY <1>3, <2>1, RecordFacts DEF RecordNetworkStatus, Writes
  <2>   QED
        BY <2>2 DEF Recorded
<1>4. CASE RecordNetworkSpec
  <2> DEFINE home == IF held["vpc"] # None THEN held["vpc"] ELSE obj.vpc
  <2>1. obj' = [obj EXCEPT !.subnet = held["subnet"], !.vpc = home]
        BY <1>4, RecordFacts DEF RecordNetworkSpec
  <2>2. Writes("netSpec", "nat", {"vpc", "subnet"}, obj.made, obj.ext, home, held["subnet"]) /\ Else
    <3> HIDE DEF home
    <3>   QED
          BY <1>4, <2>1, RecordFacts DEF RecordNetworkSpec, Writes
  <2>   QED
        BY <2>2 DEF Recorded
<1>5. ASSUME NEW at, NEW k, NEW next, Record(at, [obj EXCEPT !.made = Name(k)], {k}, next)
      PROVE  WritesOne(at, k, next) /\ Else
  <2>1. obj' = [obj EXCEPT !.made = Name(k)]
        BY <1>5, RecordFacts
  <2>   QED
        BY <1>5, <2>1, RecordFacts DEF WritesOne, Writes
<1>6. CASE RecordNat \/ RecordSnatEIP \/ RecordSnat \/ RecordCluster
      BY <1>5, <1>6 DEF RecordNat, RecordSnatEIP, RecordSnat, RecordCluster, Recorded
<1>7. CASE RecordPhase
  <2>1. obj' = [obj EXCEPT !.phase = "creating", !.failed = FALSE]
        BY <1>7, RecordFacts DEF RecordPhase
  <2>2. Writes("phaseRecord", "report", {}, obj.made, obj.ext, obj.vpc, obj.subnet) /\ Else
        BY <1>7, <2>1, RecordFacts DEF RecordPhase, Writes
  <2>   QED
        BY <2>2 DEF Recorded
<1>   QED
      BY <1>1, <1>2, <1>3, <1>4, <1>6, <1>7 DEF Recording

(* What a request makes of the cloud; the parents in terms of the object,  *)
(* which create() knows.                                                   *)
Appears(k, i, state, parents) ==
    /\ cloud[<<k, i>>] = "none"
    /\ cloud' = [r \in Res |-> IF r = <<k, i>> THEN state ELSE cloud[r]]
    /\ uses' = uses \cup ({<<k, i>>} \X parents)

Brings(k, i, next) == held' = [held EXCEPT ![k] = i] /\ pc' = next /\ faults' = faults
Loses              == held' = Nothing /\ pc' = "report" /\ faults' = faults + 1

Asks(at, k, state, parents, next) ==
    /\ pc = at
    /\ \E i \in Ids : Appears(k, i, state, parents) /\ (Brings(k, i, next) \/ Loses)

HomeVPC == IF held["vpc"] # None THEN held["vpc"] ELSE obj.vpc

RuleParents ==
    {<<"nat", obj.made["nat"]>>} \cup
    (IF want.nat = "create" THEN {<<"snatEip", obj.made["snatEip"]>>} ELSE {})

MyParents ==
    {<<"subnet", obj.subnet>>} \cup
    (IF obj.made["eip"] # None THEN {<<"eip", obj.made["eip"]>>} ELSE {})

Asked ==
    \/ ~obj.ext /\ Asks("eip", "eip", "live", {}, "eipRecord")
    \/ obj.vpc = None /\ Asks("network", "vpc", "live", {}, "subnet")
    \/ Asks("subnet", "subnet", "live", {<<"vpc", HomeVPC>>}, "netStatus")
    \/ obj.made["nat"] = None /\ Asks("nat", "nat", "live", {<<"subnet", obj.subnet>>}, "natRecord")
    \/ obj.made["snatEip"] = None /\ Asks("snat", "snatEip", "live", {}, "snatEipRecord")
    \/ obj.made["snat"] = None /\ Asks("snat", "snat", "live", RuleParents, "snatRecord")
    \/ Asks("newCluster", "cluster", "creating", MyParents, "clusterRecord")

(* A request that there is no need for. *)
Passes(at, next) == pc = at /\ pc' = next /\ held' = held

Passed ==
    \/ Passes("eip", "extRecord") \/ Passes("eip", "network")
    \/ obj.vpc # None /\ obj.subnet = None /\ Passes("network", "subnet")
    \/ obj.vpc # None /\ obj.subnet # None /\ Passes("network", "nat")
    \/ Passes("nat", "snat") \/ Passes("snat", "cluster")
    \/ /\ obj.made["cluster"] # None /\ Exists(<<"cluster", obj.made["cluster"]>>)
       /\ Passes("cluster", "adopt")
    \/ /\ \/ obj.made["cluster"] = None
          \/ ~Exists(<<"cluster", obj.made["cluster"]>>)
          \/ faults' = faults + 1
       /\ Passes("cluster", "newCluster")

LEMMA RequestAsks ==
    ASSUME TypeOK, NEW at, pc = at, NEW k \in Kinds, NEW state, NEW parents, NEW next,
           Request(k, state, parents, next)
    PROVE  Asks(at, k, state, parents, next)
<1> DEFINE i == NewId(k)
<1>1. i \in Ids /\ cloud[<<k, i>>] = "none" /\ <<k, i>> \in Res
      BY NewIdFresh DEF Request, Res
<1>2. cloud' = [cloud EXCEPT ![<<k, i>>] = state] /\ uses' = uses \cup ({<<k, i>>} \X parents)
      BY DEF Request
<1>3. \/ held' = [held EXCEPT ![k] = i] /\ pc' = next /\ UNCHANGED faults
      \/ Fault("reply") /\ Abandon
      BY DEF Request
<1> HIDE DEF i
<1>4. cloud' = [r \in Res |-> IF r = <<k, i>> THEN state ELSE cloud[r]]
      BY <1>1, <1>2 DEF TypeOK
<1>   QED
      BY <1>1, <1>2, <1>3, <1>4 DEF Asks, Appears, Brings, Loses, Fault, Abandon

LEMMA RequestingAsks ==
    ASSUME TypeOK, InHand, Requesting
    PROVE  /\ Asked \/ (Passed /\ UNCHANGED <<cloud, uses>>)
           /\ UNCHANGED <<obj, edits>>
<1>1. /\ UNCHANGED <<obj, edits>>
      /\ local.made = obj.made /\ local.ext = obj.ext
      /\ local.vpc = obj.vpc /\ local.subnet = obj.subnet
      BY DEF Requesting, CreateClusterEIP, CreateVPC, CreateSubnet, CreateNatGateway,
             CreateSnatRule, FindCluster, CreateCluster, QuietCreate, store,
             InHand, LocalKnown, CreateSteps, RecordSteps
<1>2. \A k \in {"eip", "vpc", "subnet", "nat", "snatEip", "snat", "cluster"} : k \in Kinds
      BY DEF Kinds
<1>3. CASE CreateClusterEIP
  <2>1. CASE NeedEIP /\ Request("eip", "live", {}, "eipRecord")
        BY <1>1, <1>2, <1>3, <2>1, RequestAsks DEF CreateClusterEIP, NeedEIP, Asked
  <2>   QED
        BY <1>1, <1>3, <2>1 DEF CreateClusterEIP, Skip, Passed, Passes
<1>4. CASE CreateVPC
  <2>1. CASE local.vpc = None /\ Request("vpc", "live", {}, "subnet")
        BY <1>1, <1>2, <1>4, <2>1, RequestAsks DEF CreateVPC, Asked
  <2>   QED
        BY <1>1, <1>4, <2>1 DEF CreateVPC, Skip, Passed, Passes
<1>5. CASE CreateSubnet
  <2>1. SubnetVPC = HomeVPC
        BY <1>1 DEF SubnetVPC, HomeVPC
  <2>   QED
        BY <1>1, <1>2, <1>5, <2>1, RequestAsks DEF CreateSubnet, Asked
<1>6. CASE CreateNatGateway
  <2>1. CASE NeedNat /\ Request("nat", "live", {<<"subnet", local.subnet>>}, "natRecord")
        BY <1>1, <1>2, <1>6, <2>1, RequestAsks DEF CreateNatGateway, NeedNat, Asked
  <2>   QED
        BY <1>1, <1>6, <2>1 DEF CreateNatGateway, Skip, Passed, Passes
<1>7. CASE CreateSnatRule
  <2>1. CASE NeedSnatEIP /\ Request("snatEip", "live", {}, "snatEipRecord")
        BY <1>1, <1>2, <1>7, <2>1, RequestAsks DEF CreateSnatRule, NeedSnatEIP, Asked
  <2>2. CASE NeedSnat /\ Request("snat", "live", SnatParents, "snatRecord")
    <3>1. SnatParents = RuleParents
          BY <1>1 DEF SnatParents, RuleParents
    <3>   QED
          BY <1>1, <1>2, <1>7, <2>2, <3>1, RequestAsks DEF CreateSnatRule, NeedSnat, Asked
  <2>   QED
        BY <1>1, <1>7, <2>1, <2>2 DEF CreateSnatRule, Skip, Passed, Passes
<1>8. CASE FindCluster
  <2> DEFINE known == /\ obj.made["cluster"] # None
                      /\ Exists(<<"cluster", obj.made["cluster"]>>)
  <2>1. CASE known /\ Skip("adopt")
        BY <1>1, <1>8, <2>1 DEF FindCluster, Skip, Passed, Passes
  <2>2. CASE ~known /\ Skip("newCluster")
        BY <1>1, <1>8, <2>2 DEF FindCluster, Skip, Passed, Passes
  <2>3. CASE Fault("call") /\ pc' = "newCluster" /\ UNCHANGED <<held, cloud, uses>>
        BY <1>1, <1>8, <2>3 DEF FindCluster, Fault, Passed, Passes
  <2>   QED
        BY <1>1, <1>8, <2>1, <2>2, <2>3 DEF FindCluster
<1>9. CASE CreateCluster
  <2>1. ClusterParents = MyParents
        BY <1>1 DEF ClusterParents, MyParents
  <2>   QED
        BY <1>1, <1>2, <1>9, <2>1, RequestAsks DEF CreateCluster, Asked
<1>   QED
      BY <1>1, <1>3, <1>4, <1>5, <1>6, <1>7, <1>8, <1>9 DEF Requesting

(* A write of the worker's copy that is accepted starts from the stored    *)
(* object.                                                                 *)
LEMMA SaveMessageSame ==
    ASSUME TypeOK, Tracked, NEW e, NEW next, NEW fallback, SaveMessage(e, next, fallback)
    PROVE  SameRecord /\ SameLife /\ pc' \in {next, fallback}
<1>1. CASE "local" \in current /\ Store([local EXCEPT !.failed = e], next)
  <2>1. local = obj
        BY <1>1 DEF Tracked, CopiesAgree
  <2>2. obj' = [obj EXCEPT !.failed = e]
        BY <1>1, <2>1 DEF Store
  <2>   QED
        BY <1>1, <2>2 DEF TypeOK, Object, SameRecord, SameLife, Store, Proceed
<1>2. CASE Stay(next) \/ Stay(fallback)
      BY <1>2 DEF Stay, Proceed, SameRecord, SameLife
<1>   QED
      BY <1>1, <1>2 DEF SaveMessage

LEMMA UpdatePhaseSame ==
    ASSUME TypeOK, Tracked, NEW p, NEW next, UpdateCopy([local EXCEPT !.phase = p], next)
    PROVE  SameRecord /\ SameLife /\ pc' \in {next, "lost"}
<1>1. CASE "local" \in current /\ Store([local EXCEPT !.phase = p], next)
  <2>1. local = obj
        BY <1>1 DEF Tracked, CopiesAgree
  <2>2. obj' = [obj EXCEPT !.phase = p]
        BY <1>1, <2>1 DEF Store
  <2>   QED
        BY <1>1, <2>2 DEF TypeOK, Object, SameRecord, SameLife, Store, Proceed
<1>2. CASE pc' = "lost" /\ UNCHANGED <<store, local>>
      BY <1>2 DEF store, SameRecord, SameLife
<1>   QED
      BY <1>1, <1>2 DEF UpdateCopy

(* The steps of a sync that only look, or save a message, a phase or the   *)
(* finalizer.                                                              *)
QuietSync ==
    \/ OnCCEConfigChanged \/ RecordError \/ AddFinalizer \/ RemoveAtOnce
    \/ ValidateCreate \/ WaitForCreationComplete \/ AdoptCluster \/ SetRunning

LEMMA QuietSyncSame ==
    ASSUME TypeOK, Tracked, InHand, QuietSync
    PROVE  /\ SameRecord /\ SameLife /\ UNCHANGED <<cloud, uses, held>> /\ held = Nothing
           /\ pc \notin HandSteps /\ pc' \notin CreateSteps \ {"eip"}
<1>1. SameRecord /\ SameLife /\ pc \notin HandSteps /\ pc' \notin CreateSteps \ {"eip"}
  <2> USE DEF HandSteps, CreateSteps, RecordSteps, QuietSync
  <2>1. CASE OnCCEConfigChanged
    <3>1. obj' = obj /\ pc = "idle" /\ pc' = Dispatch(cache)
          BY <2>1 DEF OnCCEConfigChanged, Proceed
    <3>2. Dispatch(cache) \in {"idle", "clear", "validate", "wait", "report"}
          BY DEF Dispatch, TypeOK, Object, Phases
    <3>   QED
          BY <3>1, <3>2 DEF SameRecord, SameLife
  <2>2. CASE RecordError
    <3>1. CASE pc = "report" /\ SaveMessage(err, "finalizer", "lost")
          BY <3>1, SaveMessageSame
    <3>2. CASE /\ pc = "clear"
               /\ LET next == IF local.finalizer THEN "ensure" ELSE "idle"
                  IN  SaveMessage(FALSE, next, next)
      <4>1. PICK next \in {"ensure", "idle"} : SaveMessage(FALSE, next, next)
            BY <3>2
      <4>   QED
            BY <3>2, <4>1, SaveMessageSame
    <3>   QED
          BY <2>2, <3>1, <3>2 DEF RecordError
  <2>3. CASE AddFinalizer
    <3>1. CASE Store([obj EXCEPT !.finalizer = TRUE], "idle")
      <4>1. obj' = [obj EXCEPT !.finalizer = TRUE] /\ pc' = "idle"
            BY <3>1 DEF Store, Proceed
      <4>2. SameRecord /\ SameLife
            BY <4>1 DEF TypeOK, Object, SameRecord, SameLife
      <4>   QED
            BY <2>3, <4>1, <4>2 DEF AddFinalizer
    <3>2. CASE Stay("idle")
          BY <2>3, <3>2 DEF AddFinalizer, Stay, Proceed, SameRecord, SameLife
    <3>   QED
          BY <2>3, <3>1, <3>2 DEF AddFinalizer
  <2>4. CASE RemoveAtOnce
        BY <2>4 DEF RemoveAtOnce, Stay, Proceed, SameRecord, SameLife
  <2>5. CASE ValidateCreate
        BY <2>5 DEF ValidateCreate, Abandon, SameRecord, SameLife
  <2>6. CASE WaitForCreationComplete
        BY <2>6 DEF WaitForCreationComplete, Abandon, SameRecord, SameLife, store
  <2>7. CASE AdoptCluster
        BY <2>7, UpdatePhaseSame DEF AdoptCluster
  <2>8. CASE SetRunning
        BY <2>8, UpdatePhaseSame DEF SetRunning
  <2>   QED
        BY <2>1, <2>2, <2>3, <2>4, <2>5, <2>6, <2>7, <2>8
<1>2. held = Nothing
      BY <1>1, EmptyHands DEF InHand
<1>3. held' = held
      BY <1>2 DEF QuietSync, OnCCEConfigChanged, RecordError, AddFinalizer, RemoveAtOnce, ValidateCreate,
                  WaitForCreationComplete, AdoptCluster, SetRunning, Abandon
<1>4. cloud' = cloud
      BY DEF QuietSync, OnCCEConfigChanged, RecordError, AddFinalizer, RemoveAtOnce, ValidateCreate,
             WaitForCreationComplete, AdoptCluster, SetRunning, Quiet, fabric
<1>5. uses' = uses
      BY DEF QuietSync, OnCCEConfigChanged, RecordError, AddFinalizer, RemoveAtOnce, ValidateCreate,
             WaitForCreationComplete, AdoptCluster, SetRunning, Quiet, fabric
<1>   QED
      BY <1>1, <1>2, <1>3, <1>4, <1>5

(* Before a deletion, what is neither a request nor a record leaves the    *)
(* record alone and takes nothing from the cloud.                          *)
LEMMA LifeSteps ==
    ASSUME TypeOK, Tracked, InHand, LedgerInv, [Next]_vars, ~obj.deleting \/ ~obj'.deleting
    PROVE  ~obj.deleting /\ (Aside \/ Requesting \/ Recording)
<1>1. CASE UNCHANGED vars
      BY <1>1 DEF vars, store, worker, fabric, Aside, SameRecord, SamePresence, TurnsAway
<1>2. CASE Removing
      BY <1>2, DeletionStays
<1>3. CASE QuietSync
      BY <1>3, QuietSyncSame DEF Aside, SameLife, SamePresence, TurnsAway
<1>4. CASE CallFails \/ WriteFails
  <2>1. obj' = obj /\ UNCHANGED <<cloud, uses>> /\ held' = Nothing /\ pc' \in {"report", "lost"}
        BY <1>4 DEF CallFails, WriteFails, Abandon, store, fabric
  <2>   QED
        BY <2>1 DEF Aside, SameRecord, SamePresence, TurnsAway, CreateSteps, RecordSteps
<1>5. CASE SyncEndFails
  <2>1. obj' = obj /\ UNCHANGED <<cloud, uses, held>> /\ pc \notin HandSteps /\ pc' \in {"lost", "idle"}
        BY <1>5 DEF SyncEndFails, Stay, Proceed, fabric, HandSteps
  <2>2. held = Nothing
        BY <2>1, EmptyHands DEF InHand
  <2>   QED
        BY <2>1, <2>2 DEF Aside, SameRecord, SamePresence, TurnsAway, CreateSteps, RecordSteps
<1>6. CASE Crash
  <2>1. obj' = obj /\ UNCHANGED <<cloud, uses>> /\ held' = Nothing /\ pc' = "idle"
        BY <1>6 DEF Crash, Proceed, fabric
  <2>   QED
        BY <2>1 DEF Aside, SameRecord, SamePresence, TurnsAway, CreateSteps, RecordSteps
<1>7. CASE Inform \/ UserEdits \/ NodesChange \/ NodesSettle
  <2>1. UNCHANGED <<obj, pc, held, cloud, uses>>
        BY <1>7 DEF Inform, UserEdits, NodesChange, NodesSettle, worker, fabric, store
  <2>   QED
        BY <2>1 DEF Aside, SameRecord, SamePresence, TurnsAway
<1>8. CASE UserDeletes
  <2>1. ~obj.deleting /\ SameRecord /\ UNCHANGED <<pc, held, cloud, uses>>
        BY <1>8 DEF UserDeletes, TypeOK, Object, SameRecord, worker, fabric
  <2>   QED
        BY <2>1 DEF Aside, SamePresence, TurnsAway
<1>9. CASE ClusterSettles
  <2>1. UNCHANGED <<obj, pc, held, uses>>
        BY <1>9 DEF ClusterSettles, worker, store
  <2>2. PICK i \in Ids, s \in {"live", "failed"} :
             /\ cloud[<<"cluster", i>>] = "creating"
             /\ cloud' = [cloud EXCEPT ![<<"cluster", i>>] = s]
        BY <1>9 DEF ClusterSettles
  <2>3. SamePresence
        BY <2>2 DEF TypeOK, SamePresence, Here
  <2>   QED
        BY <2>1, <2>3 DEF Aside, SameRecord, TurnsAway
<1>10. CASE ClusterVanishes
      BY <1>10 DEF ClusterVanishes, LedgerInv, DeletedByUs, store
<1>11. CASE Requesting
      BY <1>11 DEF Requesting, CreateClusterEIP, CreateVPC, CreateSubnet, CreateNatGateway,
                   CreateSnatRule, FindCluster, CreateCluster, QuietCreate, store
<1>12. CASE Recording
  <2>1. obj'.deleting = obj.deleting
        BY <1>12, RecordingWrites DEF SameLife
  <2>   QED
        BY <1>12, <2>1
<1>   QED
      BY <1>1, <1>2, <1>3, <1>4, <1>5, <1>6, <1>7, <1>8, <1>9, <1>10, <1>11, <1>12
      DEF Next, Worker, Creating, QuietSync, Requesting, Recording

-----------------------------------------------------------------------------
(* What is recorded of the network, while the configuration is not being   *)
(* deleted.                                                                *)

NetworkSteps == {"subnet", "netStatus", "netSpec"}
HomeSteps    == {"nat", "natRecord", "snat", "snatEipRecord", "snatRecord",
                 "cluster", "newCluster", "adopt", "clusterRecord"}

(* A recorded EIP has its address recorded, which create() looks at. *)
AddressKept == obj.made["eip"] # None => obj.ext

(* create() is at work on a network only when Spec lacks one; between the  *)
(* two writes that record it, Status names what the worker holds.          *)
NetworkAtHand ==
    /\ pc \in NetworkSteps => /\ obj.vpc = None \/ obj.subnet = None
                              /\ obj.vpc # None \/ held["vpc"] # None
    /\ pc = "netSpec" => /\ obj.made["subnet"] = held["subnet"]
                         /\ held["vpc"] # None => obj.made["vpc"] = held["vpc"]

(* Spec names an own VPC only together with the subnet in it, both as in   *)
(* Status.                                                                 *)
NetworkPaired ==
    /\ obj.vpc \in Ids => /\ obj.subnet # None
                         /\ obj.made["vpc"] = obj.vpc /\ obj.made["subnet"] = obj.subnet
    /\ NetworkAtHand

(* A subnet that is there, in its VPC. *)
In(s, v) == cloud[<<"subnet", s>>] \in Here /\ <<<<"subnet", s>>, <<"vpc", v>>>> \in uses

Lives(c) == <<<<"cluster", c>>, <<"subnet", obj.subnet>>>> \in uses

HomeKept ==
    /\ obj.vpc # None /\ obj.subnet # None => In(obj.subnet, obj.vpc)
    /\ pc \in {"netStatus", "netSpec"} => In(held["subnet"], HomeVPC)
    /\ pc \in HomeSteps \/ obj.made["cluster"] # None => obj.vpc # None /\ obj.subnet # None
    /\ obj.made["cluster"] # None => Lives(obj.made["cluster"])
    /\ pc = "clusterRecord" => Lives(held["cluster"])

NetworkInv == ~obj.deleting => AddressKept /\ NetworkPaired /\ HomeKept

NetworkGood == AddressKept /\ NetworkPaired /\ HomeKept

LEMMA SubnetRes ==
    ASSUME TypeOK, LedgerInv
    PROVE  /\ obj.subnet # None => <<"subnet", obj.subnet>> \in Res
           /\ pc \in {"netStatus", "netSpec"} => <<"subnet", held["subnet"]>> \in Res
BY DEF TypeOK, Object, LedgerInv, Handed, Res, Kinds

LEMMA AsideNetwork ==
    ASSUME TypeOK, LedgerInv, NetworkGood, Aside PROVE NetworkGood'
<1>1. \A s, v : In(s, v) /\ <<"subnet", s>> \in Res => In(s, v)'
      BY DEF In, Aside, SamePresence
<1>2. \A c : Lives(c) => Lives(c)'
      BY DEF Lives, Aside, SameRecord
<1>3. AddressKept' /\ NetworkPaired'
      BY DEF NetworkGood, AddressKept, NetworkPaired, NetworkAtHand, NetworkSteps, Aside, SameRecord, TurnsAway,
             CreateSteps, RecordSteps
<1>4. HomeKept'
  <2>1. CASE pc' = pc /\ held' = held
        BY <1>1, <1>2, <2>1, SubnetRes
        DEF NetworkGood, HomeKept, HomeVPC, HomeSteps, Aside, SameRecord
  <2>2. CASE pc' \notin CreateSteps \ {"eip"}
        BY <1>1, <1>2, <2>2, SubnetRes
        DEF NetworkGood, HomeKept, HomeSteps, Aside, SameRecord, CreateSteps, RecordSteps
  <2>   QED
        BY <2>1, <2>2 DEF Aside, TurnsAway
<1>   QED
      BY <1>3, <1>4 DEF NetworkGood

LEMMA PassedNetwork ==
    ASSUME NetworkGood, HeldByStep, Passed, UNCHANGED <<obj, cloud, uses>>
    PROVE  NetworkGood'
<1>1. AddressKept'
      BY DEF NetworkGood, AddressKept
<1>2. NetworkPaired'
      BY DEF NetworkGood, NetworkPaired, NetworkAtHand, Passed, Passes, HeldByStep, NetworkSteps
<1>3. HomeKept'
      BY DEF NetworkGood, HomeKept, Passed, Passes, HomeSteps, In, Lives
<1>   QED
      BY <1>1, <1>2, <1>3 DEF NetworkGood

(* A request takes nothing away. *)
LEMMA AppearsKeeps ==
    ASSUME TypeOK, NEW k, NEW i, NEW state \in Here, NEW parents, Appears(k, i, state, parents)
    PROVE  /\ \A r \in Res : cloud[r] \in Here => cloud'[r] \in Here
           /\ uses \subseteq uses'
BY DEF Appears

Questions == {<<"eip", "eip", "eipRecord">>, <<"network", "vpc", "subnet">>,
              <<"subnet", "subnet", "netStatus">>, <<"nat", "nat", "natRecord">>,
              <<"snat", "snatEip", "snatEipRecord">>, <<"snat", "snat", "snatRecord">>,
              <<"newCluster", "cluster", "clusterRecord">>}

LEMMA AsksNetwork ==
    ASSUME TypeOK, LedgerInv, HeldByStep, NetworkGood, obj' = obj,
           NEW at, NEW k, NEW state \in Here, NEW parents, NEW next,
           Asks(at, k, state, parents, next), <<at, k, next>> \in Questions,
           k = "vpc" => obj.vpc = None,
           k = "subnet" => parents = {<<"vpc", HomeVPC>>},
           k = "cluster" => <<"subnet", obj.subnet>> \in parents
    PROVE  NetworkGood'
<1>1. PICK i \in Ids : Appears(k, i, state, parents) /\ (Brings(k, i, next) \/ Loses)
      BY DEF Asks
<1>2. pc = at /\ i # None /\ k \in Kinds /\ <<k, i>> \in Res
      BY IdsAssumption DEF Asks, Questions, Kinds, Res
<1>3. /\ \A s, v : In(s, v) /\ <<"subnet", s>> \in Res => In(s, v)'
      /\ \A c : Lives(c) => Lives(c)'
      BY <1>1, AppearsKeeps DEF In, Lives
<1>4. \A v : k = "subnet" /\ parents = {<<"vpc", v>>} => In(i, v)'
      BY <1>1, <1>2 DEF Appears, In
<1>5. k = "cluster" => Lives(i)'
      BY <1>1 DEF Appears, Lives
<1>6. CASE Loses
  <2>1. pc' = "report"
        BY <1>6 DEF Loses
  <2>2. AddressKept' /\ NetworkPaired'
        BY <2>1 DEF NetworkGood, AddressKept, NetworkPaired, NetworkAtHand, NetworkSteps
  <2>3. HomeKept'
        BY <1>3, <2>1, SubnetRes DEF NetworkGood, HomeKept, HomeSteps
  <2>   QED
        BY <2>2, <2>3 DEF NetworkGood
<1>7. CASE Brings(k, i, next)
  <2>1. /\ pc' = next /\ held'[k] = i
        /\ \A j \in Kinds : j # k => held'[j] = held[j]
        BY <1>2, <1>7 DEF Brings, TypeOK
  <2>2. AddressKept' /\ NetworkPaired'
        BY <1>2, <2>1 DEF NetworkGood, AddressKept, NetworkPaired, NetworkAtHand, NetworkSteps, Questions, Kinds, HeldByStep
  <2>3. k = "subnet" => HomeVPC' = HomeVPC
        BY <2>1 DEF HomeVPC, Kinds
  <2>4. pc' \in {"netStatus", "netSpec"} => In(held["subnet"], HomeVPC)'
        BY <1>4, <2>1, <2>3 DEF Questions, In
  <2>5. pc' = "clusterRecord" => Lives(held["cluster"])'
        BY <1>5, <2>1 DEF Questions, Lives
  <2>6. HomeKept'
        BY <1>2, <1>3, <2>1, <2>4, <2>5, SubnetRes DEF NetworkGood, HomeKept, HomeSteps, Questions
  <2>   QED
        BY <2>2, <2>6 DEF NetworkGood
<1>   QED
      BY <1>1, <1>6, <1>7

LEMMA AskedNetwork ==
    ASSUME TypeOK, LedgerInv, HeldByStep, NetworkGood, Asked, obj' = obj
    PROVE  NetworkGood'
<1>1. "live" \in Here /\ "creating" \in Here /\ <<"subnet", obj.subnet>> \in MyParents
      BY DEF Here, MyParents
<1>   QED
      BY <1>1, AsksNetwork DEF Asked, Questions

LEMMA RecordedNetwork ==
    ASSUME TypeOK, LedgerInv, HeldByStep, NetworkGood, Recorded, UNCHANGED <<cloud, uses>>
    PROVE  NetworkGood'
<1> USE DEF NetworkGood, Writes
<1>1. /\ {"eip", "vpc", "subnet", "nat", "snatEip", "snat", "cluster"} = Kinds
      /\ obj.made \in [Kinds -> Ids \cup {None}] /\ held \in [Kinds -> Ids \cup {None}]
      BY DEF Kinds, TypeOK, Object
<1>2. \A s, v : In(s, v)' <=> In(s, v)
      BY DEF In
<1>3. CASE \/ Writes("eipRecord", "network", {"eip"}, Name("eip"), TRUE, obj.vpc, obj.subnet)
           \/ Writes("extRecord", "network", {}, obj.made, TRUE, obj.vpc, obj.subnet)
           \/ WritesOne("natRecord", "nat", "snat")
           \/ WritesOne("snatEipRecord", "snatEip", "snat")
           \/ WritesOne("snatRecord", "snat", "cluster")
           \/ WritesOne("clusterRecord", "cluster", "phaseRecord")
           \/ Writes("phaseRecord", "report", {}, obj.made, obj.ext, obj.vpc, obj.subnet)
  <2> USE DEF WritesOne, Name
  <2>1. /\ obj'.vpc = obj.vpc /\ obj'.subnet = obj.subnet
        /\ obj'.made["vpc"] = obj.made["vpc"] /\ obj'.made["subnet"] = obj.made["subnet"]
        /\ pc' \notin NetworkSteps
        BY <1>1, <1>3 DEF NetworkSteps
  <2>2. AddressKept'
        BY <1>1, <1>3 DEF AddressKept
  <2>3. NetworkPaired'
        BY <2>1 DEF NetworkPaired, NetworkAtHand, NetworkSteps
  <2>4. pc \in HomeSteps \/ pc' \notin HomeSteps
        BY <1>3 DEF HomeSteps
  <2>5. pc' # "clusterRecord"
        BY <1>3
  <2>6. \/ obj'.made["cluster"] = obj.made["cluster"]
        \/ pc = "clusterRecord" /\ obj'.made["cluster"] = held["cluster"]
        BY <1>1, <1>3
  <2>7. pc = "clusterRecord" => pc \in HomeSteps
        BY DEF HomeSteps
  <2>8. HomeKept'
        BY <1>2, <2>1, <2>4, <2>5, <2>6, <2>7 DEF HomeKept, NetworkSteps, Lives
  <2>   QED
        BY <2>2, <2>3, <2>8
<1>4. CASE Writes("netStatus", "netSpec", {}, NetworkStatus, obj.ext, obj.vpc, obj.subnet)
  <2>1. /\ obj'.made["subnet"] = held["subnet"]
        /\ held["vpc"] # None => obj'.made["vpc"] = held["vpc"]
        /\ obj'.made["eip"] = obj.made["eip"] /\ obj'.made["cluster"] = obj.made["cluster"]
        BY <1>1, <1>4 DEF NetworkStatus
  <2>2. \A k \in Kinds : held'[k] = held[k]
        BY <1>4
  <2>3. obj.vpc = None \/ obj.subnet = None
        BY <1>4 DEF NetworkPaired, NetworkAtHand, NetworkSteps
  <2>4. AddressKept'
        BY <1>4, <2>1 DEF AddressKept
  <2>5. NetworkPaired'
        BY <1>1, <1>4, <2>1, <2>2, <2>3, IdsAssumption DEF NetworkPaired, NetworkAtHand, NetworkSteps
  <2>6. HomeVPC' = HomeVPC
        BY <1>1, <1>4, <2>2 DEF HomeVPC
  <2>7. HomeKept'
        BY <1>1, <1>2, <1>4, <2>1, <2>2, <2>3, <2>6 DEF HomeKept, HomeSteps, Lives, In
  <2>   QED
        BY <2>4, <2>5, <2>7
<1>5. CASE Writes("netSpec", "nat", {"vpc", "subnet"}, obj.made, obj.ext,
                  IF held["vpc"] # None THEN held["vpc"] ELSE obj.vpc, held["subnet"])
  <2>1. /\ obj'.vpc = HomeVPC /\ obj'.subnet = held["subnet"] /\ pc' = "nat"
        /\ obj'.made = obj.made /\ obj'.ext = obj.ext
        BY <1>5 DEF HomeVPC
  <2>2. held["subnet"] # None
        BY <1>5 DEF LedgerInv, Handed
  <2>3. obj.vpc = None \/ obj.subnet = None
        BY <1>5 DEF NetworkPaired, NetworkAtHand, NetworkSteps
  <2>4. HomeVPC # None
        BY <1>5 DEF NetworkPaired, NetworkAtHand, NetworkSteps, HomeVPC
  <2>5. NetworkPaired'
        BY <1>5, <2>1, <2>2, <2>3 DEF NetworkPaired, NetworkAtHand, NetworkSteps, HomeVPC
  <2>6. HomeKept'
        BY <1>2, <1>5, <2>1, <2>2, <2>3, <2>4 DEF HomeKept, HomeSteps
  <2>   QED
        BY <2>1, <2>5, <2>6 DEF AddressKept
<1>   QED
      BY <1>3, <1>4, <1>5 DEF Recorded

LEMMA NetworkKept == Spec => []NetworkInv
<1>1. Init => NetworkInv
  <2> SUFFICES ASSUME Init PROVE NetworkInv
      OBVIOUS
  <2>1. /\ obj.made = Nothing /\ pc = "idle"
        /\ obj.vpc \in {User, None} /\ obj.subnet \in {User, None}
        BY DEF Init, Submitted
  <2>2. In(User, User)
        BY DEF Init, In, Here, Res, Kinds
  <2>3. obj.made["eip"] = None /\ obj.made["cluster"] = None
        BY <2>1 DEF Nothing, Kinds
  <2>   QED
        BY <2>1, <2>2, <2>3, IdsAssumption
        DEF NetworkInv, AddressKept, NetworkPaired, NetworkAtHand, HomeKept, NetworkSteps, HomeSteps
<1>2. TypeOK /\ Tracked /\ InHand /\ LedgerInv /\ NetworkInv /\ [Next]_vars => NetworkInv'
  <2> SUFFICES ASSUME TypeOK, Tracked, InHand, LedgerInv, NetworkInv, [Next]_vars, ~obj'.deleting
               PROVE  NetworkGood'
      BY DEF NetworkInv, NetworkGood
  <2>1. NetworkGood /\ (Aside \/ Requesting \/ Recording)
        BY LifeSteps DEF NetworkInv, NetworkGood
  <2>2. HeldByStep
        BY DEF InHand
  <2>3. CASE Aside
        BY <2>1, <2>3, AsideNetwork
  <2>4. CASE Requesting
        BY <2>1, <2>2, <2>4, RequestingAsks, AskedNetwork, PassedNetwork
  <2>5. CASE Recording
        BY <2>1, <2>2, <2>5, RecordingWrites, RecordedNetwork
  <2>   QED
        BY <2>1, <2>3, <2>4, <2>5
<1>   QED
      BY <1>1, <1>2, TypeCorrect, CopiesTracked, HandsTracked, LedgerKept, PTL DEF Spec

(* Whichever attempt of create() a network came from, and whatever was     *)
(* lost of earlier ones: what Spec.HostNetwork names of an own network is  *)
(* what Status names, which is what the removal will delete.               *)
THEOREM NetworkStaysKnown == Spec => []NetworkKnown
<1>1. NetworkInv => NetworkKnown
      BY DEF NetworkInv, NetworkPaired, NetworkKnown
<1>   QED
      BY <1>1, NetworkKept, PTL

(* A recorded cluster that is there runs in the recorded subnet of the     *)
(* recorded VPC, however many networks and clusters faults have wasted.    *)
THEOREM ClusterAtHome == Spec => []ClusterHome
<1>1. TypeOK /\ NetworkInv => ClusterHome
  <2> SUFFICES ASSUME TypeOK, NetworkInv, ~obj.deleting, Exists(<<"cluster", obj.made["cluster"]>>)
               PROVE  /\ Exists(<<"subnet", obj.subnet>>)
                      /\ <<<<"cluster", obj.made["cluster"]>>, <<"subnet", obj.subnet>>>> \in uses
                      /\ <<<<"subnet", obj.subnet>>, <<"vpc", obj.vpc>>>> \in uses
      BY DEF ClusterHome
  <2>1. obj.made["cluster"] # None
        BY IdsAssumption DEF Exists, Res
  <2>   QED
        BY <2>1 DEF NetworkInv, HomeKept, In, Lives, Exists, TypeOK, Object, Res, Kinds
<1>   QED
      BY <1>1, NetworkKept, TypeCorrect, PTL

(* What the object names is not made again: create() asks for an EIP, a    *)
(* gateway or a rule only when the stored object, not only the worker's    *)
(* copy of it, names none.                                                 *)
THEOREM NothingMadeTwice == Spec => MadeOnce
<1>1. ASSUME TypeOK, Tracked, InHand, LedgerInv, NetworkInv, [Next]_vars
      PROVE  [\A k \in {"eip", "nat", "snatEip", "snat"}, i \in Ids :
                 ~obj.deleting /\ cloud[<<k, i>>] = "none" /\ cloud'[<<k, i>>] # "none"
                    => obj.made[k] = None]_vars
  <2> SUFFICES ASSUME NEW k \in {"eip", "nat", "snatEip", "snat"}, NEW i \in Ids, ~obj.deleting,
                      cloud[<<k, i>>] = "none", cloud'[<<k, i>>] # "none"
               PROVE  obj.made[k] = None
      OBVIOUS
  <2>1. <<k, i>> \in Res
        BY DEF Res, Kinds
  <2>2. Requesting
    <3>1. ~Aside
          BY <2>1 DEF Aside, SamePresence
    <3>2. ~Recording
          BY <1>1, RecordingWrites
    <3>   QED
          BY <1>1, <3>1, <3>2, LifeSteps
  <2>3. Asked
    <3>1. UNCHANGED cloud => FALSE
          OBVIOUS
    <3>   QED
          BY <1>1, <2>2, <3>1, RequestingAsks
  <2>4. ASSUME NEW at, NEW j, NEW state, NEW parents, NEW next, Asks(at, j, state, parents, next)
        PROVE  k = j
        BY <2>1, <2>4 DEF Asks, Appears
  <2>   QED
        BY <1>1, <2>3, <2>4 DEF Asked, NetworkInv, AddressKept
<1>   QED
      BY <1>1, TypeCorrect, CopiesTracked, HandsTracked, LedgerKept, NetworkKept, PTL
      DEF Spec, MadeOnce

=============================================================================
