-------------------------- MODULE ProvisionProofs --------------------------
(* Proofs about Provision, for every set of identifiers, every submitted    *)
(* configuration and every number of faults and edits: types, copies, what  *)
(* the worker holds, and what a removal leaves on the object.               *)
EXTENDS Provision, TLAPS

Copies == {"cache", "given", "local"}

-----------------------------------------------------------------------------
(* Type correctness.                                                       *)

LEMMA SubmittedType == ASSUME NEW w \in Wants PROVE Submitted(w) \in Object
BY WantsAssumption DEF Submitted, Object, Phases, Nothing

LEMMA NewIdFresh ==
    ASSUME NEW k, Fresh(k) # {}
    PROVE  NewId(k) \in Ids /\ cloud[<<k, NewId(k)>>] = "none"
<1>1. \E i \in Fresh(k) : TRUE
      OBVIOUS
<1>2. NewId(k) \in Fresh(k)
      BY <1>1 DEF NewId
<1>   QED
      BY <1>2 DEF Fresh

LEMMA FaultType ==
    ASSUME TypeOK, NEW kind, Fault(kind) PROVE faults' \in 0 .. MaxFaults
BY BoundsAssumption DEF TypeOK, Fault

LEMMA AbandonType ==
    ASSUME Abandon
    PROVE  /\ err' \in BOOLEAN /\ pc' \in Steps
           /\ held' \in [Kinds -> Ids \cup {None}]
BY DEF Abandon, Nothing, Steps

LEMMA ProceedType ==
    ASSUME TypeOK, NEW next \in Steps, NEW copy \in Object,
           NEW fresh \in SUBSET Copies, Proceed(next, copy, fresh)
    PROVE  pc' \in Steps /\ local' \in Object /\ current' \subseteq Copies
<1>1. NoCopy \in Object
      BY SubmittedType DEF TypeOK, NoCopy
<1>   QED
      BY <1>1 DEF Proceed

LEMMA StoreType ==
    ASSUME TypeOK, NEW o \in Object, NEW next \in Steps, Store(o, next)
    PROVE  /\ obj' \in Object /\ cache' \in Object /\ local' \in Object
           /\ pc' \in Steps /\ current' \subseteq Copies
<1>1. {"local"} \in SUBSET Copies
      BY DEF Copies
<1>2. Proceed(next, o, {"local"})
      BY DEF Store
<1>3. pc' \in Steps /\ local' \in Object /\ current' \subseteq Copies
      BY <1>1, <1>2, ProceedType
<1>   QED
      BY <1>3 DEF Store, TypeOK

LEMMA StayType ==
    ASSUME TypeOK, NEW next \in Steps, Stay(next)
    PROVE  /\ obj' \in Object /\ cache' \in Object /\ local' \in Object
           /\ pc' \in Steps /\ current' \subseteq Copies
<1>1. pc' \in Steps /\ local' \in Object /\ current' \subseteq Copies
      BY ProceedType DEF Stay, TypeOK, Copies
<1>   QED
      BY <1>1 DEF Stay, TypeOK

LEMMA UpdateCopyType ==
    ASSUME TypeOK, NEW o \in Object, NEW next \in Steps, UpdateCopy(o, next)
    PROVE  /\ obj' \in Object /\ cache' \in Object /\ local' \in Object
           /\ pc' \in Steps /\ current' \subseteq Copies /\ err' \in BOOLEAN
<1>1. CASE "local" \in current /\ Store(o, next) /\ UNCHANGED err
      BY <1>1, StoreType DEF TypeOK
<1>2. CASE "local" \notin current /\ pc' = "lost" /\ err' = TRUE /\ UNCHANGED <<store, local>>
      BY <1>2 DEF TypeOK, store, Steps, Copies
<1>   QED
      BY <1>1, <1>2 DEF UpdateCopy

LEMMA UpdateOrGiveUpType ==
    ASSUME TypeOK, NEW o \in Object, NEW next \in Steps, UpdateOrGiveUp(o, next)
    PROVE  /\ obj' \in Object /\ cache' \in Object /\ local' \in Object
           /\ pc' \in Steps /\ current' \subseteq Copies /\ queued' \in BOOLEAN
<1>1. CASE Store(o, next) /\ UNCHANGED queued
      BY <1>1, StoreType DEF TypeOK
<1>2. CASE GiveUp
      BY <1>2, StayType DEF GiveUp, Steps
<1>   QED
      BY <1>1, <1>2 DEF UpdateOrGiveUp

LEMMA SaveMessageType ==
    ASSUME TypeOK, NEW e \in BOOLEAN, NEW next \in Steps, NEW fallback \in Steps,
           SaveMessage(e, next, fallback)
    PROVE  /\ obj' \in Object /\ cache' \in Object /\ local' \in Object
           /\ pc' \in Steps /\ current' \subseteq Copies
<1>1. [local EXCEPT !.failed = e] \in Object
      BY DEF TypeOK, Object
<1>   QED
      BY <1>1, StoreType, StayType DEF SaveMessage

LEMMA DispatchType == ASSUME NEW o \in Object PROVE Dispatch(o) \in Steps
BY DEF Dispatch, Object, Phases, Steps

LEMMA VanishType ==
    ASSUME TypeOK, NEW R, Vanish(R)
    PROVE  cloud' \in [Res -> States] /\ uses' \subseteq Res \X Refs
BY DEF TypeOK, Vanish, States

(* Every request leaves the record of the cloud and of what the worker got *)
(* from it well formed.                                                    *)
LEMMA RequestType ==
    ASSUME TypeOK, NEW k \in Kinds, NEW state \in States,
           NEW parents \in SUBSET Refs, NEW next \in Steps,
           Request(k, state, parents, next)
    PROVE  /\ cloud' \in [Res -> States] /\ uses' \subseteq Res \X Refs
           /\ held' \in [Kinds -> Ids \cup {None}] /\ pc' \in Steps
           /\ err' \in BOOLEAN /\ faults' \in 0 .. MaxFaults
<1>1. Fresh(k) # {} /\ NewId(k) \in Ids
      BY NewIdFresh DEF Request
<1>2. <<k, NewId(k)>> \in Res
      BY <1>1 DEF Res
<1>3. cloud' \in [Res -> States]
      BY <1>2 DEF Request, TypeOK
<1>4. uses' \subseteq Res \X Refs
      BY <1>2 DEF Request, TypeOK
<1>5. CASE held' = [held EXCEPT ![k] = NewId(k)] /\ pc' = next /\ UNCHANGED <<err, faults>>
      BY <1>1, <1>3, <1>4, <1>5 DEF TypeOK
<1>6. CASE Fault("reply") /\ Abandon
      BY <1>3, <1>4, <1>6, FaultType, AbandonType
<1>   QED
      BY <1>5, <1>6 DEF Request

LEMMA RecordType ==
    ASSUME TypeOK, NEW at, NEW o \in Object, NEW done, NEW next \in Steps,
           Record(at, o, done, next)
    PROVE  TypeOK'
<1>1. /\ obj' \in Object /\ cache' \in Object /\ local' \in Object
      /\ pc' \in Steps /\ current' \subseteq Copies
      BY StoreType DEF Record
<1>2. held' \in [Kinds -> Ids \cup {None}]
      BY DEF Record, TypeOK
<1>   QED
      BY <1>1, <1>2 DEF TypeOK, Record, Quiet, fabric, Copies

LEMMA CreatingType == ASSUME TypeOK, Creating PROVE TypeOK'
<1> USE DEF QuietCreate, fabric, store, Copies
<1>1. CASE ValidateCreate
  <2>1. pc' \in Steps /\ err' \in BOOLEAN /\ held' \in [Kinds -> Ids \cup {None}]
        BY <1>1, AbandonType DEF ValidateCreate, TypeOK, Steps, CreateSteps
  <2>2. faults' \in 0 .. MaxFaults
        BY <1>1, FaultType DEF ValidateCreate, TypeOK
  <2>   QED
        BY <1>1, <2>1, <2>2 DEF ValidateCreate, TypeOK
<1>2. CASE CreateClusterEIP
  <2>1. "eip" \in Kinds /\ "live" \in States /\ {} \in SUBSET Refs
        BY DEF Kinds, States, Here
  <2>2. /\ "eipRecord" \in Steps /\ "network" \in Steps
        /\ "extRecord" \in Steps
        BY DEF Steps, CreateSteps, RecordSteps
  <2>3. CASE Request("eip", "live", {}, "eipRecord")
        BY <1>2, <2>1, <2>2, <2>3, RequestType DEF CreateClusterEIP, TypeOK
  <2>   QED
        BY <1>2, <2>2, <2>3 DEF CreateClusterEIP, Skip, TypeOK
<1>3. CASE CreateVPC
  <2>1. "vpc" \in Kinds /\ "live" \in States /\ {} \in SUBSET Refs
        BY DEF Kinds, States, Here
  <2>2. "subnet" \in Steps /\ "nat" \in Steps
        BY DEF Steps, CreateSteps
  <2>3. CASE Request("vpc", "live", {}, "subnet")
        BY <1>3, <2>1, <2>2, <2>3, RequestType DEF CreateVPC, TypeOK
  <2>   QED
        BY <1>3, <2>2, <2>3 DEF CreateVPC, Skip, TypeOK
<1>4. CASE CreateSubnet
  <2>1. "subnet" \in Kinds /\ "vpc" \in Kinds /\ "live" \in States /\ "netStatus" \in Steps
        BY DEF Kinds, States, Here, Steps, CreateSteps, RecordSteps
  <2>2. SubnetVPC \in Ids \cup {User, None}
        BY <2>1 DEF SubnetVPC, TypeOK, Object
  <2>3. {<<"vpc", SubnetVPC>>} \in SUBSET Refs
        BY <2>1, <2>2 DEF Refs
  <2>   QED
        BY <1>4, <2>1, <2>3, RequestType DEF CreateSubnet, TypeOK
<1>5. CASE CreateNatGateway
  <2>1. /\ "nat" \in Kinds /\ "subnet" \in Kinds /\ "live" \in States
        /\ "natRecord" \in Steps /\ "snat" \in Steps
        BY DEF Kinds, States, Here, Steps, CreateSteps, RecordSteps
  <2>2. {<<"subnet", local.subnet>>} \in SUBSET Refs
        BY <2>1 DEF Refs, TypeOK, Object
  <2>3. CASE Request("nat", "live", {<<"subnet", local.subnet>>}, "natRecord")
        BY <1>5, <2>1, <2>2, <2>3, RequestType DEF CreateNatGateway, TypeOK
  <2>   QED
        BY <1>5, <2>1, <2>3 DEF CreateNatGateway, Skip, TypeOK
<1>6. CASE CreateSnatRule
  <2>1. /\ "snatEip" \in Kinds /\ "snat" \in Kinds /\ "nat" \in Kinds /\ "live" \in States
        /\ "snatEipRecord" \in Steps /\ "snatRecord" \in Steps /\ "cluster" \in Steps
        BY DEF Kinds, States, Here, Steps, CreateSteps, RecordSteps
  <2>2. SnatParents \in SUBSET Refs
        BY <2>1 DEF SnatParents, Refs, TypeOK, Object
  <2>3. CASE Request("snatEip", "live", {}, "snatEipRecord")
    <3>1. {} \in SUBSET Refs
          OBVIOUS
    <3>   QED
          BY <1>6, <2>1, <2>3, <3>1, RequestType DEF CreateSnatRule, TypeOK
  <2>4. CASE Request("snat", "live", SnatParents, "snatRecord")
        BY <1>6, <2>1, <2>2, <2>4, RequestType DEF CreateSnatRule, TypeOK
  <2>   QED
        BY <1>6, <2>1, <2>3, <2>4 DEF CreateSnatRule, Skip, TypeOK
<1>7. CASE FindCluster
      BY <1>7, BoundsAssumption DEF FindCluster, Skip, Fault, TypeOK, Steps, CreateSteps
<1>8. CASE CreateCluster
  <2>1. /\ "cluster" \in Kinds /\ "subnet" \in Kinds /\ "eip" \in Kinds
        /\ "creating" \in States /\ "clusterRecord" \in Steps
        BY DEF Kinds, States, Here, Steps, CreateSteps, RecordSteps
  <2>2. ClusterParents \in SUBSET Refs
        BY <2>1 DEF ClusterParents, Refs, TypeOK, Object
  <2>3. endpoints' \subseteq Ids \cup {User, None}
        BY <1>8 DEF CreateCluster, TypeOK, Object
  <2>   QED
        BY <1>8, <2>1, <2>2, <2>3, RequestType DEF CreateCluster, TypeOK
<1>9. CASE CallFails \/ WriteFails
  <2>1. pc' \in Steps /\ err' \in BOOLEAN /\ held' \in [Kinds -> Ids \cup {None}]
        BY <1>9, AbandonType DEF CallFails, WriteFails, Steps, Nothing
  <2>2. faults' \in 0 .. MaxFaults
        BY <1>9, FaultType DEF CallFails, WriteFails, TypeOK
  <2>   QED
        BY <1>9, <2>1, <2>2 DEF CallFails, WriteFails, TypeOK
<1>10. CASE WaitForCreationComplete
      BY <1>10 DEF WaitForCreationComplete, EnqueueAfter, Abandon, TypeOK, Steps, Nothing
<1>11. CASE AdoptCluster \/ SetRunning
  <2>1. "report" \in Steps
        BY DEF Steps
  <2>2. /\ [local EXCEPT !.phase = "creating"] \in Object
        /\ [local EXCEPT !.phase = "running"] \in Object
        BY DEF TypeOK, Object, Phases
  <2>   QED
        BY <1>11, <2>1, <2>2, UpdateCopyType DEF AdoptCluster, SetRunning, Quiet, TypeOK
<1>12. CASE \/ RecordClusterEIP \/ RecordAddress \/ RecordNetworkStatus \/ RecordNetworkSpec
            \/ RecordNat \/ RecordSnatEIP \/ RecordSnat \/ RecordCluster \/ RecordPhase
  <2>1. /\ "network" \in Steps /\ "netSpec" \in Steps /\ "nat" \in Steps /\ "snat" \in Steps
        /\ "cluster" \in Steps /\ "phaseRecord" \in Steps /\ "report" \in Steps
        BY DEF Steps, CreateSteps, RecordSteps
  <2>2. /\ \A k \in Kinds : Name(k) \in [Kinds -> Ids \cup {None}]
        /\ NetworkStatus \in [Kinds -> Ids \cup {None}]
        BY DEF Name, NetworkStatus, TypeOK, Object, Kinds
  <2>3. /\ \A k \in Kinds : [obj EXCEPT !.made = Name(k)] \in Object
        /\ [obj EXCEPT !.made = NetworkStatus] \in Object
        /\ [obj EXCEPT !.made = Name("eip"), !.ext = TRUE] \in Object
        /\ [obj EXCEPT !.ext = TRUE] \in Object
        /\ [obj EXCEPT !.phase = "creating", !.failed = FALSE] \in Object
        BY <2>2 DEF TypeOK, Object, Phases, Kinds
  <2>4. [obj EXCEPT !.subnet = held["subnet"],
                    !.vpc = IF held["vpc"] # None THEN held["vpc"] ELSE @] \in Object
        BY DEF TypeOK, Object, Kinds
  <2>5. CASE RecordClusterEIP \/ RecordAddress
        BY <2>1, <2>3, <2>5, RecordType DEF RecordClusterEIP, RecordAddress, Kinds
  <2>6. CASE RecordNetworkStatus
        BY <2>1, <2>3, <2>6, RecordType DEF RecordNetworkStatus
  <2>7. CASE RecordNetworkSpec
        BY <2>1, <2>4, <2>7, RecordType DEF RecordNetworkSpec
  <2>8. CASE RecordNat \/ RecordSnatEIP \/ RecordSnat \/ RecordCluster \/ RecordPhase
        BY <2>1, <2>3, <2>8, RecordType
        DEF RecordNat, RecordSnatEIP, RecordSnat, RecordCluster, RecordPhase, Kinds
  <2>   QED
        BY <1>12, <2>5, <2>6, <2>7, <2>8
<1>   QED
      BY <1>1, <1>2, <1>3, <1>4, <1>5, <1>6, <1>7, <1>8, <1>9, <1>10, <1>11, <1>12
      DEF Creating

LEMMA RemovingType == ASSUME TypeOK, Removing PROVE TypeOK'
<1> USE DEF QuietRemove, fabric, Copies
<1>1. CASE EnsureDeletable
  <2>1. faults' \in 0 .. MaxFaults
        BY <1>1, FaultType DEF EnsureDeletable, TypeOK
  <2>   QED
        BY <1>1, <2>1 DEF EnsureDeletable, TypeOK, store, Steps, RemoveSteps
<1>2. CASE DeleteCCECluster
  <2>1. "cleanup" \in Steps /\ "clearExt" \in Steps /\ "deleting" \in States
        BY DEF Steps, RemoveSteps, States, Here
  <2>2. [local EXCEPT !.made["cluster"] = None] \in Object
        BY DEF TypeOK, Object, Kinds
  <2>3. cloud' \in [Res -> States]
        BY <1>2, <2>1 DEF DeleteCCECluster, TypeOK
  <2>4. /\ obj' \in Object /\ cache' \in Object /\ local' \in Object
        /\ pc' \in Steps /\ current' \subseteq Copies /\ queued' \in BOOLEAN
        BY <1>2, <2>1, <2>2, UpdateOrGiveUpType DEF DeleteCCECluster, TypeOK, store
  <2>   QED
        BY <1>2, <2>3, <2>4 DEF DeleteCCECluster, TypeOK
<1>3. CASE ClearExternalIP
  <2>1. "cleanup" \in Steps /\ [local EXCEPT !.ext = FALSE] \in Object
        BY DEF Steps, RemoveSteps, TypeOK, Object
  <2>   QED
        BY <1>3, <2>1, UpdateOrGiveUpType DEF ClearExternalIP, TypeOK
<1>4. CASE DeleteSnatRules
      BY <1>4, VanishType DEF DeleteSnatRules, TypeOK, store
<1>5. CASE DeleteEndpointService
      BY <1>5 DEF DeleteEndpointService, TypeOK, store
<1>6. CASE DeleteNetworkResource
  <2>1. /\ obj' \in Object /\ cache' \in Object /\ local' \in Object
        /\ pc' \in Steps /\ current' \subseteq Copies /\ queued' \in BOOLEAN
        BY <1>6, StayType DEF DeleteNetworkResource, GiveUp, TypeOK, store, Steps
  <2>2. cloud' \in [Res -> States] /\ uses' \subseteq Res \X Refs
        BY <1>6, VanishType DEF DeleteNetworkResource, TypeOK
  <2>   QED
        BY <1>6, <2>1, <2>2 DEF DeleteNetworkResource, TypeOK
<1>7. CASE ForgetNetworkResource
  <2>1. \A K : [local EXCEPT !.made = Without(K)] \in Object
        BY DEF TypeOK, Object, Without
  <2>2. "cleanup" \in Steps
        BY DEF Steps, RemoveSteps
  <2>   QED
        BY <1>7, <2>1, <2>2, UpdateOrGiveUpType DEF ForgetNetworkResource, TypeOK
<1>8. CASE CleanupDone
      BY <1>8 DEF CleanupDone, TypeOK, store, Steps, RemoveSteps
<1>9. CASE RemoveFinalizer
  <2>1. "idle" \in Steps /\ [local EXCEPT !.exists = FALSE] \in Object
        BY DEF Steps, TypeOK, Object
  <2>   QED
        BY <1>9, <2>1, UpdateOrGiveUpType DEF RemoveFinalizer, TypeOK
<1>10. CASE RemoveFails
  <2>1. faults' \in 0 .. MaxFaults
        BY <1>10, FaultType DEF RemoveFails
  <2>   QED
        BY <1>10, <2>1, StayType DEF RemoveFails, GiveUp, TypeOK, Steps
<1>   QED
      BY <1>1, <1>2, <1>3, <1>4, <1>5, <1>6, <1>7, <1>8, <1>9, <1>10 DEF Removing

LEMMA SyncType ==
    ASSUME TypeOK,
           \/ OnCCEConfigChanged \/ RecordError \/ SyncEndFails
           \/ AddFinalizer \/ RemoveAtOnce
    PROVE  TypeOK'
<1> USE DEF Copies
<1>1. CASE OnCCEConfigChanged
  <2>1. Dispatch(cache) \in Steps
        BY DispatchType DEF TypeOK
  <2>   QED
        BY <1>1, <2>1, ProceedType DEF OnCCEConfigChanged, TypeOK, fabric
<1>2. CASE RecordError
  <2>1. /\ "finalizer" \in Steps /\ "lost" \in Steps
        /\ (IF local.finalizer THEN "ensure" ELSE "idle") \in Steps
        BY DEF Steps, RemoveSteps
  <2>2. /\ obj' \in Object /\ cache' \in Object /\ local' \in Object
        /\ pc' \in Steps /\ current' \subseteq Copies
        BY <1>2, <2>1, SaveMessageType DEF RecordError, TypeOK
  <2>   QED
        BY <1>2, <2>2 DEF RecordError, Quiet, fabric, TypeOK
<1>3. CASE SyncEndFails
  <2>1. faults' \in 0 .. MaxFaults
        BY <1>3, FaultType DEF SyncEndFails
  <2>2. /\ obj' \in Object /\ cache' \in Object /\ local' \in Object
        /\ pc' \in Steps /\ current' \subseteq Copies
        BY <1>3, StayType DEF SyncEndFails, Steps
  <2>   QED
        BY <1>3, <2>1, <2>2 DEF SyncEndFails, fabric, TypeOK
<1>4. CASE AddFinalizer
  <2>1. "idle" \in Steps /\ [obj EXCEPT !.finalizer = TRUE] \in Object
        BY DEF Steps, TypeOK, Object
  <2>2. /\ obj' \in Object /\ cache' \in Object /\ local' \in Object
        /\ pc' \in Steps /\ current' \subseteq Copies
        BY <1>4, <2>1, StoreType, StayType DEF AddFinalizer
  <2>   QED
        BY <1>4, <2>2 DEF AddFinalizer, fabric, TypeOK
<1>5. CASE RemoveAtOnce
      BY <1>5, StayType DEF RemoveAtOnce, fabric, TypeOK, Steps, RemoveSteps
<1>   QED
      BY <1>1, <1>2, <1>3, <1>4, <1>5

Environment ==
    \/ Inform \/ UserEdits \/ UserDeletes
    \/ ClusterSettles \/ ClusterVanishes \/ NodesChange \/ NodesSettle
    \/ Crash

LEMMA EnvironmentType == ASSUME TypeOK, Environment PROVE TypeOK'
<1> USE DEF store, worker, fabric, Copies
<1>1. CASE Inform \/ NodesChange \/ NodesSettle
      BY <1>1 DEF Inform, NodesChange, NodesSettle, TypeOK
<1>2. CASE UserEdits
  <2>1. edits' \in 0 .. MaxEdits
        BY <1>2, BoundsAssumption DEF UserEdits, TypeOK
  <2>   QED
        BY <1>2, <2>1 DEF UserEdits, TypeOK
<1>3. CASE UserDeletes
  <2>1. obj' \in Object
        BY <1>3 DEF UserDeletes, TypeOK, Object
  <2>   QED
        BY <1>3, <2>1 DEF UserDeletes, TypeOK
<1>4. CASE ClusterSettles
      BY <1>4 DEF ClusterSettles, TypeOK, States, Here
<1>5. CASE ClusterVanishes
      BY <1>5, VanishType DEF ClusterVanishes, TypeOK
<1>6. CASE Crash
  <2>1. pc' \in Steps /\ local' \in Object /\ current' \subseteq Copies
        BY <1>6, ProceedType DEF Crash, TypeOK, Steps
  <2>2. faults' \in 0 .. MaxFaults
        BY <1>6, FaultType DEF Crash
  <2>   QED
        BY <1>6, <2>1, <2>2 DEF Crash, TypeOK, Nothing
<1>   QED
      BY <1>1, <1>2, <1>3, <1>4, <1>5, <1>6 DEF Environment

(* Every variable keeps its type, whatever the worker, the users, the      *)
(* cloud and the faults do (TypeOK).                                       *)
THEOREM TypeCorrect == Spec => []TypeOK
<1>1. Init => TypeOK
  <2> SUFFICES ASSUME Init PROVE TypeOK
      OBVIOUS
  <2>1. obj \in Object /\ cache \in Object /\ local \in Object
        BY SubmittedType DEF Init
  <2>2. cloud \in [Res -> States]
        BY DEF Init, States, Here
  <2>3. uses \subseteq Res \X Refs
        BY DEF Init, Res, Refs, Kinds
  <2>4. faults \in 0 .. MaxFaults /\ edits \in 0 .. MaxEdits
        BY BoundsAssumption DEF Init
  <2>5. held \in [Kinds -> Ids \cup {None}] /\ pc \in Steps
        BY DEF Init, Nothing, Steps
  <2>   QED
        BY <2>1, <2>2, <2>3, <2>4, <2>5 DEF Init, TypeOK
<1>2. TypeOK /\ [Next]_vars => TypeOK'
  <2> SUFFICES ASSUME TypeOK, [Next]_vars PROVE TypeOK'
      OBVIOUS
  <2>1. CASE UNCHANGED vars
        BY <2>1 DEF vars, store, worker, fabric, TypeOK
  <2>   QED
        BY <2>1, CreatingType, RemovingType, SyncType, EnvironmentType
        DEF Next, Worker, Environment
<1>   QED
      BY <1>1, <1>2, PTL DEF Spec

-----------------------------------------------------------------------------
(* The copies of the object.                                               *)

(* A copy that carries the stored resourceVersion is the stored object. *)
CopiesAgree ==
    /\ "local" \in current => local = obj
    /\ "cache" \in current => cache = obj

(* A deletion timestamp is never taken back, and the removal handler works *)
(* only on an object that has one.                                         *)
DeletionKept ==
    /\ cache.deleting \/ local.deleting => obj.deleting
    /\ pc \in RemoveSteps \cup {"clear"} => obj.deleting

Tracked == CopiesAgree /\ DeletionKept

LEMMA StoreTracked ==
    ASSUME TypeOK, Tracked, NEW o \in Object, NEW next \in Steps, Store(o, next),
           obj.deleting => o.deleting,
           next \in RemoveSteps \cup {"clear"} => obj.deleting
    PROVE  Tracked'
<1>1. obj' = o /\ cache' = cache /\ pc' = next
      BY DEF Store, Proceed
<1>2. CASE next = "idle"
  <2>1. current' = {} /\ local' = NoCopy
        BY <1>2 DEF Store, Proceed
  <2>2. ~local'.deleting
        BY <2>1 DEF NoCopy, Submitted
  <2>   QED
        BY <1>1, <2>1, <2>2 DEF Tracked, CopiesAgree, DeletionKept
<1>3. CASE next # "idle"
  <2>1. current' = {"local"} /\ local' = o
        BY <1>3 DEF Store, Proceed
  <2>   QED
        BY <1>1, <2>1 DEF Tracked, CopiesAgree, DeletionKept
<1>   QED
      BY <1>2, <1>3

LEMMA StayTracked ==
    ASSUME TypeOK, Tracked, NEW next \in Steps, Stay(next),
           next \in RemoveSteps \cup {"clear"} => obj.deleting
    PROVE  Tracked'
<1>1. obj' = obj /\ cache' = cache /\ pc' = next
      BY DEF Stay, Proceed
<1>2. CASE next = "idle"
  <2>1. current' = current \ {"given", "local"} /\ local' = NoCopy
        BY <1>2 DEF Stay, Proceed
  <2>2. ~local'.deleting
        BY <2>1 DEF NoCopy, Submitted
  <2>   QED
        BY <1>1, <2>1, <2>2 DEF Tracked, CopiesAgree, DeletionKept
<1>3. CASE next # "idle"
  <2>1. current' = current /\ local' = local
        BY <1>3 DEF Stay, Proceed
  <2>   QED
        BY <1>1, <2>1 DEF Tracked, CopiesAgree, DeletionKept
<1>   QED
      BY <1>2, <1>3

(* A step that leaves object and copies alone keeps them tracked. *)
LEMMA FrameTracked ==
    ASSUME Tracked, UNCHANGED <<store, local>>,
           pc' \in RemoveSteps \cup {"clear"} => obj.deleting
    PROVE  Tracked'
BY DEF Tracked, CopiesAgree, DeletionKept, store

LEMMA CreatingTracked == ASSUME TypeOK, Tracked, Creating PROVE Tracked'
<1> USE DEF QuietCreate
<1>1. CASE ValidateCreate
  <2>1. pc' \notin RemoveSteps \cup {"clear"}
        BY <1>1 DEF ValidateCreate, Abandon, RemoveSteps
  <2>   QED
        BY <1>1, <2>1 DEF ValidateCreate, Tracked, CopiesAgree, DeletionKept
<1>2. CASE \/ CreateClusterEIP \/ CreateVPC \/ CreateSubnet \/ CreateNatGateway
           \/ CreateSnatRule \/ FindCluster \/ CreateCluster
           \/ CallFails \/ WriteFails \/ WaitForCreationComplete
  <2>1. UNCHANGED <<store, local>>
        BY <1>2 DEF CreateClusterEIP, CreateVPC, CreateSubnet, CreateNatGateway, CreateSnatRule,
                    FindCluster, CreateCluster, CallFails, WriteFails, WaitForCreationComplete
  <2>2. CASE CallFails \/ WriteFails \/ WaitForCreationComplete
    <3>1. pc' \notin RemoveSteps \cup {"clear"}
          BY <2>2 DEF CallFails, WriteFails, WaitForCreationComplete, Abandon, RemoveSteps
    <3>   QED
          BY <2>1, <3>1, FrameTracked
  <2>3. CASE \/ CreateClusterEIP \/ CreateVPC \/ CreateSubnet \/ CreateNatGateway
             \/ CreateSnatRule \/ FindCluster \/ CreateCluster
    <3>1. pc' \notin RemoveSteps \cup {"clear"}
          BY <2>3 DEF CreateClusterEIP, CreateVPC, CreateSubnet, CreateNatGateway,
                      CreateSnatRule, FindCluster, CreateCluster, Request, Skip, Abandon,
                      RemoveSteps
    <3>   QED
          BY <2>1, <3>1, FrameTracked
  <2>   QED
        BY <1>2, <2>2, <2>3
<1>3. CASE AdoptCluster \/ SetRunning
  <2>1. PICK p \in {"creating", "running"} :
            UpdateCopy([local EXCEPT !.phase = p], "report")
        BY <1>3 DEF AdoptCluster, SetRunning
  <2>2. [local EXCEPT !.phase = p] \in Object /\ "report" \in Steps
        BY DEF TypeOK, Object, Phases, Steps
  <2>3. "report" \notin RemoveSteps \cup {"clear"} /\ "lost" \notin RemoveSteps \cup {"clear"}
        BY DEF RemoveSteps
  <2>4. CASE "local" \in current /\ Store([local EXCEPT !.phase = p], "report")
    <3>1. local = obj
          BY <2>4 DEF Tracked, CopiesAgree
    <3>2. obj.deleting => [local EXCEPT !.phase = p].deleting
          BY <3>1 DEF TypeOK, Object
    <3>   QED
          BY <2>2, <2>3, <2>4, <3>2, StoreTracked
  <2>5. CASE pc' = "lost" /\ UNCHANGED <<store, local>>
        BY <2>3, <2>5, FrameTracked
  <2>   QED
        BY <2>1, <2>4, <2>5 DEF UpdateCopy
<1>4. CASE \/ RecordClusterEIP \/ RecordAddress \/ RecordNetworkStatus \/ RecordNetworkSpec
           \/ RecordNat \/ RecordSnatEIP \/ RecordSnat \/ RecordCluster \/ RecordPhase
  <2>1. TypeOK'
        BY CreatingType
  <2>2. obj'.deleting = obj.deleting
        BY <1>4 DEF RecordClusterEIP, RecordAddress, RecordNetworkStatus, RecordNetworkSpec,
                    RecordNat, RecordSnatEIP, RecordSnat, RecordCluster, RecordPhase,
                    Record, Store, TypeOK, Object
  <2>3. /\ pc' \notin RemoveSteps \cup {"clear"}
        /\ Store(obj', pc')
        BY <1>4 DEF RecordClusterEIP, RecordAddress, RecordNetworkStatus, RecordNetworkSpec,
                    RecordNat, RecordSnatEIP, RecordSnat, RecordCluster, RecordPhase,
                    Record, Store, Proceed, RemoveSteps
  <2>   QED
        BY <2>1, <2>2, <2>3, StoreTracked DEF TypeOK
<1>   QED
      BY <1>1, <1>2, <1>3, <1>4 DEF Creating

(* In the removal handler: a write keeps the deletion timestamp. *)
LEMMA UpdateOrGiveUpTracked ==
    ASSUME TypeOK, Tracked, obj.deleting, NEW o \in Object, NEW next \in Steps,
           o.deleting = local.deleting, UpdateOrGiveUp(o, next)
    PROVE  Tracked'
<1>1. CASE "local" \in current /\ Store(o, next)
  <2>1. local = obj
        BY <1>1 DEF Tracked, CopiesAgree
  <2>2. o.deleting
        BY <2>1
  <2>   QED
        BY <1>1, <2>2, StoreTracked
<1>2. CASE GiveUp
      BY <1>2, StayTracked DEF GiveUp, Steps
<1>   QED
      BY <1>1, <1>2 DEF UpdateOrGiveUp

LEMMA RemovingTracked == ASSUME TypeOK, Tracked, Removing PROVE Tracked'
<1> USE DEF QuietRemove
<1>1. obj.deleting
  <2>1. pc \in RemoveSteps
        BY DEF Removing, EnsureDeletable, DeleteCCECluster, ClearExternalIP, DeleteSnatRules,
               DeleteEndpointService, DeleteNetworkResource, ForgetNetworkResource,
               CleanupDone, RemoveFinalizer, RemoveFails, RemoveSteps
  <2>   QED
        BY <2>1 DEF Tracked, DeletionKept
<1>2. CASE EnsureDeletable \/ DeleteSnatRules \/ DeleteEndpointService \/ CleanupDone
  <2>1. UNCHANGED <<store, local>>
        BY <1>2 DEF EnsureDeletable, DeleteSnatRules, DeleteEndpointService, CleanupDone
  <2>   QED
        BY <1>1, <2>1, FrameTracked
<1>3. CASE DeleteCCECluster
  <2>1. CASE UpdateOrGiveUp([local EXCEPT !.made["cluster"] = None], "clearExt")
    <3>1. /\ [local EXCEPT !.made["cluster"] = None] \in Object
          /\ [local EXCEPT !.made["cluster"] = None].deleting = local.deleting
          /\ "clearExt" \in Steps
          BY DEF TypeOK, Object, Kinds, Steps, RemoveSteps
    <3>   QED
          BY <1>1, <2>1, <3>1, UpdateOrGiveUpTracked
  <2>2. CASE UNCHANGED <<store, local>>
        BY <1>1, <2>2, FrameTracked
  <2>   QED
        BY <1>3, <2>1, <2>2 DEF DeleteCCECluster
<1>4. CASE ClearExternalIP
  <2>1. /\ [local EXCEPT !.ext = FALSE] \in Object /\ "cleanup" \in Steps
        /\ [local EXCEPT !.ext = FALSE].deleting = local.deleting
        BY DEF TypeOK, Object, Steps, RemoveSteps
  <2>   QED
        BY <1>1, <1>4, <2>1, UpdateOrGiveUpTracked DEF ClearExternalIP
<1>5. CASE DeleteNetworkResource
  <2>1. CASE UNCHANGED <<store, local>>
        BY <1>1, <2>1, FrameTracked
  <2>2. CASE GiveUp
        BY <1>1, <2>2, StayTracked DEF GiveUp, Steps
  <2>   QED
        BY <1>5, <2>1, <2>2 DEF DeleteNetworkResource
<1>6. CASE ForgetNetworkResource
  <2>1. \A K : /\ [local EXCEPT !.made = Without(K)] \in Object
               /\ [local EXCEPT !.made = Without(K)].deleting = local.deleting
        BY DEF TypeOK, Object, Without
  <2>2. "cleanup" \in Steps
        BY DEF Steps, RemoveSteps
  <2>   QED
        BY <1>1, <1>6, <2>1, <2>2, UpdateOrGiveUpTracked DEF ForgetNetworkResource
<1>7. CASE RemoveFinalizer
  <2>1. /\ [local EXCEPT !.exists = FALSE] \in Object /\ "idle" \in Steps
        /\ [local EXCEPT !.exists = FALSE].deleting = local.deleting
        BY DEF TypeOK, Object, Steps
  <2>   QED
        BY <1>1, <1>7, <2>1, UpdateOrGiveUpTracked DEF RemoveFinalizer
<1>8. CASE RemoveFails
      BY <1>1, <1>8, StayTracked DEF RemoveFails, GiveUp, Steps
<1>   QED
      BY <1>2, <1>3, <1>4, <1>5, <1>6, <1>7, <1>8 DEF Removing

LEMMA SaveMessageTracked ==
    ASSUME TypeOK, Tracked, NEW e \in BOOLEAN, NEW next \in Steps, NEW fallback \in Steps,
           next \in RemoveSteps \cup {"clear"} => obj.deleting,
           fallback \in RemoveSteps \cup {"clear"} => obj.deleting,
           SaveMessage(e, next, fallback)
    PROVE  Tracked'
<1>1. /\ [local EXCEPT !.failed = e] \in Object
      /\ [local EXCEPT !.failed = e].deleting = local.deleting
      BY DEF TypeOK, Object
<1>2. CASE "local" \in current /\ Store([local EXCEPT !.failed = e], next)
  <2>1. local = obj
        BY <1>2 DEF Tracked, CopiesAgree
  <2>   QED
        BY <1>1, <1>2, <2>1, StoreTracked
<1>   QED
      BY <1>2, StayTracked DEF SaveMessage

LEMMA SyncTracked ==
    ASSUME TypeOK, Tracked,
           \/ OnCCEConfigChanged \/ RecordError \/ SyncEndFails
           \/ AddFinalizer \/ RemoveAtOnce
    PROVE  Tracked'
<1>1. CASE OnCCEConfigChanged
  <2>1. obj' = obj /\ cache' = cache /\ pc' = Dispatch(cache)
        BY <1>1 DEF OnCCEConfigChanged, Proceed
  <2>2. pc' \in RemoveSteps \cup {"clear"} => obj.deleting
    <3>1. ~cache.deleting => pc' \in {"idle", "validate", "wait", "report"}
          BY <2>1 DEF Dispatch, TypeOK, Object, Phases
    <3>2. cache.deleting => obj.deleting
          BY DEF Tracked, DeletionKept
    <3>   QED
          BY <3>1, <3>2 DEF RemoveSteps
  <2>3. "cache" \in current' => "cache" \in current
        BY <1>1 DEF OnCCEConfigChanged, Proceed
  <2>4. CASE pc' = "idle"
    <3>1. "local" \notin current' /\ local' = NoCopy
          BY <1>1, <2>1, <2>4 DEF OnCCEConfigChanged, Proceed
    <3>2. ~local'.deleting
          BY <3>1 DEF NoCopy, Submitted
    <3>   QED
          BY <2>1, <2>2, <2>3, <3>1, <3>2 DEF Tracked, CopiesAgree, DeletionKept
  <2>5. CASE pc' # "idle"
    <3>1. local' = cache /\ ("local" \in current' => "cache" \in current)
          BY <1>1, <2>1, <2>5 DEF OnCCEConfigChanged, Proceed
    <3>   QED
          BY <2>1, <2>2, <2>3, <3>1 DEF Tracked, CopiesAgree, DeletionKept
  <2>   QED
        BY <2>4, <2>5
<1>2. CASE RecordError
  <2>1. CASE pc = "report" /\ SaveMessage(err, "finalizer", "lost")
    <3>1. /\ "finalizer" \in Steps \ (RemoveSteps \cup {"clear"})
          /\ "lost" \in Steps \ (RemoveSteps \cup {"clear"})
          BY DEF Steps, RemoveSteps
    <3>2. err \in BOOLEAN
          BY DEF TypeOK
    <3>   QED
          BY <2>1, <3>1, <3>2, SaveMessageTracked
  <2>2. CASE /\ pc = "clear"
             /\ LET next == IF local.finalizer THEN "ensure" ELSE "idle"
                IN  SaveMessage(FALSE, next, next)
    <3>1. obj.deleting
          BY <2>2 DEF Tracked, DeletionKept
    <3>2. (IF local.finalizer THEN "ensure" ELSE "idle") \in Steps
          BY DEF Steps, RemoveSteps
    <3>   QED
          BY <2>2, <3>1, <3>2, SaveMessageTracked
  <2>   QED
        BY <1>2, <2>1, <2>2 DEF RecordError
<1>3. CASE SyncEndFails
      BY <1>3, StayTracked DEF SyncEndFails, Steps, RemoveSteps
<1>4. CASE AddFinalizer
  <2>1. /\ "idle" \in Steps /\ "idle" \notin RemoveSteps \cup {"clear"}
        /\ [obj EXCEPT !.finalizer = TRUE] \in Object
        /\ [obj EXCEPT !.finalizer = TRUE].deleting = obj.deleting
        BY DEF Steps, RemoveSteps, TypeOK, Object
  <2>   QED
        BY <1>4, <2>1, StoreTracked, StayTracked DEF AddFinalizer
<1>5. CASE RemoveAtOnce
  <2>1. obj.deleting
        BY <1>5 DEF RemoveAtOnce, Tracked, DeletionKept
  <2>   QED
        BY <1>5, <2>1, StayTracked DEF RemoveAtOnce, Steps, RemoveSteps
<1>   QED
      BY <1>1, <1>2, <1>3, <1>4, <1>5

LEMMA EnvironmentTracked == ASSUME TypeOK, Tracked, Environment PROVE Tracked'
<1> USE DEF worker, store
<1>1. CASE Inform
      BY <1>1 DEF Inform, Tracked, CopiesAgree, DeletionKept
<1>2. CASE UserEdits
      BY <1>2 DEF UserEdits, Tracked, CopiesAgree, DeletionKept
<1>3. CASE UserDeletes
  <2>1. ~cache.deleting /\ ~local.deleting /\ pc \notin RemoveSteps \cup {"clear"}
        BY <1>3 DEF UserDeletes, Tracked, DeletionKept
  <2>   QED
        BY <1>3, <2>1 DEF UserDeletes, Tracked, CopiesAgree, DeletionKept
<1>4. CASE ClusterSettles \/ ClusterVanishes \/ NodesChange \/ NodesSettle
  <2>1. UNCHANGED <<store, local, pc>>
        BY <1>4 DEF ClusterSettles, ClusterVanishes, NodesChange, NodesSettle
  <2>   QED
        BY <2>1, FrameTracked DEF Tracked, DeletionKept
<1>5. CASE Crash
  <2>1. /\ obj' = obj /\ cache' = obj /\ pc' = "idle" /\ local' = NoCopy
        /\ current' = {"cache"} \ {"given", "local"}
        BY <1>5 DEF Crash, Proceed
  <2>2. ~local'.deleting /\ pc' \notin RemoveSteps \cup {"clear"}
        BY <2>1 DEF NoCopy, Submitted, RemoveSteps
  <2>   QED
        BY <2>1, <2>2 DEF Tracked, CopiesAgree, DeletionKept
<1>   QED
      BY <1>1, <1>2, <1>3, <1>4, <1>5 DEF Environment

(* Whatever writers and the informer do, a copy the API server would       *)
(* accept is the stored object, and nothing takes a deletion back.         *)
THEOREM CopiesTracked == Spec => []Tracked
<1>1. Init => Tracked
  <2> SUFFICES ASSUME Init PROVE Tracked
      OBVIOUS
  <2>1. cache = obj /\ local = obj /\ ~obj.deleting
        BY DEF Init, Submitted
  <2>   QED
        BY <2>1 DEF Init, Tracked, CopiesAgree, DeletionKept, RemoveSteps
<1>2. TypeOK /\ Tracked /\ [Next]_vars => Tracked'
  <2> SUFFICES ASSUME TypeOK, Tracked, [Next]_vars PROVE Tracked'
      OBVIOUS
  <2>1. CASE UNCHANGED vars
        BY <2>1, FrameTracked DEF vars, worker, Tracked, DeletionKept
  <2>   QED
        BY <2>1, CreatingTracked, RemovingTracked, SyncTracked, EnvironmentTracked
        DEF Next, Worker, Environment
<1>   QED
      BY <1>1, <1>2, TypeCorrect, PTL DEF Spec

-----------------------------------------------------------------------------
(* What the worker knows in the middle of a creation.                      *)

(* An identifier is in the worker's hands only between the request that    *)
(* brought it and the write that records it.                               *)
HeldByStep ==
    /\ held["eip"] # None     => pc = "eipRecord"
    /\ held["vpc"] # None     => pc \in {"subnet", "netStatus", "netSpec"}
    /\ held["subnet"] # None  => pc \in {"netStatus", "netSpec"}
    /\ held["nat"] # None     => pc = "natRecord"
    /\ held["snatEip"] # None => pc = "snatEipRecord"
    /\ held["snat"] # None    => pc = "snatRecord"
    /\ held["cluster"] # None => pc = "clusterRecord"

SameRecord ==
    /\ obj'.made = obj.made /\ obj'.ext = obj.ext
    /\ obj'.vpc = obj.vpc /\ obj'.subnet = obj.subnet

SameLife == obj'.exists = obj.exists /\ obj'.deleting = obj.deleting

(* create() decides on what is really recorded: the worker's copy may be   *)
(* behind in other fields only.                                            *)
LocalKnown ==
    pc \in CreateSteps =>
        /\ local.made = obj.made /\ local.ext = obj.ext
        /\ local.vpc = obj.vpc /\ local.subnet = obj.subnet

InHand == HeldByStep /\ LocalKnown

HandSteps == {"eipRecord", "subnet", "netStatus", "netSpec", "natRecord",
              "snatEipRecord", "snatRecord", "clusterRecord"}

LEMMA EmptyHands ==
    ASSUME TypeOK, HeldByStep, pc \notin HandSteps
    PROVE  held = Nothing
<1>1. \A k \in Kinds : held[k] = None
      BY DEF HeldByStep, HandSteps, Kinds
<1>   QED
      BY <1>1 DEF TypeOK, Nothing

(* A step with empty hands that ends outside create(). *)
LEMMA LeaveInHand ==
    ASSUME held' = Nothing, pc' \notin CreateSteps
    PROVE  InHand'
BY DEF InHand, HeldByStep, LocalKnown, Nothing, Kinds

(* After a write of create() the worker holds what is stored. *)
LEMMA RecordCopies ==
    ASSUME NEW at, NEW o, NEW done, NEW next, next # "idle", Record(at, o, done, next)
    PROVE  obj' = o /\ local' = o
BY DEF Record, Store, Proceed

LEMMA CreatingInHand == ASSUME TypeOK, Tracked, InHand, Creating PROVE InHand'
<1> USE DEF QuietCreate
<1>1. CASE ValidateCreate
  <2>1. held = Nothing
        BY <1>1, EmptyHands DEF ValidateCreate, InHand, HandSteps
  <2>2. held' = Nothing /\ local' = obj /\ obj' = obj
        BY <1>1, <2>1 DEF ValidateCreate, Abandon
  <2>   QED
        BY <2>2 DEF InHand, HeldByStep, LocalKnown, Nothing, Kinds
<1>2. CASE \/ CreateClusterEIP \/ CreateVPC \/ CreateSubnet \/ CreateNatGateway
           \/ CreateSnatRule \/ FindCluster \/ CreateCluster
  <2>1. pc \in CreateSteps /\ UNCHANGED <<obj, local>>
        BY <1>2 DEF CreateClusterEIP, CreateVPC, CreateSubnet, CreateNatGateway, CreateSnatRule,
                    FindCluster, CreateCluster, CreateSteps, RecordSteps, store
  <2>2. LocalKnown'
        BY <2>1 DEF InHand, LocalKnown
  <2>3. HeldByStep'
    <3> USE DEF InHand, HeldByStep, Request, Skip, Abandon, Nothing, Kinds, TypeOK
    <3>1. CASE CreateClusterEIP
          BY <3>1 DEF CreateClusterEIP
    <3>2. CASE CreateVPC
          BY <3>2 DEF CreateVPC
    <3>3. CASE CreateSubnet
          BY <3>3 DEF CreateSubnet
    <3>4. CASE CreateNatGateway
          BY <3>4 DEF CreateNatGateway
    <3>5. CASE CreateSnatRule
          BY <3>5 DEF CreateSnatRule
    <3>6. CASE FindCluster
          BY <3>6 DEF FindCluster
    <3>7. CASE CreateCluster
          BY <3>7 DEF CreateCluster
    <3>   QED
          BY <1>2, <3>1, <3>2, <3>3, <3>4, <3>5, <3>6, <3>7
  <2>   QED
        BY <2>2, <2>3 DEF InHand
<1>3. CASE CallFails \/ WriteFails
      BY <1>3, LeaveInHand DEF CallFails, WriteFails, Abandon, CreateSteps, RecordSteps
<1>4. CASE WaitForCreationComplete \/ AdoptCluster \/ SetRunning
  <2>1. held = Nothing
        BY <1>4, EmptyHands
        DEF WaitForCreationComplete, AdoptCluster, SetRunning, InHand, HandSteps
  <2>2. held' = Nothing
        BY <1>4, <2>1 DEF WaitForCreationComplete, AdoptCluster, SetRunning, Abandon
  <2>3. pc' \in {"setRunning", "report", "lost"}
        BY <1>4 DEF WaitForCreationComplete, AdoptCluster, SetRunning, Abandon,
                    UpdateCopy, Store, Proceed
  <2>4. pc' \notin CreateSteps
        BY <2>3 DEF CreateSteps, RecordSteps
  <2>   QED
        BY <2>2, <2>4, LeaveInHand
<1>5. CASE \/ RecordClusterEIP \/ RecordAddress \/ RecordNetworkStatus \/ RecordNetworkSpec
           \/ RecordNat \/ RecordSnatEIP \/ RecordSnat \/ RecordCluster \/ RecordPhase
  <2>1. local' = obj'
        BY <1>5, RecordCopies
        DEF RecordClusterEIP, RecordAddress, RecordNetworkStatus, RecordNetworkSpec,
            RecordNat, RecordSnatEIP, RecordSnat, RecordCluster, RecordPhase
  <2>2. HeldByStep'
    <3> USE DEF Record, Store, Proceed, InHand, HeldByStep, Kinds
    <3>1. CASE RecordClusterEIP
          BY <3>1 DEF RecordClusterEIP
    <3>2. CASE RecordAddress
          BY <3>2 DEF RecordAddress
    <3>3. CASE RecordNetworkStatus
          BY <3>3 DEF RecordNetworkStatus
    <3>4. CASE RecordNetworkSpec
          BY <3>4 DEF RecordNetworkSpec
    <3>5. CASE RecordNat
          BY <3>5 DEF RecordNat
    <3>6. CASE RecordSnatEIP
          BY <3>6 DEF RecordSnatEIP
    <3>7. CASE RecordSnat
          BY <3>7 DEF RecordSnat
    <3>8. CASE RecordCluster
          BY <3>8 DEF RecordCluster
    <3>9. CASE RecordPhase
          BY <3>9 DEF RecordPhase
    <3>   QED
          BY <1>5, <3>1, <3>2, <3>3, <3>4, <3>5, <3>6, <3>7, <3>8, <3>9
  <2>   QED
        BY <2>1, <2>2 DEF InHand, LocalKnown
<1>   QED
      BY <1>1, <1>2, <1>3, <1>4, <1>5 DEF Creating

LEMMA OtherInHand ==
    ASSUME TypeOK, InHand,
           \/ OnCCEConfigChanged \/ RecordError \/ SyncEndFails
           \/ AddFinalizer \/ RemoveAtOnce \/ Removing
    PROVE  InHand'
<1>1. held' = held /\ pc \notin HandSteps
  <2>1. CASE \/ OnCCEConfigChanged \/ RecordError \/ SyncEndFails
             \/ AddFinalizer \/ RemoveAtOnce
        BY <2>1 DEF OnCCEConfigChanged, RecordError, SyncEndFails, AddFinalizer, RemoveAtOnce,
                    HandSteps
  <2>2. CASE Removing
        BY <2>2 DEF Removing, EnsureDeletable, DeleteCCECluster, ClearExternalIP,
                    DeleteSnatRules, DeleteEndpointService, DeleteNetworkResource,
                    ForgetNetworkResource, CleanupDone, RemoveFinalizer, RemoveFails,
                    QuietRemove, HandSteps
  <2>   QED
        BY <2>1, <2>2
<1>2. held' = Nothing
      BY <1>1, EmptyHands DEF InHand
<1>3. pc' \notin CreateSteps
  <2> USE DEF CreateSteps, RecordSteps
  <2>1. CASE OnCCEConfigChanged
    <3>1. pc' = Dispatch(cache)
          BY <2>1 DEF OnCCEConfigChanged, Proceed
    <3>2. Dispatch(cache) \in {"idle", "clear", "validate", "wait", "report"}
          BY DEF Dispatch, TypeOK, Object, Phases
    <3>   QED
          BY <3>1, <3>2
  <2>2. CASE RecordError
        BY <2>2 DEF RecordError, SaveMessage, Store, Stay, Proceed
  <2>3. CASE SyncEndFails \/ AddFinalizer \/ RemoveAtOnce
        BY <2>3 DEF SyncEndFails, AddFinalizer, RemoveAtOnce, Store, Stay, Proceed
  <2>4. CASE Removing
    <3>1. pc \notin CreateSteps
          BY <2>4 DEF Removing, EnsureDeletable, DeleteCCECluster, ClearExternalIP,
                      DeleteSnatRules, DeleteEndpointService, DeleteNetworkResource,
                      ForgetNetworkResource, CleanupDone, RemoveFinalizer, RemoveFails
    <3>   QED
          BY <2>4, <3>1 DEF Removing, EnsureDeletable, DeleteCCECluster, ClearExternalIP,
                      DeleteSnatRules, DeleteEndpointService, DeleteNetworkResource,
                      ForgetNetworkResource, CleanupDone, RemoveFinalizer, RemoveFails,
                      UpdateOrGiveUp, GiveUp, Store, Stay, Proceed
  <2>   QED
        BY <2>1, <2>2, <2>3, <2>4
<1>   QED
      BY <1>2, <1>3, LeaveInHand

LEMMA EnvironmentInHand == ASSUME TypeOK, InHand, Environment PROVE InHand'
<1>1. CASE Crash
      BY <1>1, LeaveInHand DEF Crash, Proceed, CreateSteps, RecordSteps
<1>2. CASE \/ Inform \/ UserEdits \/ UserDeletes
           \/ ClusterSettles \/ ClusterVanishes \/ NodesChange \/ NodesSettle
  <2>1. UNCHANGED worker
        BY <1>2 DEF Inform, UserEdits, UserDeletes, ClusterSettles, ClusterVanishes,
                    NodesChange, NodesSettle, worker
  <2>2. SameRecord
        BY <1>2 DEF Inform, UserEdits, UserDeletes, ClusterSettles, ClusterVanishes,
                    NodesChange, NodesSettle, store, SameRecord, TypeOK, Object
  <2>   QED
        BY <2>1, <2>2 DEF worker, InHand, HeldByStep, LocalKnown, SameRecord
<1>   QED
      BY <1>1, <1>2 DEF Environment

(* Between its steps create() forgets nothing and believes nothing that is *)
(* not stored.                                                             *)
THEOREM HandsTracked == Spec => []InHand
<1>1. Init => InHand
      BY LeaveInHand DEF Init, InHand, HeldByStep, LocalKnown, Nothing, Kinds, CreateSteps, RecordSteps
<1>2. TypeOK /\ Tracked /\ InHand /\ [Next]_vars => InHand'
  <2> SUFFICES ASSUME TypeOK, Tracked, InHand, [Next]_vars PROVE InHand'
      OBVIOUS
  <2>1. CASE UNCHANGED vars
        BY <2>1 DEF vars, store, worker, InHand, HeldByStep, LocalKnown
  <2>   QED
        BY <2>1, CreatingInHand, OtherInHand, EnvironmentInHand
        DEF Next, Worker, Environment
<1>   QED
      BY <1>1, <1>2, TypeCorrect, CopiesTracked, PTL DEF Spec

-----------------------------------------------------------------------------
(* A removed configuration no longer names any resource, also when the      *)
(* removal worked on a copy that had fallen behind.                         *)

(* The removal strikes a SNAT rule off with its NAT gateway, so a rule must *)
(* never be recorded without one.                                           *)
RuleHasGateway(o) == o.made["snat"] # None => o.made["nat"] # None

GatewayFirst ==
    /\ RuleHasGateway(obj) /\ RuleHasGateway(cache) /\ RuleHasGateway(local)
    /\ pc = "natRecord" => held["nat"] # None
    /\ pc = "snat" /\ want.nat # "off" => obj.made["nat"] # None
    /\ pc \in {"snatEipRecord", "snatRecord"} => obj.made["nat"] # None

(* What the removal has got through is no longer on the worker's copy. *)
CleanedUp ==
    /\ pc \in {"clearExt", "cleanup", "unfinalize"} => local.made["cluster"] = None
    /\ pc = "unfinalize" => \A k \in Networks : local.made[k] = None

(* Nobody can write an object that is gone. *)
GoneForGood == ~obj.exists => current \subseteq {"cache"}

RemovalInv == GatewayFirst /\ CleanedUp /\ GoneForGood /\ NothingRecorded

AllHaveGateway == RuleHasGateway(obj) /\ RuleHasGateway(cache) /\ RuleHasGateway(local)

(* What holds at every step, and the steps that need more than that. *)
Common == AllHaveGateway /\ GoneForGood /\ NothingRecorded

CarefulSteps == {"natRecord", "snat", "snatEipRecord", "snatRecord",
                 "clearExt", "cleanup", "unfinalize"}

LEMMA CommonSuffices ==
    ASSUME Common', pc' \notin CarefulSteps PROVE RemovalInv'
BY DEF Common, AllHaveGateway, CarefulSteps, RemovalInv, GatewayFirst, CleanedUp

LEMMA InvCommon == ASSUME RemovalInv PROVE Common
BY DEF Common, AllHaveGateway, RemovalInv, GatewayFirst

LEMMA NoCopyRule == RuleHasGateway(NoCopy)
BY DEF RuleHasGateway, NoCopy, Submitted, Nothing, Kinds

LEMMA StoreCommon ==
    ASSUME Common, NEW o, NEW next, o.exists, RuleHasGateway(o), Store(o, next), UNCHANGED want
    PROVE  Common' /\ pc' = next /\ (next # "idle" => local' = o)
<1>1. /\ pc' = next /\ obj' = o /\ cache' = cache
      /\ local' = IF next = "idle" THEN NoCopy ELSE o
      BY DEF Store, Proceed
<1>2. RuleHasGateway(local')
      BY <1>1, NoCopyRule
<1>3. RuleHasGateway(obj') /\ RuleHasGateway(cache')
      BY <1>1 DEF Common, AllHaveGateway
<1>   QED
      BY <1>1, <1>2, <1>3 DEF Common, AllHaveGateway, GoneForGood, NothingRecorded, Removed,
                              RuleHasGateway

LEMMA StayCommon ==
    ASSUME Common, NEW next, Stay(next)
    PROVE  Common' /\ pc' = next /\ (next # "idle" => local' = local)
<1>1. /\ pc' = next /\ obj' = obj /\ cache' = cache
      /\ local' = IF next = "idle" THEN NoCopy ELSE local
      /\ current' \subseteq current
      BY DEF Stay, Proceed
<1>2. RuleHasGateway(local')
      BY <1>1, NoCopyRule DEF Common, AllHaveGateway
<1>   QED
      BY <1>1, <1>2 DEF Common, AllHaveGateway, GoneForGood, NothingRecorded, Removed,
                        RuleHasGateway

LEMMA FrameCommon ==
    ASSUME Common, UNCHANGED <<store, local>> PROVE Common'
BY DEF Common, AllHaveGateway, RuleHasGateway, GoneForGood, NothingRecorded, Removed, store

LEMMA FrameRemoval ==
    ASSUME RemovalInv, UNCHANGED <<want, store, worker>> PROVE RemovalInv'
BY DEF RemovalInv, GatewayFirst, CleanedUp, RuleHasGateway, GoneForGood, NothingRecorded,
       Removed, store, worker

-----------------------------------------------------------------------------
(* One lemma per group of actions.                                         *)

LEMMA EnvironmentRemoval == ASSUME TypeOK, RemovalInv, Environment PROVE RemovalInv'
<1>1. CASE ClusterSettles \/ ClusterVanishes \/ NodesChange \/ NodesSettle
      BY <1>1, FrameRemoval DEF ClusterSettles, ClusterVanishes, NodesChange, NodesSettle
<1>2. CASE Inform
      BY <1>2 DEF Inform, worker, RemovalInv, GatewayFirst, CleanedUp, RuleHasGateway,
                  GoneForGood, NothingRecorded, Removed
<1>3. CASE UserEdits
      BY <1>3 DEF UserEdits, worker, RemovalInv, GatewayFirst, CleanedUp, RuleHasGateway,
                  GoneForGood, NothingRecorded, Removed
<1>4. CASE UserDeletes
  <2>1. /\ obj'.made = obj.made /\ obj'.finalizer = obj.finalizer
        /\ obj'.finalizer => obj'.exists
        /\ UNCHANGED <<want, cache, worker>> /\ current' = {}
        BY <1>4 DEF UserDeletes, TypeOK, Object
  <2>   QED
        BY <2>1 DEF worker, RemovalInv, GatewayFirst, CleanedUp, RuleHasGateway,
                    GoneForGood, NothingRecorded, Removed
<1>5. CASE Crash
  <2>1. /\ obj' = obj /\ cache' = obj /\ pc' = "idle" /\ local' = NoCopy
        /\ current' = {"cache"} \ {"given", "local"}
        BY <1>5 DEF Crash, Proceed
  <2>2. RuleHasGateway(obj') /\ RuleHasGateway(cache') /\ RuleHasGateway(local')
        BY <2>1, NoCopyRule DEF RemovalInv, GatewayFirst
  <2>3. Common' /\ pc' \notin CarefulSteps
        BY <2>1, <2>2 DEF Common, AllHaveGateway, RuleHasGateway, GoneForGood,
                          NothingRecorded, Removed, RemovalInv, CarefulSteps
  <2>   QED
        BY <2>3, CommonSuffices
<1>   QED
      BY <1>1, <1>2, <1>3, <1>4, <1>5 DEF Environment

LEMMA SyncRemoval ==
    ASSUME TypeOK, Tracked, RemovalInv,
           \/ OnCCEConfigChanged \/ RecordError \/ SyncEndFails
           \/ AddFinalizer \/ RemoveAtOnce
    PROVE  RemovalInv'
<1> USE InvCommon
<1>1. CASE OnCCEConfigChanged
  <2>1. /\ obj' = obj /\ cache' = cache /\ pc' = Dispatch(cache) /\ local' \in {cache, NoCopy}
        BY <1>1 DEF OnCCEConfigChanged, Proceed
  <2>2. AllHaveGateway'
        BY <2>1, NoCopyRule DEF Common, AllHaveGateway, RuleHasGateway
  <2>3. GoneForGood'
    <3>1. CASE obj.exists
          BY <2>1, <3>1 DEF GoneForGood
    <3>2. CASE ~obj.exists /\ "cache" \in current
      <4>1. ~cache.exists
            BY <3>2 DEF Tracked, CopiesAgree
      <4>2. pc' = "idle"
            BY <2>1, <4>1 DEF Dispatch, TypeOK, Object
      <4>   QED
            BY <1>1, <4>2 DEF OnCCEConfigChanged, Proceed, GoneForGood
    <3>3. CASE "cache" \notin current
          BY <1>1, <3>3 DEF OnCCEConfigChanged, Proceed, GoneForGood
    <3>   QED
          BY <3>1, <3>2, <3>3
  <2>4. NothingRecorded'
        BY <2>1 DEF Common, NothingRecorded, Removed
  <2>5. pc' \notin CarefulSteps
        BY <2>1 DEF Dispatch, TypeOK, Object, Phases, CarefulSteps
  <2>   QED
        BY <2>2, <2>3, <2>4, <2>5, CommonSuffices DEF Common
<1>2. ASSUME NEW e \in BOOLEAN, NEW next, NEW fallback, SaveMessage(e, next, fallback),
             {next, fallback} \cap CarefulSteps = {}, UNCHANGED want
      PROVE  RemovalInv'
  <2>1. CASE "local" \in current /\ Store([local EXCEPT !.failed = e], next)
    <3>1. /\ [local EXCEPT !.failed = e].exists
          /\ RuleHasGateway([local EXCEPT !.failed = e])
      <4>1. local = obj /\ obj.exists
            BY <2>1 DEF Tracked, CopiesAgree, Common, GoneForGood
      <4>2. /\ [local EXCEPT !.failed = e].exists = local.exists
            /\ [local EXCEPT !.failed = e].made = local.made
            BY DEF TypeOK, Object
      <4>   QED
            BY <4>1, <4>2 DEF Common, AllHaveGateway, RuleHasGateway
    <3>   QED
          BY <1>2, <2>1, <3>1, StoreCommon, CommonSuffices
  <2>2. CASE Stay(next) \/ Stay(fallback)
        BY <1>2, <2>2, StayCommon, CommonSuffices
  <2>   QED
        BY <1>2, <2>1, <2>2 DEF SaveMessage
<1>3. CASE RecordError
  <2>1. CASE pc = "report" /\ SaveMessage(err, "finalizer", "lost")
        BY <1>2, <1>3, <2>1 DEF RecordError, Quiet, CarefulSteps, TypeOK
  <2>2. CASE /\ pc = "clear"
             /\ LET next == IF local.finalizer THEN "ensure" ELSE "idle"
                IN  SaveMessage(FALSE, next, next)
    <3>1. PICK next \in {"ensure", "idle"} : SaveMessage(FALSE, next, next)
          BY <2>2
    <3>2. {next, next} \cap CarefulSteps = {} /\ UNCHANGED want
          BY <1>3 DEF RecordError, Quiet, CarefulSteps
    <3>   QED
          BY <1>2, <3>1, <3>2
  <2>   QED
        BY <1>3, <2>1, <2>2 DEF RecordError
<1>4. CASE SyncEndFails
      BY <1>4, StayCommon, CommonSuffices DEF SyncEndFails, CarefulSteps
<1>5. CASE AddFinalizer
  <2>1. CASE Stay("idle")
        BY <2>1, StayCommon, CommonSuffices DEF CarefulSteps
  <2>2. CASE /\ \E copy \in {"given", "local"} : copy \in current
             /\ Store([obj EXCEPT !.finalizer = TRUE], "idle")
    <3>1. obj.exists
          BY <2>2 DEF Common, GoneForGood
    <3>2. /\ [obj EXCEPT !.finalizer = TRUE].exists = obj.exists
          /\ [obj EXCEPT !.finalizer = TRUE].made = obj.made
          BY DEF TypeOK, Object
    <3>3. RuleHasGateway([obj EXCEPT !.finalizer = TRUE])
          BY <3>2 DEF Common, AllHaveGateway, RuleHasGateway
    <3>   QED
          BY <1>5, <2>2, <3>1, <3>2, <3>3, StoreCommon, CommonSuffices DEF AddFinalizer, CarefulSteps
  <2>   QED
        BY <1>5, <2>1, <2>2 DEF AddFinalizer
<1>6. CASE RemoveAtOnce
  <2>1. PICK next \in {"ensure", "idle"} : Stay(next)
        BY <1>6 DEF RemoveAtOnce
  <2>   QED
        BY <2>1, StayCommon, CommonSuffices DEF CarefulSteps
<1>   QED
      BY <1>1, <1>3, <1>4, <1>5, <1>6

-----------------------------------------------------------------------------
LEMMA CreatingRemoval ==
    ASSUME TypeOK, Tracked, InHand, RemovalInv, Creating PROVE RemovalInv'
<1> USE InvCommon
<1>1. want' = want
      BY DEF Creating, ValidateCreate, CreateClusterEIP, RecordClusterEIP, RecordAddress, CreateVPC,
             CreateSubnet, RecordNetworkStatus, RecordNetworkSpec, CreateNatGateway, RecordNat,
             CreateSnatRule, RecordSnatEIP, RecordSnat, FindCluster, AdoptCluster, CreateCluster,
             RecordCluster, RecordPhase, WaitForCreationComplete, SetRunning, CallFails, WriteFails,
             Record, Quiet, QuietCreate
<1>2. CASE ValidateCreate
  <2>1. UNCHANGED <<obj, cache>> /\ local' = obj /\ obj.exists /\ pc' \in {"report", "eip"}
        BY <1>2 DEF ValidateCreate, Abandon
  <2>2. Common' /\ pc' \notin CarefulSteps
        BY <2>1 DEF Common, AllHaveGateway, RuleHasGateway, GoneForGood, NothingRecorded,
                    Removed, CarefulSteps
  <2>   QED
        BY <2>2, CommonSuffices
<1>3. CASE WaitForCreationComplete \/ CallFails \/ WriteFails
  <2>1. UNCHANGED <<store, local>> /\ pc' \in {"setRunning", "report", "lost"}
        BY <1>3 DEF WaitForCreationComplete, CallFails, WriteFails, Abandon
  <2>   QED
        BY <2>1, FrameCommon, CommonSuffices DEF CarefulSteps
<1>4. CASE AdoptCluster \/ SetRunning
  <2>1. PICK p \in {"creating", "running"} : UpdateCopy([local EXCEPT !.phase = p], "report")
        BY <1>4 DEF AdoptCluster, SetRunning
  <2>2. CASE "local" \in current /\ Store([local EXCEPT !.phase = p], "report")
    <3>1. local = obj /\ obj.exists
          BY <2>2 DEF Tracked, CopiesAgree, Common, GoneForGood
    <3>2. /\ [local EXCEPT !.phase = p].exists = local.exists
          /\ [local EXCEPT !.phase = p].made = local.made
          BY DEF TypeOK, Object
    <3>3. RuleHasGateway([local EXCEPT !.phase = p])
          BY <3>1, <3>2 DEF Common, AllHaveGateway, RuleHasGateway
    <3>   QED
          BY <1>1, <2>2, <3>1, <3>2, <3>3, StoreCommon, CommonSuffices DEF CarefulSteps
  <2>3. CASE pc' = "lost" /\ UNCHANGED <<store, local>>
        BY <2>3, FrameCommon, CommonSuffices DEF CarefulSteps
  <2>   QED
        BY <2>1, <2>2, <2>3 DEF UpdateCopy
<1>5. CASE \/ CreateClusterEIP \/ CreateVPC \/ CreateSubnet \/ FindCluster \/ CreateCluster
  <2>1. UNCHANGED <<store, local>>
        BY <1>5 DEF CreateClusterEIP, CreateVPC, CreateSubnet, FindCluster, CreateCluster, QuietCreate
  <2>2. pc' \notin CarefulSteps
        BY <1>5 DEF CreateClusterEIP, CreateVPC, CreateSubnet, FindCluster, CreateCluster, Request,
                    Skip, Abandon, CarefulSteps
  <2>   QED
        BY <2>1, <2>2, FrameCommon, CommonSuffices
<1>6. CASE CreateNatGateway
  <2>1. pc = "nat" /\ UNCHANGED <<store, local>> /\ local.made = obj.made
        BY <1>6 DEF CreateNatGateway, QuietCreate, InHand, LocalKnown, CreateSteps
  <2>2. Common'
        BY <2>1, FrameCommon
  <2>3. pc' = "natRecord" => held'["nat"] # None
    <3>1. CASE Request("nat", "live", {<<"subnet", local.subnet>>}, "natRecord")
      <4>1. "nat" \in Kinds /\ NewId("nat") \in Ids
            BY <3>1, NewIdFresh DEF Request, Kinds
      <4>   QED
            BY <3>1, <4>1, IdsAssumption DEF Request, Abandon, TypeOK
    <3>2. CASE Skip("snat")
          BY <3>2 DEF Skip
    <3>   QED
          BY <1>6, <3>1, <3>2 DEF CreateNatGateway
  <2>4. pc' \in {"natRecord", "snat", "report"}
        BY <1>6 DEF CreateNatGateway, Request, Skip, Abandon
  <2>5. pc' = "snat" /\ want.nat # "off" => obj.made["nat"] # None
        BY <1>6, <2>1 DEF CreateNatGateway, NeedNat, Request, Abandon
  <2>6. UNCHANGED obj
        BY <2>1 DEF store
  <2>   QED
        BY <1>1, <2>2, <2>3, <2>4, <2>5, <2>6
        DEF Common, AllHaveGateway, RemovalInv, GatewayFirst, CleanedUp
<1>7. CASE CreateSnatRule
  <2>1. pc = "snat" /\ UNCHANGED <<store, local>>
        BY <1>7 DEF CreateSnatRule, QuietCreate
  <2>2. Common'
        BY <2>1, FrameCommon
  <2>3. pc' \in {"snatEipRecord", "snatRecord", "cluster", "report"}
        BY <1>7 DEF CreateSnatRule, Request, Skip, Abandon
  <2>4. pc' \in {"snatEipRecord", "snatRecord"} => want.nat # "off"
        BY <1>7 DEF CreateSnatRule, NeedSnatEIP, NeedSnat, Skip
  <2>5. UNCHANGED obj
        BY <2>1 DEF store
  <2>6. pc' \in {"snatEipRecord", "snatRecord"} => obj.made["nat"] # None
        BY <2>1, <2>4 DEF RemovalInv, GatewayFirst
  <2>   QED
        BY <2>2, <2>3, <2>5, <2>6
        DEF Common, AllHaveGateway, RemovalInv, GatewayFirst, CleanedUp
<1>8. ASSUME NEW at, NEW o, NEW done, NEW next, next # "idle", Record(at, o, done, next),
             o.exists = obj.exists, RuleHasGateway(o)
      PROVE  Common' /\ pc = at /\ pc' = next /\ obj' = o
      BY <1>1, <1>8, StoreCommon DEF Record, Store
<1>9. ASSUME NEW at, NEW o, NEW done, NEW next, next \notin CarefulSteps \cup {"idle"},
              Record(at, o, done, next), o.exists = obj.exists, RuleHasGateway(o)
       PROVE  RemovalInv'
  <2>1. next # "idle"
        BY <1>9
  <2>2. Common' /\ pc' = next
        BY <1>8, <1>9, <2>1
  <2>   QED
        BY <1>9, <2>2, CommonSuffices
<1>10. /\ obj \in Object /\ obj.made \in [Kinds -> Ids \cup {None}]
      /\ {"eip", "vpc", "subnet", "nat", "snatEip", "snat", "cluster"} = Kinds
      /\ RuleHasGateway(obj)
      BY DEF TypeOK, Object, Kinds, Common, AllHaveGateway
<1>11. CASE RecordClusterEIP
  <2>1. LET o == [obj EXCEPT !.made = Name("eip"), !.ext = TRUE]
        IN  o.exists = obj.exists /\ RuleHasGateway(o)
        BY <1>10 DEF Name, Object, RuleHasGateway
  <2>   QED
        BY <1>9, <1>11, <2>1 DEF RecordClusterEIP, CarefulSteps
<1>12. CASE RecordAddress
  <2>1. LET o == [obj EXCEPT !.ext = TRUE] IN o.exists = obj.exists /\ RuleHasGateway(o)
        BY <1>10 DEF Object, RuleHasGateway
  <2>   QED
        BY <1>9, <1>12, <2>1 DEF RecordAddress, CarefulSteps
<1>13. CASE RecordNetworkStatus
  <2>1. LET o == [obj EXCEPT !.made = NetworkStatus] IN o.exists = obj.exists /\ RuleHasGateway(o)
        BY <1>10 DEF NetworkStatus, Object, RuleHasGateway
  <2>   QED
        BY <1>9, <1>13, <2>1 DEF RecordNetworkStatus, CarefulSteps
<1>14. CASE RecordNetworkSpec
  <2>1. PICK o : o = [obj EXCEPT !.subnet = held["subnet"],
                                 !.vpc = IF held["vpc"] # None THEN held["vpc"] ELSE @]
        OBVIOUS
  <2>2. o.exists = obj.exists /\ RuleHasGateway(o)
        BY <1>10, <2>1 DEF Object, RuleHasGateway
  <2>3. Record("netSpec", o, {"vpc", "subnet"}, "nat")
        BY <1>14, <2>1 DEF RecordNetworkSpec
  <2>   QED
        BY <1>9, <2>2, <2>3 DEF CarefulSteps
<1>15. CASE RecordNat
  <2>1. pc = "natRecord" /\ held["nat"] # None
        BY <1>15 DEF RecordNat, Record, RemovalInv, GatewayFirst
  <2>2. LET o == [obj EXCEPT !.made = Name("nat")]
        IN  o.exists = obj.exists /\ RuleHasGateway(o) /\ o.made["nat"] # None
        BY <1>10, <2>1 DEF Name, Object, RuleHasGateway
  <2>3. Common' /\ pc' = "snat" /\ obj'.made["nat"] # None
        BY <1>8, <1>15, <2>2 DEF RecordNat
  <2>   QED
        BY <2>3 DEF Common, AllHaveGateway, RemovalInv, GatewayFirst, CleanedUp
<1>16. CASE RecordSnatEIP
  <2>1. pc = "snatEipRecord" /\ obj.made["nat"] # None
        BY <1>16 DEF RecordSnatEIP, Record, RemovalInv, GatewayFirst
  <2>2. LET o == [obj EXCEPT !.made = Name("snatEip")]
        IN  o.exists = obj.exists /\ RuleHasGateway(o) /\ o.made["nat"] # None
        BY <1>10, <2>1 DEF Name, Object, RuleHasGateway
  <2>3. Common' /\ pc' = "snat" /\ obj'.made["nat"] # None
        BY <1>8, <1>16, <2>2 DEF RecordSnatEIP
  <2>   QED
        BY <2>3 DEF Common, AllHaveGateway, RemovalInv, GatewayFirst, CleanedUp
<1>17. CASE RecordSnat
  <2>1. pc = "snatRecord" /\ obj.made["nat"] # None
        BY <1>17 DEF RecordSnat, Record, RemovalInv, GatewayFirst
  <2>2. LET o == [obj EXCEPT !.made = Name("snat")]
        IN  o.exists = obj.exists /\ RuleHasGateway(o)
        BY <1>10, <2>1 DEF Name, Object, RuleHasGateway
  <2>   QED
        BY <1>9, <1>17, <2>2 DEF RecordSnat, CarefulSteps
<1>18. CASE RecordCluster
  <2>1. LET o == [obj EXCEPT !.made = Name("cluster")]
        IN  o.exists = obj.exists /\ RuleHasGateway(o)
        BY <1>10 DEF Name, Object, RuleHasGateway
  <2>   QED
        BY <1>9, <1>18, <2>1 DEF RecordCluster, CarefulSteps
<1>19. CASE RecordPhase
  <2>1. LET o == [obj EXCEPT !.phase = "creating", !.failed = FALSE]
        IN  o.exists = obj.exists /\ RuleHasGateway(o)
        BY <1>10 DEF Object, RuleHasGateway
  <2>   QED
        BY <1>9, <1>19, <2>1 DEF RecordPhase, CarefulSteps
<1>   QED
      BY <1>2, <1>3, <1>4, <1>5, <1>6, <1>7, <1>11, <1>12, <1>13, <1>14, <1>15, <1>16, <1>17,
         <1>18, <1>19 DEF Creating

-----------------------------------------------------------------------------
(* A write of the removal starts from the stored object, or ends the sync. *)
LEMMA UpdateOrGiveUpRemoval ==
    ASSUME TypeOK, Tracked, RemovalInv, UNCHANGED want, NEW o, NEW next, next # "idle",
           o.exists = local.exists, RuleHasGateway(o), UpdateOrGiveUp(o, next)
    PROVE  Common' /\ (pc' = "idle" \/ (pc' = next /\ local' = o))
<1>1. CASE "local" \in current /\ Store(o, next)
  <2>1. o.exists
        BY <1>1, InvCommon DEF Tracked, CopiesAgree, Common, GoneForGood
  <2>   QED
        BY <1>1, <2>1, InvCommon, StoreCommon
<1>2. CASE GiveUp
      BY <1>2, InvCommon, StayCommon DEF GiveUp
<1>   QED
      BY <1>1, <1>2 DEF UpdateOrGiveUp

LEMMA GiveUpRemoval == ASSUME RemovalInv, GiveUp PROVE RemovalInv'
BY InvCommon, StayCommon, CommonSuffices DEF GiveUp, CarefulSteps

LEMMA RemovingRemoval == ASSUME TypeOK, Tracked, RemovalInv, Removing PROVE RemovalInv'
<1> USE InvCommon
<1>1. want' = want
      BY DEF Removing, EnsureDeletable, DeleteCCECluster, ClearExternalIP, DeleteSnatRules,
             DeleteEndpointService, DeleteNetworkResource, ForgetNetworkResource, CleanupDone,
             RemoveFinalizer, RemoveFails, QuietRemove
<1>2. /\ local \in Object /\ local.made \in [Kinds -> Ids \cup {None}]
      /\ {"eip", "vpc", "subnet", "nat", "snatEip", "snat", "cluster"} = Kinds
      /\ RuleHasGateway(local)
      BY DEF TypeOK, Object, Kinds, Common, AllHaveGateway
<1>3. CASE EnsureDeletable
      BY <1>3, FrameCommon, CommonSuffices DEF EnsureDeletable, CarefulSteps
<1>4. CASE DeleteCCECluster
  <2>1. CASE local.made["cluster"] = None /\ pc' = "cleanup" /\ UNCHANGED <<store, local>>
        BY <2>1, FrameCommon DEF Common, AllHaveGateway, RemovalInv, GatewayFirst, CleanedUp
  <2>2. CASE UpdateOrGiveUp([local EXCEPT !.made["cluster"] = None], "clearExt")
    <3> DEFINE o == [local EXCEPT !.made["cluster"] = None]
    <3>1. /\ o.exists = local.exists /\ RuleHasGateway(o)
          /\ o.made["cluster"] = None
          BY <1>2 DEF Object, RuleHasGateway
    <3> HIDE DEF o
    <3>2. Common' /\ (pc' = "idle" \/ (pc' = "clearExt" /\ local'.made["cluster"] = None))
          BY <1>1, <2>2, <3>1, UpdateOrGiveUpRemoval DEF o
    <3>   QED
          BY <3>2 DEF Common, AllHaveGateway, RemovalInv, GatewayFirst, CleanedUp
  <2>3. CASE pc = "delCluster" /\ UNCHANGED <<pc, store, local>>
        BY <2>3, FrameCommon, CommonSuffices DEF CarefulSteps
  <2>   QED
        BY <1>4, <2>1, <2>2, <2>3 DEF DeleteCCECluster
<1>5. CASE ClearExternalIP
  <2> DEFINE o == [local EXCEPT !.ext = FALSE]
  <2>1. o.exists = local.exists /\ o.made = local.made
        BY <1>2 DEF Object
  <2>2. RuleHasGateway(o) /\ o.made["cluster"] = None
        BY <1>2, <1>5, <2>1 DEF RuleHasGateway, ClearExternalIP, RemovalInv, CleanedUp
  <2> HIDE DEF o
  <2>3. Common' /\ (pc' = "idle" \/ (pc' = "cleanup" /\ local'.made["cluster"] = None))
        BY <1>1, <1>5, <2>1, <2>2, UpdateOrGiveUpRemoval DEF ClearExternalIP, o
  <2>   QED
        BY <2>3 DEF Common, AllHaveGateway, RemovalInv, GatewayFirst, CleanedUp
<1>6. CASE DeleteSnatRules \/ DeleteEndpointService
      BY <1>1, <1>6, FrameRemoval
      DEF DeleteSnatRules, DeleteEndpointService, QuietRemove, worker
<1>7. CASE DeleteNetworkResource
  <2>1. CASE UNCHANGED <<store, local, pc>>
        BY <1>1, <1>7, <2>1, FrameRemoval DEF DeleteNetworkResource, QuietRemove, worker
  <2>2. CASE GiveUp
        BY <2>2, GiveUpRemoval
  <2>   QED
        BY <1>7, <2>1, <2>2 DEF DeleteNetworkResource
<1>8. CASE ForgetNetworkResource
  <2>1. PICK k \in Networks :
             UpdateOrGiveUp([local EXCEPT !.made = Without(Forgotten(k))], "cleanup")
        BY <1>8 DEF ForgetNetworkResource
  <2>2. PICK o : o = [local EXCEPT !.made = Without(Forgotten(k))]
        OBVIOUS
  <2>3. o.exists = local.exists /\ o.made = Without(Forgotten(k))
        BY <1>2, <2>2 DEF Object
  <2>4. RuleHasGateway(o)
        BY <1>2, <2>3 DEF RuleHasGateway, Without, Forgotten
  <2>5. o.made["cluster"] = None
        BY <1>2, <1>8, <2>3 DEF ForgetNetworkResource, RemovalInv, CleanedUp, Without
  <2>6. Common' /\ (pc' = "idle" \/ (pc' = "cleanup" /\ local'.made["cluster"] = None))
        BY <1>1, <2>1, <2>2, <2>3, <2>4, <2>5, UpdateOrGiveUpRemoval
  <2>   QED
        BY <2>6 DEF Common, AllHaveGateway, RemovalInv, GatewayFirst, CleanedUp
<1>9. CASE CleanupDone
  <2>1. UNCHANGED <<store, local>> /\ pc = "cleanup" /\ pc' = "unfinalize"
        BY <1>9 DEF CleanupDone
  <2>2. local.made["cluster"] = None /\ \A k \in Networks : local.made[k] = None
        BY <1>9, <2>1 DEF CleanupDone, Target, RemovalInv, CleanedUp
  <2>3. Common'
        BY <2>1, FrameCommon
  <2>   QED
        BY <2>1, <2>2, <2>3 DEF Common, AllHaveGateway, RemovalInv, GatewayFirst, CleanedUp
<1>10. CASE RemoveFinalizer
  <2>1. pc = "unfinalize" /\ UpdateOrGiveUp([local EXCEPT !.exists = FALSE], "idle")
        BY <1>10 DEF RemoveFinalizer
  <2>2. CASE "local" \in current /\ Store([local EXCEPT !.exists = FALSE], "idle")
    <3>1. \A k \in Kinds : local.made[k] = None
      <4>1. {"nat", "eip", "snatEip", "subnet", "vpc"} = Networks
            BY DEF Networks, Before
      <4>2. local.made["cluster"] = None /\ \A k \in Networks : local.made[k] = None
            BY <2>1 DEF RemovalInv, CleanedUp
      <4>   QED
            BY <1>2, <4>1, <4>2 DEF RuleHasGateway
    <3>2. local.made = Nothing
          BY <1>2, <3>1 DEF Nothing
    <3>3. /\ obj' = [local EXCEPT !.exists = FALSE] /\ cache' = cache
          /\ pc' = "idle" /\ local' = NoCopy /\ current' = {}
          BY <1>1, <2>2 DEF Store, Proceed, NoCopy
    <3>4. obj'.made = Nothing
          BY <1>2, <3>2, <3>3 DEF Object
    <3>5. AllHaveGateway'
          BY <3>3, <3>4, NoCopyRule DEF Common, AllHaveGateway, RuleHasGateway, Nothing, Kinds
    <3>6. Common'
          BY <3>3, <3>4, <3>5 DEF Common, GoneForGood, NothingRecorded
    <3>   QED
          BY <3>3, <3>6, CommonSuffices DEF CarefulSteps
  <2>3. CASE GiveUp
        BY <2>3, GiveUpRemoval
  <2>   QED
        BY <2>1, <2>2, <2>3 DEF UpdateOrGiveUp
<1>11. CASE RemoveFails
      BY <1>11, GiveUpRemoval DEF RemoveFails
<1>   QED
      BY <1>3, <1>4, <1>5, <1>6, <1>7, <1>8, <1>9, <1>10, <1>11 DEF Removing

LEMMA RemovalKept == Spec => []RemovalInv
<1>1. Init => RemovalInv
  <2> SUFFICES ASSUME Init PROVE RemovalInv
      OBVIOUS
  <2>1. /\ obj.made = Nothing /\ cache = obj /\ local = obj /\ obj.exists /\ pc = "idle"
        BY DEF Init, Submitted
  <2>   QED
        BY <2>1 DEF RemovalInv, GatewayFirst, RuleHasGateway, CleanedUp, GoneForGood,
                    NothingRecorded, Removed, Nothing, Kinds
<1>2. TypeOK /\ Tracked /\ InHand /\ RemovalInv /\ [Next]_vars => RemovalInv'
  <2> SUFFICES ASSUME TypeOK, Tracked, InHand, RemovalInv, [Next]_vars PROVE RemovalInv'
      OBVIOUS
  <2>1. CASE UNCHANGED vars
        BY <2>1, FrameRemoval DEF vars
  <2>   QED
        BY <2>1, CreatingRemoval, RemovingRemoval, SyncRemoval, EnvironmentRemoval
        DEF Next, Worker, Environment
<1>   QED
      BY <1>1, <1>2, TypeCorrect, CopiesTracked, HandsTracked, PTL DEF Spec

(* A configuration goes away only when it names no resource any more: a    *)
(* removal on a copy that fell behind never strikes off what it did not    *)
(* delete and then lets the object go.                                     *)
THEOREM RemovedNamesNothing == Spec => []NothingRecorded
<1>1. RemovalInv => NothingRecorded
      BY DEF RemovalInv
<1>   QED
      BY <1>1, RemovalKept, PTL

-----------------------------------------------------------------------------
(* The nodes are looked at one step before the cluster is deleted.         *)

(* Between the two steps nobody starts anything on a node: the             *)
(* configuration is being deleted.                                         *)
NodesStay == pc = "delCluster" /\ faults = 0 /\ Exists(MyCluster) => ~busy

(* Only the look at the nodes leads to the deletion of the cluster.        *)
LEMMA OnlyEnsureLeads ==
    ASSUME TypeOK, Next, pc' = "delCluster", ~EnsureDeletable
    PROVE  DeleteCCECluster \/ (Environment /\ ~Crash)
<1>1. ~Creating
  <2>1. ASSUME NEW k, NEW state, NEW parents, NEW next, Request(k, state, parents, next),
               next # "delCluster"
        PROVE  FALSE
        BY <2>1 DEF Request, Abandon
  <2>2. ~CreateClusterEIP /\ ~CreateVPC /\ ~CreateSubnet /\ ~CreateNatGateway
        BY <2>1 DEF CreateClusterEIP, CreateVPC, CreateSubnet, CreateNatGateway, Skip
  <2>3. ~CreateSnatRule /\ ~FindCluster /\ ~CreateCluster
        BY <2>1 DEF CreateSnatRule, FindCluster, CreateCluster, Skip
  <2>4. ~ValidateCreate /\ ~CallFails /\ ~WriteFails /\ ~WaitForCreationComplete
        BY DEF ValidateCreate, CallFails, WriteFails, WaitForCreationComplete, Abandon
  <2>5. ~AdoptCluster /\ ~SetRunning
        BY DEF AdoptCluster, SetRunning, UpdateCopy, Store, Proceed
  <2>6. /\ ~RecordClusterEIP /\ ~RecordAddress /\ ~RecordNetworkStatus /\ ~RecordNetworkSpec
        /\ ~RecordNat /\ ~RecordSnatEIP /\ ~RecordSnat /\ ~RecordCluster /\ ~RecordPhase
        BY DEF RecordClusterEIP, RecordAddress, RecordNetworkStatus, RecordNetworkSpec,
               RecordNat, RecordSnatEIP, RecordSnat, RecordCluster, RecordPhase,
               Record, Store, Proceed
  <2>   QED
        BY <2>2, <2>3, <2>4, <2>5, <2>6 DEF Creating
<1>2. ~OnCCEConfigChanged
  <2>1. OnCCEConfigChanged => pc' = Dispatch(cache)
        BY DEF OnCCEConfigChanged, Proceed
  <2>2. Dispatch(cache) \in {"idle", "clear", "validate", "wait", "report"}
        BY DEF Dispatch, TypeOK, Object, Phases
  <2>   QED
        BY <2>1, <2>2
<1>3. ~RecordError /\ ~SyncEndFails /\ ~AddFinalizer /\ ~RemoveAtOnce
      BY DEF RecordError, SaveMessage, SyncEndFails, AddFinalizer, RemoveAtOnce, Store, Stay, Proceed
<1>4. Removing => DeleteCCECluster
      BY DEF Removing, ClearExternalIP, DeleteSnatRules, DeleteEndpointService,
             DeleteNetworkResource, ForgetNetworkResource, CleanupDone, RemoveFinalizer, RemoveFails,
             UpdateOrGiveUp, GiveUp, Store, Stay, Proceed
<1>5. ~Crash
      BY DEF Crash, Proceed
<1>   QED
      BY <1>1, <1>2, <1>3, <1>4, <1>5 DEF Next, Worker, Environment

LEMMA NodesStayKept == ASSUME TypeOK, Tracked, NodesStay, [Next]_vars PROVE NodesStay'
<1> SUFFICES ASSUME pc' = "delCluster", faults' = 0, Exists(MyCluster)' PROVE ~busy'
    BY DEF NodesStay
<1>1. CASE UNCHANGED vars
      BY <1>1 DEF NodesStay, vars, worker, fabric, MyCluster, Exists
<1>2. CASE EnsureDeletable
  <2>1. UNCHANGED <<local, cloud, busy>>
        BY <1>2 DEF EnsureDeletable, fabric
  <2>2. ~Fault("call")
        BY DEF Fault, TypeOK
  <2>   QED
        BY <1>2, <2>1, <2>2 DEF EnsureDeletable, MyCluster, Exists
<1>3. CASE DeleteCCECluster
  <2>1. pc = "delCluster" /\ busy' = busy /\ faults' = faults
        BY <1>3 DEF DeleteCCECluster
  <2>2. UNCHANGED local /\ Exists(MyCluster)
        BY <1>3 DEF DeleteCCECluster, UpdateOrGiveUp, GiveUp, Store, Stay, Proceed, MyCluster, Exists
  <2>   QED
        BY <2>1, <2>2 DEF NodesStay
<1>4. CASE Environment /\ ~Crash
  <2>1. UNCHANGED <<pc, local, faults>>
        BY <1>4 DEF Environment, Inform, UserEdits, UserDeletes, ClusterSettles, ClusterVanishes,
                    NodesChange, NodesSettle, worker
  <2>2. obj.deleting
        BY <2>1 DEF Tracked, DeletionKept, RemoveSteps
  <2>3. busy' => busy
        BY <1>4, <2>2 DEF Environment, Inform, UserEdits, UserDeletes, ClusterSettles,
                          ClusterVanishes, NodesChange, NodesSettle, fabric
  <2>4. \A r \in Res : cloud'[r] \in Here => cloud[r] \in Here
    <3>1. CASE ClusterSettles
          BY <3>1 DEF ClusterSettles, TypeOK, Here
    <3>2. CASE ClusterVanishes
          BY <3>2 DEF ClusterVanishes, Vanish, Here
    <3>   QED
          BY <1>4, <3>1, <3>2 DEF Environment, Inform, UserEdits, UserDeletes, NodesChange,
                                  NodesSettle, fabric
  <2>   QED
        BY <2>1, <2>3, <2>4 DEF NodesStay, MyCluster, Exists
<1>   QED
      BY <1>1, <1>2, <1>3, <1>4, OnlyEnsureLeads

(* Only requests make anything in the cloud. *)
LEMMA CreatingCloud ==
    ASSUME Creating
    PROVE  UNCHANGED cloud \/ \E k, state, parents, next : Request(k, state, parents, next)
<1>1. CASE ValidateCreate \/ WaitForCreationComplete \/ AdoptCluster \/ SetRunning
           \/ CallFails \/ WriteFails
      BY <1>1 DEF ValidateCreate, WaitForCreationComplete, AdoptCluster, SetRunning, CallFails,
                  WriteFails, Quiet, fabric
<1>2. CASE \/ RecordClusterEIP \/ RecordAddress \/ RecordNetworkStatus \/ RecordNetworkSpec
           \/ RecordNat \/ RecordSnatEIP \/ RecordSnat \/ RecordCluster \/ RecordPhase
      BY <1>2 DEF RecordClusterEIP, RecordAddress, RecordNetworkStatus, RecordNetworkSpec,
                  RecordNat, RecordSnatEIP, RecordSnat, RecordCluster, RecordPhase,
                  Record, Quiet, fabric
<1>3. CASE CreateClusterEIP \/ CreateVPC
      BY <1>3 DEF CreateClusterEIP, CreateVPC, Skip
<1>4. CASE CreateSubnet \/ CreateNatGateway
      BY <1>4 DEF CreateSubnet, CreateNatGateway, Skip
<1>5. CASE CreateSnatRule
      BY <1>5 DEF CreateSnatRule, Skip
<1>6. CASE FindCluster \/ CreateCluster
      BY <1>6 DEF FindCluster, CreateCluster, Skip
<1>   QED
      BY <1>1, <1>2, <1>3, <1>4, <1>5, <1>6 DEF Creating

LEMMA OnlyRemovalDeletes ==
    ASSUME TypeOK, Next, NEW r \in Res, cloud[r] = "live", cloud'[r] = "deleting"
    PROVE  DeleteCCECluster /\ r = MyCluster
<1>1. ASSUME NEW k, NEW state, NEW parents, NEW next, Request(k, state, parents, next) PROVE FALSE
  <2>1. PICK i : cloud[<<k, i>>] = "none" /\ cloud' = [cloud EXCEPT ![<<k, i>>] = state]
        BY <1>1, NewIdFresh DEF Request
  <2>2. r # <<k, i>>
        BY <2>1
  <2>   QED
        BY <2>1, <2>2 DEF TypeOK
<1>2. ASSUME NEW R, Vanish(R) PROVE FALSE
      BY <1>2 DEF Vanish
<1>3. ~Environment
  <2>1. ~ClusterSettles
        BY DEF ClusterSettles, TypeOK
  <2>   QED
        BY <1>2, <2>1 DEF Environment, Inform, UserEdits, UserDeletes, ClusterVanishes, NodesChange,
                          NodesSettle, Crash, fabric
<1>4. ~Creating
      BY <1>1, CreatingCloud
<1>5. ~OnCCEConfigChanged /\ ~RecordError /\ ~SyncEndFails /\ ~AddFinalizer /\ ~RemoveAtOnce
      BY DEF OnCCEConfigChanged, RecordError, SyncEndFails, AddFinalizer, RemoveAtOnce, Quiet, fabric
<1>6. Removing
      BY <1>3, <1>4, <1>5 DEF Next, Worker, Environment
<1>7. DeleteCCECluster
      BY <1>2, <1>6 DEF Removing, EnsureDeletable, ClearExternalIP, DeleteSnatRules,
         DeleteEndpointService, DeleteNetworkResource, ForgetNetworkResource, CleanupDone,
         RemoveFinalizer, RemoveFails, fabric
<1>   QED
      BY <1>7 DEF DeleteCCECluster, TypeOK

(* While no call has failed, a cluster is deleted only when its nodes have *)
(* settled: nothing can start on them after the removal has looked.        *)
THEOREM NodesSettleFirst == Spec => NodesSettledFirst
<1>1. Init => NodesStay
      BY DEF Init, NodesStay
<1>2. ASSUME TypeOK, NodesStay, [Next]_vars
      PROVE  [\A i \in Ids : faults = 0 /\ cloud[<<"cluster", i>>] = "live"
                               /\ cloud'[<<"cluster", i>>] = "deleting" => ~busy]_vars
  <2> SUFFICES ASSUME NEW i \in Ids, faults = 0, cloud[<<"cluster", i>>] = "live",
                      cloud'[<<"cluster", i>>] = "deleting"
               PROVE  ~busy
      OBVIOUS
  <2>1. <<"cluster", i>> \in Res
        BY DEF Res, Kinds
  <2>2. ~UNCHANGED vars
        BY DEF vars, fabric
  <2>3. DeleteCCECluster /\ <<"cluster", i>> = MyCluster
        BY <1>2, <2>1, <2>2, OnlyRemovalDeletes
  <2>4. pc = "delCluster" /\ Exists(MyCluster)
        BY <2>1, <2>3 DEF DeleteCCECluster, Exists, Here
  <2>   QED
        BY <1>2, <2>4 DEF NodesStay
<1>   QED
      BY <1>1, <1>2, NodesStayKept, TypeCorrect, CopiesTracked, PTL DEF Spec, NodesSettledFirst
=============================================================================
