------------------------------ MODULE Provision ------------------------------
(***************************************************************************)
(* The life of one CCEClusterConfig in cce-operator: the worker that syncs *)
(* it (OnCCEConfigChanged, then the lifecycle handler around               *)
(* OnCCEConfigRemoved), the Kubernetes object it reads and writes, the     *)
(* informer cache it is started from, and the Huawei Cloud resources it    *)
(* creates and deletes.                                                    *)
(*                                                                         *)
(* Every cloud request and every write to the API server is a step of its  *)
(* own, so users, the informer, the cloud and crashes interleave with the  *)
(* worker wherever they can in the program.  An imported configuration and *)
(* the handling of a running cluster (checkAndUpdate) are other modules'.  *)
(***************************************************************************)
EXTENDS Naturals, FiniteSets

CONSTANTS
    Ids,        \* the identifiers the cloud may give to created resources
    User,       \* the identifier of every resource the user provided
    None,       \* an empty identifier field
    Wants,      \* the configurations users may submit
    FaultKinds, \* what may go wrong: "call", "reply", "write", "crash"
    MaxFaults,  \* bound: how often it goes wrong
    MaxEdits    \* bound: edits by others that touch no field modelled here

Choices == {"off", "create", "given"}

ASSUME IdsAssumption    == User \notin Ids /\ None \notin Ids /\ User # None
ASSUME WantsAssumption  ==
    Wants \subseteq [eip : Choices, nat : Choices, vpc : BOOLEAN, subnet : BOOLEAN]
ASSUME FaultsAssumption == FaultKinds \subseteq {"call", "reply", "write", "crash"}
ASSUME BoundsAssumption == MaxFaults \in Nat /\ MaxEdits \in Nat

(* Resources the operator creates: the cluster's EIP, VPC, subnet, NAT      *)
(* gateway, the EIP of its SNAT rule, the SNAT rule and the CCE cluster.    *)
Kinds  == {"eip", "vpc", "subnet", "nat", "snatEip", "snat", "cluster"}
Res    == Kinds \X (Ids \cup {User})
Refs   == Kinds \X (Ids \cup {User, None})
Phases == {"", "creating", "running"}     \* running: "active" or "updating"
Here   == {"creating", "live", "failed", "deleting"}
States == Here \cup {"none", "gone"}      \* none: identifier not yet given

VARIABLES
    want,       \* the user's request, fixed once submitted
    obj,        \* the stored CCEClusterConfig
    cache,      \* the informer's copy of it, from which a sync starts
    current,    \* which copies carry the stored resourceVersion
    queued,     \* is the key in the work queue?
    local,      \* the worker's copy ("config" in the handlers)
    pc,         \* the next step of the worker
    err,        \* did OnCCEConfigChanged fail in this sync?
    held,       \* identifiers the worker got from the cloud in this sync
    cloud,      \* the state of every resource
    uses,       \* <<r, s>>: resource r cannot exist without s
    endpoints,  \* VPCs with a VPC endpoint service
    busy,       \* is a node of the cluster installing, upgrading, deleting?
    faults, edits

store  == <<obj, cache, current>>
worker == <<local, pc, err, held>>
fabric == <<cloud, uses, endpoints, busy>>
vars   == <<want, store, queued, worker, fabric, faults, edits>>

Nothing == [k \in Kinds |-> None]

(* The fields of the object that these handlers read or write.  made[k] is *)
(* the identifier the object names for kind k: Status.Created*ID, and      *)
(* Spec.ClusterID for the cluster; vpc and subnet are Spec.HostNetwork;    *)
(* ext: Status.ClusterExternalIP is set; failed: so is FailureMessage.     *)
Object == [exists : BOOLEAN, deleting : BOOLEAN, finalizer : BOOLEAN,
           failed : BOOLEAN, phase : Phases, ext : BOOLEAN,
           vpc : Ids \cup {User, None}, subnet : Ids \cup {User, None},
           made : [Kinds -> Ids \cup {None}]]

RecordSteps == {"eipRecord", "extRecord", "netStatus", "netSpec", "natRecord",
                "snatEipRecord", "snatRecord", "clusterRecord", "phaseRecord"}
CreateSteps == RecordSteps \cup {"eip", "network", "subnet", "nat", "snat",
                                 "cluster", "newCluster", "adopt"}
RemoveSteps == {"ensure", "delCluster", "clearExt", "cleanup", "unfinalize"}
Steps == CreateSteps \cup RemoveSteps \cup
         {"idle", "validate", "wait", "setRunning", "report", "lost",
          "finalizer", "clear"}

TypeOK ==
    /\ want \in Wants
    /\ obj \in Object /\ cache \in Object /\ local \in Object
    /\ current \subseteq {"cache", "given", "local"}
    /\ queued \in BOOLEAN /\ err \in BOOLEAN /\ busy \in BOOLEAN
    /\ pc \in Steps
    /\ held \in [Kinds -> Ids \cup {None}]
    /\ cloud \in [Res -> States]
    /\ uses \subseteq Res \X Refs
    /\ endpoints \subseteq Ids \cup {User, None}
    /\ faults \in 0 .. MaxFaults
    /\ edits \in 0 .. MaxEdits

Exists(r) == r \in Res /\ cloud[r] \in Here
InUse(r)  == \E c \in Res : <<c, r>> \in uses

(* Something goes wrong: a request fails or its reply is lost, a write to  *)
(* the API server fails, the operator crashes.                             *)
Fault(kind) ==
    kind \in FaultKinds /\ faults < MaxFaults /\ faults' = faults + 1

-----------------------------------------------------------------------------
(* A configuration a user has just submitted. *)
Submitted(w) ==
    [exists |-> TRUE, deleting |-> FALSE, finalizer |-> FALSE,
     failed |-> FALSE, phase |-> "", ext |-> FALSE,
     vpc    |-> IF w.vpc THEN User ELSE None,
     subnet |-> IF w.subnet THEN User ELSE None,
     made   |-> Nothing]

Init ==
    /\ want \in Wants
    /\ obj = Submitted(want) /\ cache = obj /\ local = obj
    /\ current = {"cache"} /\ queued = TRUE
    /\ pc = "idle" /\ err = FALSE /\ held = Nothing
    /\ cloud = [r \in Res |->
                  IF r \in {<<"vpc", User>>, <<"subnet", User>>} THEN "live"
                                                                 ELSE "none"]
    /\ uses = {<<<<"subnet", User>>, <<"vpc", User>>>>}
    /\ endpoints = {} /\ busy = FALSE
    /\ faults = 0 /\ edits = 0

-----------------------------------------------------------------------------
(* Writing the object.                                                     *)

(* The worker's next step and the copy it takes there: none between syncs. *)
NoCopy == Submitted(want)

Proceed(next, copy, fresh) ==
    /\ pc' = next
    /\ local'   = IF next = "idle" THEN NoCopy ELSE copy
    /\ current' = IF next = "idle" THEN fresh \ {"given", "local"} ELSE fresh

Stay(next) == Proceed(next, local, current) /\ UNCHANGED <<obj, cache>>

(* The write that every RetryOnConflict closure makes: Get, then Update of *)
(* what Get returned.  The worker goes on with the object it got back.     *)
Store(o, next) ==
    /\ obj' = o /\ UNCHANGED cache
    /\ Proceed(next, o, {"local"})

(* The plain UpdateStatus or Update of the worker's copy: the API server   *)
(* refuses it when the copy is behind.  The client then returns an empty   *)
(* object, so the wrapper and the lifecycle handler fall back ("lost").    *)
UpdateCopy(o, next) ==
    \/ "local" \in current /\ Store(o, next) /\ UNCHANGED err
    \/ /\ "local" \notin current
       /\ pc' = "lost" /\ err' = TRUE
       /\ UNCHANGED <<store, local>>

(* The handler returns an error: what it holds is forgotten. *)
Abandon == err' = TRUE /\ held' = Nothing /\ pc' = "report"

-----------------------------------------------------------------------------
(* The start of a sync: OnCCEConfigChanged on the informer's copy.         *)

Dispatch(o) ==
    CASE ~o.exists                   -> "idle"
      [] o.exists /\ o.deleting      -> "clear"
      [] o.exists /\ ~o.deleting     -> [p \in Phases |->
                                          IF p = "" THEN "validate"
                                          ELSE IF p = "creating" THEN "wait"
                                          ELSE "report"][o.phase]

OnCCEConfigChanged ==
    /\ pc = "idle" /\ queued
    /\ queued' = FALSE
    /\ Proceed(Dispatch(cache), cache,
               IF "cache" \in current THEN {"cache", "given", "local"} ELSE {})
    /\ UNCHANGED <<want, obj, cache, err, held, fabric, faults, edits>>

(* create() reads the stored object again, and validateCreate refuses to   *)
(* create a cluster whose name the cloud already knows.                    *)
NameTaken == obj.made["cluster"] = None /\ \E i \in Ids : Exists(<<"cluster", i>>)

(* Variant: create() trusts the informer's copy. *)
ValidateCreateCached ==
    /\ pc = "validate" /\ local.exists
    /\ pc' = "eip"
    /\ UNCHANGED <<want, store, local, err, held, queued, fabric, faults, edits>>

ValidateCreate ==
    /\ pc = "validate" /\ obj.exists
    /\ local' = obj
    /\ current' = current \cup {"local"}
    /\ \/ NameTaken /\ Abandon /\ UNCHANGED faults
       \/ Fault("call") /\ Abandon
       \/ ~NameTaken /\ pc' = "eip" /\ UNCHANGED <<err, held, faults>>
    /\ UNCHANGED <<want, obj, cache, queued, fabric, edits>>

-----------------------------------------------------------------------------
(* create() and generateAndSetNetworking: requests to the cloud.           *)

NeedEIP     == want.eip = "create" /\ ~local.ext
NeedAddress == want.eip = "given" /\ ~local.ext
NeedNat     == want.nat # "off" /\ local.made["nat"] = None
NeedSnat    == want.nat # "off" /\ local.made["snat"] = None
(* Variant: an EIP that is already recorded is not looked for. *)
NeedSnatEIPAgain == NeedSnat /\ want.nat = "create"

NeedSnatEIP == NeedSnat /\ want.nat = "create" /\ local.made["snatEip"] = None

(* Identifiers are opaque and given once, so which one comes next does not *)
(* matter.                                                                 *)
Fresh(k) == {i \in Ids : cloud[<<k, i>>] = "none"}
NewId(k) == CHOOSE i \in Fresh(k) : TRUE

(* One creating request.  The reply brings the identifier, or is lost      *)
(* after the cloud has created the resource.                               *)
Request(k, state, parents, next) ==
    /\ Fresh(k) # {}
    /\ LET i == NewId(k)
       IN  /\ cloud' = [cloud EXCEPT ![<<k, i>>] = state]
           /\ uses' = uses \cup ({<<k, i>>} \X parents)
           /\ \/ /\ held' = [held EXCEPT ![k] = i]
                 /\ pc' = next
                 /\ UNCHANGED <<err, faults>>
              \/ Fault("reply") /\ Abandon

Skip(next) ==
    pc' = next /\ UNCHANGED <<err, held, cloud, uses, faults>>

QuietCreate == UNCHANGED <<want, store, queued, local, busy, edits>>

CreateClusterEIP ==
    /\ pc = "eip"
    /\ \/ NeedEIP /\ Request("eip", "live", {}, "eipRecord")
       \/ ~NeedEIP /\ Skip(IF NeedAddress THEN "extRecord" ELSE "network")
    /\ QuietCreate /\ UNCHANGED endpoints

CreateVPC ==
    /\ pc = "network"
    /\ \/ local.vpc = None /\ Request("vpc", "live", {}, "subnet")
       \/ /\ local.vpc # None
          /\ Skip(IF local.subnet = None THEN "subnet" ELSE "nat")
    /\ QuietCreate /\ UNCHANGED endpoints

SubnetVPC == IF held["vpc"] # None THEN held["vpc"] ELSE local.vpc

CreateSubnet ==
    /\ pc = "subnet"
    /\ Request("subnet", "live", {<<"vpc", SubnetVPC>>}, "netStatus")
    /\ QuietCreate /\ UNCHANGED endpoints

CreateNatGateway ==
    /\ pc = "nat"
    /\ \/ NeedNat /\ Request("nat", "live", {<<"subnet", local.subnet>>}, "natRecord")
       \/ ~NeedNat /\ Skip("snat")
    /\ QuietCreate /\ UNCHANGED endpoints

SnatParents ==
    {<<"nat", local.made["nat"]>>} \cup
    (IF want.nat = "create" THEN {<<"snatEip", local.made["snatEip"]>>} ELSE {})

CreateSnatRule ==
    /\ pc = "snat"
    /\ \/ NeedSnatEIP /\ Request("snatEip", "live", {}, "snatEipRecord")
       \/ NeedSnat /\ ~NeedSnatEIP /\ Request("snat", "live", SnatParents, "snatRecord")
       \/ ~NeedSnat /\ Skip("cluster")
    /\ QuietCreate /\ UNCHANGED endpoints

(* ShowCluster on a recorded ClusterID: any error at all, a 404 or a       *)
(* transient one, makes create() go on and create a cluster.               *)
FindCluster ==
    /\ pc = "cluster"
    /\ LET known == local.made["cluster"] # None
                    /\ Exists(<<"cluster", local.made["cluster"]>>)
       IN  \/ known /\ Skip("adopt")
           \/ ~known /\ Skip("newCluster")
           \/ known /\ Fault("call") /\ pc' = "newCluster" /\ UNCHANGED <<err, held, cloud, uses>>
    /\ QuietCreate /\ UNCHANGED endpoints

ClusterParents ==
    {<<"subnet", local.subnet>>} \cup
    (IF local.made["eip"] # None THEN {<<"eip", local.made["eip"]>>} ELSE {})

(* The cloud may put an endpoint service for the cluster into its VPC. *)
CreateCluster ==
    /\ pc = "newCluster"
    /\ Request("cluster", "creating", ClusterParents, "clusterRecord")
    /\ endpoints' \in {endpoints, endpoints \cup {local.vpc}}
    /\ QuietCreate

(* A request of OnCCEConfigChanged fails and has no effect: any creation,  *)
(* setting up the driver before the first step, listing the name servers   *)
(* before a subnet is created, reading a VPC or EIP the user named.        *)
Calling ==
    \/ pc = "eip" /\ NeedEIP
    \/ pc = "nat" /\ NeedNat
    \/ pc = "snat" /\ NeedSnat
    \/ pc \in {"validate", "network", "subnet", "newCluster", "wait"}

CallFails ==
    /\ Calling /\ Fault("call") /\ Abandon
    /\ UNCHANGED <<want, store, queued, local, fabric, edits>>

-----------------------------------------------------------------------------
(* create() and generateAndSetNetworking: recording what was created.      *)

Quiet == UNCHANGED <<want, queued, fabric, faults, edits>>

Name(k) == [obj.made EXCEPT ![k] = held[k]]

(* Record o and go on; the identifiers of the kinds in done are safe. *)
Record(at, o, done, next) ==
    /\ pc = at /\ obj.exists
    /\ Store(o, next)
    /\ held' = [k \in Kinds |-> IF k \in done THEN None ELSE held[k]]
    /\ UNCHANGED err
    /\ Quiet

(* Variant: only the address of the EIP is recorded. *)
RecordAddressOnly == Record("eipRecord", [obj EXCEPT !.ext = TRUE], {"eip"}, "network")

RecordClusterEIP ==
    Record("eipRecord", [obj EXCEPT !.made = Name("eip"), !.ext = TRUE], {"eip"}, "network")

RecordAddress ==
    Record("extRecord", [obj EXCEPT !.ext = TRUE], {}, "network")

(* CreatedVpcID and CreatedSubnetID first, Spec.HostNetwork in a second    *)
(* write.  A subnet made in the user's VPC leaves CreatedVpcID alone.      *)
(* Variants: the user's VPC is recorded as created; a recorded VPC is kept. *)
NetworkStatusAny   == [obj.made EXCEPT !["subnet"] = held["subnet"], !["vpc"] = SubnetVPC]
NetworkStatusFirst ==
    [obj.made EXCEPT !["subnet"] = held["subnet"],
                     !["vpc"] = IF held["vpc"] # None /\ @ = None THEN held["vpc"] ELSE @]

NetworkStatus ==
    [obj.made EXCEPT !["subnet"] = held["subnet"],
                     !["vpc"] = IF held["vpc"] # None THEN held["vpc"] ELSE @]

RecordNetworkStatus ==
    Record("netStatus", [obj EXCEPT !.made = NetworkStatus], {}, "netSpec")

(* Variant: a subnet the user named without a VPC is kept. *)
RecordNetworkSpecOnce ==
    Record("netSpec", [obj EXCEPT !.subnet = IF @ = None THEN held["subnet"] ELSE @,
                                  !.vpc = IF held["vpc"] # None THEN held["vpc"] ELSE @],
           {"vpc", "subnet"}, "nat")

RecordNetworkSpec ==
    Record("netSpec", [obj EXCEPT !.subnet = held["subnet"],
                                  !.vpc = IF held["vpc"] # None THEN held["vpc"] ELSE @],
           {"vpc", "subnet"}, "nat")

RecordNat     == Record("natRecord", [obj EXCEPT !.made = Name("nat")], {"nat"}, "snat")
RecordSnatEIP == Record("snatEipRecord", [obj EXCEPT !.made = Name("snatEip")], {"snatEip"}, "snat")
RecordSnat    == Record("snatRecord", [obj EXCEPT !.made = Name("snat")], {"snat"}, "cluster")
(* Variant: the ClusterID is left to a later sync. *)
RecordClusterLater == Record("clusterRecord", obj, {"cluster"}, "phaseRecord")

RecordCluster == Record("clusterRecord", [obj EXCEPT !.made = Name("cluster")], {"cluster"}, "phaseRecord")

RecordPhase ==
    Record("phaseRecord", [obj EXCEPT !.phase = "creating", !.failed = FALSE], {}, "report")

(* The recorded cluster was found: only the phase is left to write. *)
AdoptCluster ==
    /\ pc = "adopt"
    /\ UpdateCopy([local EXCEPT !.phase = "creating"], "report")
    /\ UNCHANGED held /\ Quiet

(* A write fails for good: the API server is down, another writer came     *)
(* between Get and Update (the second try of the closure asks for an       *)
(* object without a name), or the object is gone.                          *)
WriteFails ==
    /\ pc \in RecordSteps \cup {"validate", "adopt", "setRunning"}
    /\ \/ Fault("write")
       \/ ~obj.exists /\ UNCHANGED faults
    /\ pc' = "lost" /\ err' = TRUE /\ held' = Nothing
    /\ UNCHANGED <<want, store, queued, local, fabric, edits>>

-----------------------------------------------------------------------------
(* waitForCreationComplete, on the informer's copy.                        *)

(* Variant: the wait ends without a new sync. *)
EnqueueNever == UNCHANGED queued

EnqueueAfter == queued' = TRUE

WaitForCreationComplete ==
    /\ pc = "wait"
    /\ LET c == <<"cluster", local.made["cluster"]>>
       IN  \/ /\ Exists(c) /\ cloud[c] = "live"
              /\ pc' = "setRunning"
              /\ UNCHANGED <<err, held, queued>>
           \/ /\ Exists(c) /\ cloud[c] \in {"creating", "deleting"}
              /\ EnqueueAfter
              /\ pc' = "report"
              /\ UNCHANGED <<err, held>>
           \/ /\ ~Exists(c) \/ cloud[c] = "failed"
              /\ Abandon /\ UNCHANGED queued
    /\ UNCHANGED <<want, store, local, fabric, faults, edits>>

SetRunning ==
    /\ pc = "setRunning"
    /\ UpdateCopy([local EXCEPT !.phase = "running"], "report")
    /\ UNCHANGED held /\ Quiet

-----------------------------------------------------------------------------
(* recordError: FailureMessage follows the outcome of the handler.  Its    *)
(* write fails quietly.  Another message may replace a recorded one.       *)

(* Variant: the message is written over whatever is stored. *)
SaveMessageBlindly(e, next, fallback) ==
    \/ local.failed = e /\ Stay(next)
    \/ (local.failed # e \/ e) /\ Store([local EXCEPT !.failed = e], next)

SaveMessage(e, next, fallback) ==
    \/ local.failed = e /\ Stay(next)
    \/ (local.failed # e \/ e) /\ "local" \in current /\ Store([local EXCEPT !.failed = e], next)
    \/ (local.failed # e \/ e) /\ "local" \notin current /\ Stay(fallback)

RecordError ==
    \/ /\ pc = "report"
       /\ SaveMessage(err, "finalizer", "lost")
       /\ UNCHANGED <<err, held>> /\ Quiet
    \/ /\ pc = "clear"
       /\ LET next == IF local.finalizer THEN "ensure" ELSE "idle"
          IN  SaveMessage(FALSE, next, next)
       /\ UNCHANGED <<err, held>> /\ Quiet

(* The write of the message or of the finalizer fails; the first is only   *)
(* logged, the second queues the key again.                                *)
SyncEndFails ==
    /\ \/ pc = "report" /\ Stay("lost") /\ UNCHANGED <<queued, err>>
       \/ /\ pc = "finalizer" /\ ~local.deleting /\ ~local.finalizer
          /\ Stay("idle") /\ queued' = TRUE /\ err' = FALSE
    /\ Fault("write")
    /\ UNCHANGED <<want, held, fabric, edits>>

(* The lifecycle handler behind OnRemove takes the object the first        *)
(* handler returned, or the one the sync was given when that was "lost".   *)
(* It adds its finalizer to a live object; a conflict there means a change *)
(* the informer has yet to deliver, and that delivery queues the key.      *)
AddFinalizer ==
    /\ pc \in {"finalizer", "lost"} /\ ~(pc = "finalizer" /\ local.deleting)
    /\ LET copy == IF pc = "lost" THEN "given" ELSE "local"
       IN  IF copy \in current /\ ~obj.finalizer
           THEN Store([obj EXCEPT !.finalizer = TRUE], "idle")
           ELSE Stay("idle")
    /\ queued' = (queued \/ err) /\ err' = FALSE
    /\ UNCHANGED <<want, held, fabric, faults, edits>>

(* The object came back from OnCCEConfigChanged with a deletion timestamp. *)
RemoveAtOnce ==
    /\ pc = "finalizer" /\ local.deleting
    /\ Stay(IF local.finalizer THEN "ensure" ELSE "idle")
    /\ queued' = (queued \/ err) /\ err' = FALSE
    /\ UNCHANGED <<want, held, fabric, faults, edits>>

-----------------------------------------------------------------------------
(* OnCCEConfigRemoved.  Any error ends the sync and queues the key again.  *)

(* Variant: the error is swallowed. *)
GiveUpQuietly == Stay("idle") /\ UNCHANGED queued

GiveUp == Stay("idle") /\ queued' = TRUE

(* Update or UpdateStatus of the worker's copy, in the removal handler. *)
(* Variant: the write ignores the resourceVersion. *)
UpdateBlindly(o, next) == Store(o, next) /\ UNCHANGED queued

UpdateOrGiveUp(o, next) ==
    \/ "local" \in current /\ Store(o, next) /\ UNCHANGED queued
    \/ "local" \notin current /\ GiveUp

QuietRemove == UNCHANGED <<want, err, held, edits>>

MyCluster == <<"cluster", local.made["cluster"]>>

(* ensureCCEClusterDeletable: wait for the nodes; an error of ListNodes is *)
(* taken for a cluster that is gone.                                       *)
(* Variant: nodes are not waited for. *)
EnsureNothing ==
    /\ pc = "ensure" /\ pc' = "delCluster"
    /\ UNCHANGED <<store, local, queued, fabric, faults>> /\ QuietRemove

EnsureDeletable ==
    /\ pc = "ensure"
    /\ \/ /\ ~Exists(MyCluster) \/ ~busy
          /\ UNCHANGED faults
       \/ Exists(MyCluster) /\ busy /\ Fault("call")
    /\ pc' = "delCluster"
    /\ UNCHANGED <<store, local, queued, fabric>> /\ QuietRemove

(* deleteCCECluster: nothing recorded, a 404, or a cluster to delete.  It  *)
(* waits while the cluster is creating or deleting.                        *)
DeleteCCECluster ==
    /\ pc = "delCluster"
    /\ \/ /\ local.made["cluster"] = None
          /\ pc' = "cleanup"
          /\ UNCHANGED <<store, local, queued, cloud>>
       \/ /\ local.made["cluster"] # None /\ ~Exists(MyCluster)
          /\ UpdateOrGiveUp([local EXCEPT !.made["cluster"] = None], "clearExt")
          /\ UNCHANGED cloud
       \/ /\ Exists(MyCluster) /\ cloud[MyCluster] \in {"live", "failed"}
          /\ cloud' = [cloud EXCEPT ![MyCluster] = "deleting"]
          /\ UNCHANGED <<pc, store, local, queued>>
    /\ UNCHANGED <<uses, endpoints, busy, faults>> /\ QuietRemove

ClearExternalIP ==
    /\ pc = "clearExt"
    /\ UpdateOrGiveUp([local EXCEPT !.ext = FALSE], "cleanup")
    /\ UNCHANGED <<fabric, faults>> /\ QuietRemove

(* deleteNetworkResources works down this order, one kind at a time. *)
(* Variant: the subnet goes before what runs in it. *)
BeforeSubnetFirst ==
    [subnet |-> {}, nat |-> {"subnet"}, eip |-> {"subnet", "nat"},
     snatEip |-> {"subnet", "nat", "eip"}, vpc |-> {"subnet", "nat", "eip", "snatEip"}]

Before == [nat     |-> {},
           eip     |-> {"nat"},
           snatEip |-> {"nat", "eip"},
           subnet  |-> {"nat", "eip", "snatEip"},
           vpc     |-> {"nat", "eip", "snatEip", "subnet"}]
Networks == DOMAIN Before

(* What the handler deletes for kind k: what Status names, never Spec. *)
(* Variant: the network the cluster runs in is deleted. *)
TargetSpec(k) ==
    IF k = "vpc" THEN local.vpc ELSE IF k = "subnet" THEN local.subnet ELSE local.made[k]

Target(k) == local.made[k]

Turn(k) == Target(k) # None /\ \A j \in Before[k] : Target(j) = None
Mine(k) == <<k, Target(k)>>

Rules == {r \in Res : r[1] = "snat" /\ Exists(r) /\ <<r, Mine("nat")>> \in uses}

(* Resources R leave the cloud, and with them what they made use of. *)
Vanish(R) ==
    /\ cloud' = [r \in Res |-> IF r \in R THEN "gone" ELSE cloud[r]]
    /\ uses' = {u \in uses : u[1] \notin R}

(* All the rules of the recorded NAT gateway, recorded or not, one by one. *)
DeleteSnatRules ==
    /\ pc = "cleanup" /\ Turn("nat")
    /\ \E r \in Rules : Vanish({r})
    /\ UNCHANGED <<store, local, pc, queued, endpoints, busy, faults>> /\ QuietRemove

DeleteEndpointService ==
    /\ pc = "cleanup" /\ Turn("vpc") /\ Target("vpc") \in endpoints
    /\ endpoints' = endpoints \ {Target("vpc")}
    /\ UNCHANGED <<store, local, pc, queued, cloud, uses, busy, faults>> /\ QuietRemove

(* What the handler clears away before the resource itself. *)
Cleared(k) ==
    /\ k = "nat" => Rules = {}
    /\ k = "vpc" => Target("vpc") \notin endpoints

(* The cloud refuses to delete what is in use, and a subnet by the wrong   *)
(* VPC: DeleteSubnet passes CreatedVpcID, empty for a subnet made in the   *)
(* user's VPC.                                                             *)
Refused(k) ==
    \/ InUse(Mine(k))
    \/ k = "subnet" /\ <<Mine("subnet"), Mine("vpc")>> \notin uses

DeleteNetworkResource ==
    /\ pc = "cleanup"
    /\ \E k \in Networks :
        /\ Turn(k) /\ Cleared(k) /\ Exists(Mine(k))
        /\ \/ /\ ~Refused(k)
              /\ Vanish({Mine(k)})
              /\ UNCHANGED <<store, local, pc, queued>>
           \/ Refused(k) /\ GiveUp /\ UNCHANGED <<cloud, uses>>
    /\ UNCHANGED <<endpoints, busy, faults>> /\ QuietRemove

(* Variant: both EIPs are forgotten together. *)
ForgottenBoth(k) == IF k \in {"eip", "snatEip"} THEN {"eip", "snatEip"} ELSE {k}

Forgotten(k) == IF k = "nat" THEN {"nat", "snat"} ELSE {k}
Without(K)   == [j \in Kinds |-> IF j \in K THEN None ELSE local.made[j]]

ForgetNetworkResource ==
    /\ pc = "cleanup"
    /\ \E k \in Networks :
        /\ Turn(k) /\ Cleared(k) /\ ~Exists(Mine(k))
        /\ UpdateOrGiveUp([local EXCEPT !.made = Without(Forgotten(k))], "cleanup")
    /\ UNCHANGED <<fabric, faults>> /\ QuietRemove

(* Variant: the VPC is left alone. *)
CleanupDoneEarly ==
    /\ pc = "cleanup" /\ \A k \in Networks \ {"vpc"} : Target(k) = None
    /\ pc' = "unfinalize"
    /\ UNCHANGED <<store, local, queued, fabric, faults>> /\ QuietRemove

CleanupDone ==
    /\ pc = "cleanup" /\ \A k \in Networks : Target(k) = None
    /\ pc' = "unfinalize"
    /\ UNCHANGED <<store, local, queued, fabric, faults>> /\ QuietRemove

(* The lifecycle handler drops its finalizer and the object goes away. *)
RemoveFinalizer ==
    /\ pc = "unfinalize"
    /\ UpdateOrGiveUp([local EXCEPT !.exists = FALSE], "idle")
    /\ UNCHANGED <<fabric, faults>> /\ QuietRemove

(* A request or a write of the removal fails. *)
RemoveFails ==
    /\ \/ pc \in {"ensure", "delCluster", "cleanup"} /\ Fault("call")
       \/ pc \in {"delCluster", "clearExt", "cleanup", "unfinalize"} /\ Fault("write")
    /\ GiveUp
    /\ UNCHANGED fabric /\ QuietRemove

-----------------------------------------------------------------------------
(* Everything that is not this worker.                                     *)

(* The informer delivers the stored object and queues its key. *)
Inform ==
    /\ "cache" \notin current
    /\ cache' = obj /\ current' = current \cup {"cache"}
    /\ queued' = TRUE
    /\ UNCHANGED <<want, obj, worker, fabric, faults, edits>>

(* Somebody edits a field that is not modelled, a node pool or a label. *)
UserEdits ==
    /\ obj.exists /\ edits < MaxEdits
    /\ edits' = edits + 1 /\ current' = {}
    /\ UNCHANGED <<want, obj, cache, queued, worker, fabric, faults>>

(* kubectl delete: at once, unless the finalizer is there. *)
UserDeletes ==
    /\ obj.exists /\ ~obj.deleting
    /\ obj' = IF obj.finalizer THEN [obj EXCEPT !.deleting = TRUE]
                               ELSE [obj EXCEPT !.exists = FALSE]
    /\ current' = {}
    /\ UNCHANGED <<want, cache, queued, worker, fabric, faults, edits>>

(* The cloud finishes the creation of a cluster, well or not. *)
ClusterSettles ==
    /\ \E i \in Ids, s \in {"live", "failed"} :
          /\ cloud[<<"cluster", i>>] = "creating"
          /\ cloud' = [cloud EXCEPT ![<<"cluster", i>>] = s]
    /\ UNCHANGED <<want, store, queued, worker, uses, endpoints, busy, faults, edits>>

ClusterVanishes ==
    /\ \E i \in Ids :
          /\ cloud[<<"cluster", i>>] = "deleting"
          /\ Vanish({<<"cluster", i>>})
    /\ UNCHANGED <<want, store, queued, worker, endpoints, busy, faults, edits>>

(* Node pools exist only from the running phase on, and are scaled while   *)
(* the configuration is there.                                             *)
NodesChange ==
    /\ obj.phase = "running" /\ ~obj.deleting /\ ~busy /\ busy' = TRUE
    /\ UNCHANGED <<want, store, queued, worker, cloud, uses, endpoints, faults, edits>>

NodesSettle ==
    /\ busy /\ busy' = FALSE
    /\ UNCHANGED <<want, store, queued, worker, cloud, uses, endpoints, faults, edits>>

(* The operator dies in a sync.  The next one lists every object anew. *)
Crash ==
    /\ pc # "idle" /\ Fault("crash")
    /\ Proceed("idle", local, {"cache"}) /\ err' = FALSE /\ held' = Nothing
    /\ cache' = obj /\ queued' = TRUE
    /\ UNCHANGED <<want, obj, fabric, edits>>

-----------------------------------------------------------------------------
Creating ==
    \/ ValidateCreate
    \/ CreateClusterEIP \/ RecordClusterEIP \/ RecordAddress
    \/ CreateVPC \/ CreateSubnet \/ RecordNetworkStatus \/ RecordNetworkSpec
    \/ CreateNatGateway \/ RecordNat
    \/ CreateSnatRule \/ RecordSnatEIP \/ RecordSnat
    \/ FindCluster \/ AdoptCluster \/ CreateCluster \/ RecordCluster \/ RecordPhase
    \/ WaitForCreationComplete \/ SetRunning
    \/ CallFails \/ WriteFails

Removing ==
    \/ EnsureDeletable \/ DeleteCCECluster \/ ClearExternalIP
    \/ DeleteSnatRules \/ DeleteEndpointService
    \/ DeleteNetworkResource \/ ForgetNetworkResource \/ CleanupDone
    \/ RemoveFinalizer \/ RemoveFails

Worker ==
    OnCCEConfigChanged \/ Creating \/ RecordError \/ SyncEndFails
    \/ AddFinalizer \/ RemoveAtOnce \/ Removing

Next ==
    \/ Worker
    \/ Inform \/ UserEdits \/ UserDeletes
    \/ ClusterSettles \/ ClusterVanishes \/ NodesChange \/ NodesSettle
    \/ Crash

Spec == Init /\ [][Next]_vars

(* The work queue keeps serving a queued key, the informer keeps           *)
(* delivering, and the cloud finishes what it was asked to do.             *)
Fairness ==
    /\ WF_vars(Worker) /\ WF_vars(Inform)
    /\ WF_vars(ClusterSettles) /\ WF_vars(ClusterVanishes) /\ WF_vars(NodesSettle)

FairSpec == Spec /\ Fairness
-----------------------------------------------------------------------------
(* What provisioning promises.                                             *)

Owned   == {r \in Res : r[2] # User /\ cloud[r] \in Here}

(* Resources of the operator that neither the object names nor the worker  *)
(* is about to record: nothing will ever delete them.                      *)
Orphans == {r \in Owned : obj.made[r[1]] # r[2] /\ held[r[1]] # r[2]}

(* The object is gone by way of the removal handler. *)
Removed == obj.finalizer /\ ~obj.exists

(* While nothing goes wrong, every resource that create() has made is      *)
(* named by the object or about to be: users, deliveries of the informer,  *)
(* stale copies and conflicts between them leak nothing before a deletion. *)
LeakNeedsFault ==
    faults = 0 /\ obj.exists /\ ~obj.deleting => Orphans = {}

(* One thing going wrong costs two resources at most (a VPC and its        *)
(* subnet), from the creation to the end of the removal; an edit that      *)
(* makes the removal start over costs one.                                 *)
LeakBound ==
    obj.exists \/ Removed => Cardinality(Orphans) <= 2 * faults + edits

(* waitForCreationComplete and checkAndUpdate always find a ClusterID. *)
CreatingHasCluster ==
    obj.phase # "" /\ ~obj.deleting => obj.made["cluster"] # None

(* The network that the removal will delete is the one Spec.HostNetwork    *)
(* names, whichever attempt of create() it came from.                      *)
NetworkKnown ==
    obj.exists /\ ~obj.deleting /\ obj.vpc \in Ids =>
        obj.made["vpc"] = obj.vpc /\ obj.made["subnet"] = obj.subnet

(* The recorded cluster runs in the recorded subnet, which belongs to the  *)
(* recorded VPC.                                                           *)
ClusterHome ==
    LET cluster == <<"cluster", obj.made["cluster"]>>
        subnet  == <<"subnet", obj.subnet>>
        vpc     == <<"vpc", obj.vpc>>
    IN  ~obj.deleting /\ Exists(cluster) =>
            Exists(subnet) /\ <<cluster, subnet>> \in uses /\ <<subnet, vpc>> \in uses

(* What the user provided outlives the configuration, whatever happens. *)
UserNetworkKept ==
    cloud[<<"vpc", User>>] = "live" /\ cloud[<<"subnet", User>>] = "live"

(* The object does not go away while it names a resource, even when the    *)
(* removal was carried out on a copy that had fallen behind.               *)
NothingRecorded == Removed => obj.made = Nothing

(* An undisturbed removal leaves nothing of the operator in the cloud. *)
NothingLeft == Removed /\ faults = 0 /\ edits = 0 => Owned = {}

(* The removal never asks for the deletion of something still in use, as   *)
(* long as no fault has left an orphan that uses it, and its copy is not   *)
(* behind in what it names: a stale copy may lack the gateway or cluster   *)
(* that a sync from before the deletion has since put into the subnet.     *)
CleanupInOrder ==
    pc = "cleanup" /\ faults = 0 /\ local.made = obj.made =>
        \A k \in Networks : Turn(k) /\ Cleared(k) /\ Exists(Mine(k)) => ~InUse(Mine(k))

(* What the object names already is not created a second time, however     *)
(* stale the copy the sync was started from.                               *)
MadeOnce ==
    [][\A k \in {"eip", "nat", "snatEip", "snat"}, i \in Ids :
         ~obj.deleting /\ cloud[<<k, i>>] = "none" /\ cloud'[<<k, i>>] # "none"
            => obj.made[k] = None]_vars

(* A resource is struck off the object only when the cloud has deleted it. *)
RecordKept ==
    [][\A k \in Kinds : obj.made[k] # None /\ obj'.made[k] = None =>
         ~Exists(<<k, obj.made[k]>>)]_vars

(* No stale write takes a running cluster back to its creation, or a       *)
(* recorded creation back to the start.                                    *)
PhaseForward ==
    [][/\ obj.phase = "running" => obj'.phase = "running"
       /\ obj.phase = "creating" => obj'.phase # ""]_vars

(* Without a failing call, a cluster is deleted only once its nodes have   *)
(* settled, though they are looked at in an earlier step.                  *)
NodesSettledFirst ==
    [][\A i \in Ids : faults = 0 /\ cloud[<<"cluster", i>>] = "live"
                        /\ cloud'[<<"cluster", i>>] = "deleting" => ~busy]_vars

(* A configuration gets its running cluster, unless it is deleted, the     *)
(* cloud fails the cluster, or a lost cluster holds the name.              *)
CreationSettles ==
    <>(\/ obj.phase = "running" \/ obj.deleting \/ ~obj.exists
       \/ \E i \in Ids : cloud[<<"cluster", i>>] = "failed"
       \/ \E r \in Orphans : r[1] = "cluster")

(* A removal ends, unless an orphan keeps the network in use or the subnet *)
(* was created in the user's VPC.                                          *)
RemovalSettles ==
    obj.deleting ~> \/ ~obj.exists
                    \/ \E r \in Orphans : r[1] \in {"nat", "cluster"}
                    \/ want.vpc /\ ~want.subnet

(* Provision implements Ledger: whatever is called, lost, refused or       *)
(* repeated, the object stays a ledger of what the operator keeps in the   *)
(* cloud.                                                                  *)
Stage ==
    IF ~obj.exists THEN IF obj.finalizer THEN "gone" ELSE "dropped"
    ELSE IF obj.deleting THEN "ending"
    ELSE IF obj.phase = "running" THEN "ready" ELSE "wanted"

Named == {<<k, obj.made[k]>> : k \in {k \in Kinds : obj.made[k] # None}}

Book == INSTANCE Ledger WITH stage <- Stage, named <- Named, real <- Owned

KeepsLedger == Book!Spec

-----------------------------------------------------------------------------
(* What comments of the source say and the code does not keep.             *)

(* "Use the RetryOnConflict to prevent repeated creation of cluster." *)
ClusterOnce == Cardinality({r \in Owned : r[1] = "cluster"}) <= 1

(* "Use the RetryOnConflict to prevent repeated creation of EIP." *)
ClusterEIPOnce == Cardinality({r \in Owned : r[1] = "eip"}) <= 1

(* "Ensure nodes are available to delete" *)
NodesSettled ==
    [][\A i \in Ids : cloud[<<"cluster", i>>] = "live"
                        /\ cloud'[<<"cluster", i>>] = "deleting" => ~busy]_vars

(* "Create a subnet based on the provided VPC.": the removal of such a     *)
(* configuration ends like any other.                                      *)
RemovalEnds == obj.deleting ~> ~obj.exists
=============================================================================
