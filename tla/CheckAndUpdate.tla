--------------------------- MODULE CheckAndUpdate ---------------------------
(***************************************************************************)
(* A running cluster of cce-operator: checkAndUpdate and                   *)
(* updateUpstreamClusterState keep version, flavor and node pools of a CCE *)
(* cluster as the CCEClusterConfig says, and recordError reports how that  *)
(* went.  Around the worker: the API server and the informer, the cloud,   *)
(* users, the console of the cloud, and Rancher, which writes the IDs of   *)
(* new node pools into the configuration.                                  *)
(*                                                                         *)
(* Every request and every write is a step of its own.  An imported        *)
(* configuration, which is never updated, and the deletion of the          *)
(* configuration, which module Provision has, are not modelled here.       *)
(***************************************************************************)
EXTENDS Naturals, Sequences, FiniteSets

CONSTANTS
    Names,       \* names of node pools
    Ids,         \* identifiers the cloud may give to node pools
    None,        \* an empty identifier or name
    Versions,    \* minor versions of Kubernetes
    Flavors,     \* sizes of a cluster
    Requests,    \* what a cluster may be created with
    FaultKinds,  \* what may go wrong
    MaxFaults,   \* bound: how often it goes wrong
    EditKinds,   \* what users and the console may do
    MaxEdits     \* bound: how often they do it

AllFaultKinds == {"call", "reply", "write", "crash", "task", "pool"}
AllEditKinds  == {"declare", "duplicate", "undeclare", "rename", "version",
                  "flavor", "other", "scale", "console"}

ASSUME NoneAssumption     == None \notin Ids /\ None \notin Names
ASSUME ShapeAssumption    == Versions \subseteq Nat /\ Versions # {} /\ Flavors # {}
ASSUME KindsAssumption    == FaultKinds \subseteq AllFaultKinds /\ EditKinds \subseteq AllEditKinds
ASSUME BoundsAssumption   == MaxFaults \in Nat /\ MaxEdits \in Nat

(* Of the phases of a pool, SYNCHRONIZED and SYNCHRONIZING are "settling", *)
(* ERROR and SOLD_OUT are "failed", the empty one is "ready"; the phase    *)
(* "none" stands for an identifier that was not given yet.                 *)
Here     == {"settling", "ready", "failed", "deleting"}

NodePool == [name : {None}, state : {"none"}] \cup [name : Names, state : Here \cup {"gone"}]

Pool  == [name : Names, id : Ids \cup {None}]    \* a pool as Spec declares it
Shape == [version : Versions, flavor : Flavors]

ASSUME RequestsAssumption == Requests \subseteq [pools : Seq(Names), want : Shape]

NoIds == [n \in Names |-> None]

VARIABLES
    obj,        \* the stored CCEClusterConfig
    cache,      \* the informer's copy of it
    current,    \* which of the copies carry the stored resourceVersion
    queued,     \* is the key in the work queue?
    local,      \* the worker's copy ("config" in the handlers)
    pc,         \* the next step of the worker
    err,        \* did OnCCEConfigChanged fail in this sync?
    work,       \* what else the worker knows: see Work
    cluster,    \* the CCE cluster
    tasks,      \* its upgrade tasks, in the order they were started
    pools,      \* its node pools
    faults, edits,
    did         \* which kinds of edits there have been

store  == <<obj, cache, current>>
worker == <<local, pc, err, work>>
fabric == <<cluster, tasks, pools>>
vars   == <<store, queued, worker, fabric, faults, edits, did>>

(* The fields these handlers decide on.  made is Spec.CreatedNodePoolIDs,  *)
(* task Status.UpgradeClusterTaskID (0 when empty); failed: FailureMessage *)
(* is set; noted: zone and endpoints of the cluster are in Status; group:  *)
(* its security group is in Spec.                                          *)
Object == [phase : {"active", "updating"}, failed : BOOLEAN, noted : BOOLEAN,
           group : BOOLEAN, want : Shape, task : Nat, pools : Seq(Pool),
           made : [Names -> Ids \cup {None}]]

(* seen: the cluster as ShowCluster gave it; listed: the pools as          *)
(* ListNodePools gave them; todo: pools still to update or create, with    *)
(* their places in Spec; drop: pools still to delete; made: pools created; *)
(* acted: enqueueNodePool; task: the upgrade task just started.            *)
Work == [seen : Shape, listed : SUBSET [name : Names, id : Ids], todo : SUBSET (Nat \X Pool),
         drop : SUBSET Ids, made : [Names -> Ids \cup {None}], acted : BOOLEAN, task : Nat]

Steps == {"idle", "check", "reject", "task", "wait", "note", "get", "list",
          "group", "version", "taskRecord", "jobRecord", "enqueue", "cluster",
          "pools", "create", "announce", "delete", "finish", "report"}

TypeOK ==
    /\ obj \in Object /\ cache \in Object /\ local \in Object
    /\ current \subseteq {"cache", "local"}
    /\ queued \in BOOLEAN /\ err \in BOOLEAN
    /\ pc \in Steps
    /\ work \in Work
    /\ cluster \in [status : {"available", "upgrading", "resizing"}, is : Shape, next : Shape]
    /\ tasks \in Seq([target : Versions, state : {"running", "done", "failed"}])
    /\ pools \in [Ids -> NodePool]
    /\ \A t \in {obj.task, cache.task, local.task, work.task} : t <= Len(tasks)
    /\ faults \in 0 .. MaxFaults /\ edits \in 0 .. MaxEdits /\ did \subseteq EditKinds

Existing == {i \in Ids : pools[i].state \in Here}
IdsOf(s) == {s[k].id : k \in DOMAIN s} \ {None}

Fault(kind) ==
    kind \in FaultKinds /\ faults < MaxFaults /\ faults' = faults + 1

Edit(kind) ==
    /\ kind \in EditKinds /\ edits < MaxEdits
    /\ edits' = edits + 1 /\ did' = did \cup {kind}

-----------------------------------------------------------------------------
(* waitForCreationComplete has just handed a new cluster over. *)
Created(r) ==
    [phase |-> "updating", failed |-> FALSE, noted |-> FALSE, group |-> FALSE,
     want |-> r.want, task |-> 0, made |-> NoIds,
     pools |-> [k \in DOMAIN r.pools |-> [name |-> r.pools[k], id |-> None]]]

NoCopy == Created([pools |-> <<>>, want |-> CHOOSE s \in Shape : TRUE])
NoWork == [seen |-> NoCopy.want, listed |-> {}, todo |-> {}, drop |-> {},
           made |-> NoIds, acted |-> FALSE, task |-> 0]

Init ==
    /\ \E r \in Requests :
          /\ obj = Created(r)
          /\ cluster = [status |-> "available", is |-> r.want, next |-> r.want]
    /\ cache = obj /\ current = {"cache"} /\ queued = TRUE
    /\ local = NoCopy /\ pc = "idle" /\ err = FALSE /\ work = NoWork
    /\ tasks = <<>>
    /\ pools = [i \in Ids |-> [name |-> None, state |-> "none"]]
    /\ faults = 0 /\ edits = 0 /\ did = {}

-----------------------------------------------------------------------------
(* Ending a sync, and writing the object.                                  *)

(* The worker forgets everything; the copies in fresh are still current. *)
EndSync(fresh) ==
    /\ pc' = "idle" /\ local' = NoCopy /\ work' = NoWork /\ err' = FALSE
    /\ current' = fresh \ {"local"}

(* The copy got lost in a failing write: the client returns an empty       *)
(* object, and recordError leaves that alone.  The key is queued again.    *)
GiveUp == EndSync(current) /\ queued' = TRUE /\ UNCHANGED <<obj, cache>>

(* The handler returns an error with its copy of the object. *)
Abandon == err' = TRUE /\ pc' = "report" /\ UNCHANGED <<store, local, work, queued>>

Go(next) == pc' = next /\ UNCHANGED <<store, local, err, queued>>

(* cceEnqueueAfter, cceEnqueue and return. *)
(* Variant: the key is not queued again. *)
RequeueNever == Go("report") /\ UNCHANGED work

Requeue ==
    pc' = "report" /\ queued' = TRUE /\ UNCHANGED <<store, local, err, work>>

(* What a RetryOnConflict closure writes: Get, change, Update. *)
Store(o, next) ==
    /\ obj' = o /\ local' = o /\ current' = {"local"} /\ pc' = next
    /\ UNCHANGED <<cache, err>>

(* A plain Update or UpdateStatus of the worker's copy.  Some callers      *)
(* queue the key right after it.                                           *)
UpdateCopy(o, next, requeue) ==
    \/ /\ "local" \in current
       /\ Store(o, next)
       /\ queued' = (queued \/ requeue) /\ UNCHANGED work
    \/ "local" \notin current /\ GiveUp

QuietCloud == UNCHANGED <<fabric, faults, edits, did>>

-----------------------------------------------------------------------------
(* checkAndUpdate, on the informer's copy.                                 *)

OnCCEConfigChanged ==
    /\ pc = "idle" /\ queued
    /\ pc' = "check" /\ local' = cache /\ queued' = FALSE
    /\ current' = IF "cache" \in current THEN {"cache", "local"} ELSE {}
    /\ UNCHANGED <<obj, cache, err, work>> /\ QuietCloud

(* validateUpdate: a node pool at least, and no two of one name. *)
Valid(o) ==
    /\ o.pools # <<>>
    /\ \A j, k \in DOMAIN o.pools : o.pools[j].name = o.pools[k].name => j = k

(* Variant: the status of the cluster is not looked at. *)
CheckClusterBlindly ==
    /\ pc = "check" /\ Valid(local)
    /\ work' = [work EXCEPT !.seen = cluster.is]
    /\ pc' = IF local.task # 0 THEN "task" ELSE "note"
    /\ UNCHANGED <<store, local, err, queued>> /\ QuietCloud

CheckCluster ==
    /\ pc = "check"
    /\ \/ /\ ~Valid(local)
          /\ err' = TRUE /\ pc' = "reject"
          /\ UNCHANGED <<store, local, work, queued>>
       \/ /\ Valid(local)
          /\ work' = [work EXCEPT !.seen = cluster.is]
          /\ Go(IF local.task # 0 THEN "task"
                ELSE IF cluster.status # "available" THEN "wait" ELSE "note")
    /\ QuietCloud

RejectUpdate ==
    /\ pc = "reject"
    /\ UpdateCopy([local EXCEPT !.phase = "updating"], "report", FALSE)
    /\ QuietCloud

(* clusterUpgradeable: the wanted version is newer; an older one is an     *)
(* error.                                                                  *)
(* Variant: any other version is an upgrade. *)
UpgradeableAny(old, new) == old # new

Upgradeable(old, new)  == old > new
Downgrade(old, new)    == old < new

(* An upgrade task is recorded.  It is forgotten when the version is       *)
(* reached or the task is over (or unknown to the cloud); a failed one is  *)
(* an error for good.                                                      *)
(* Variant: a task that is over is still waited for. *)
CheckTaskForever ==
    /\ pc = "task"
    /\ \/ Downgrade(local.want.version, work.seen.version) /\ Abandon
       \/ ~Downgrade(local.want.version, work.seen.version) /\ Requeue
    /\ QuietCloud

CheckTask ==
    /\ pc = "task"
    /\ LET forget == UpdateCopy([local EXCEPT !.task = 0], "report", FALSE)
           open   == Upgradeable(local.want.version, work.seen.version)
           state  == tasks[local.task].state
       IN  \/ Downgrade(local.want.version, work.seen.version) /\ Abandon
           \/ local.want.version = work.seen.version /\ forget
           \/ open /\ state = "done" /\ forget
           \/ open /\ state = "failed" /\ Abandon
           \/ open /\ state = "running" /\ Requeue
    /\ QuietCloud

(* The cluster or one of its pools is busy: show that and come back. *)
WaitForCloud ==
    /\ pc = "wait"
    /\ \/ local.phase = "updating" /\ Requeue
       \/ /\ local.phase # "updating"
          /\ UpdateCopy([local EXCEPT !.phase = "updating"], "report", TRUE)
    /\ QuietCloud

NoteCluster ==
    /\ pc = "note"
    /\ \/ local.noted /\ Go("get") /\ UNCHANGED work
       \/ ~local.noted /\ UpdateCopy([local EXCEPT !.noted = TRUE], "get", FALSE)
    /\ QuietCloud

(* From here on the worker has the stored object; while Rancher has not    *)
(* taken over the IDs of new pools, it leaves the pools alone.             *)
(* Variants: the copy is not read again; the handshake is ignored. *)
GetConfigNot == pc = "get" /\ Go("list") /\ UNCHANGED work /\ QuietCloud

GetConfigHasty ==
    /\ pc = "get"
    /\ local' = obj /\ current' = current \cup {"local"}
    /\ pc' = "list"
    /\ UNCHANGED <<obj, cache, err, work, queued>> /\ QuietCloud

GetConfig ==
    /\ pc = "get"
    /\ local' = obj /\ current' = current \cup {"local"}
    /\ \/ obj.made = NoIds /\ pc' = "list" /\ UNCHANGED queued
       \/ obj.made # NoIds /\ pc' = "report" /\ queued' = TRUE
    /\ UNCHANGED <<obj, cache, err, work>> /\ QuietCloud

ListNodePools ==
    /\ pc = "list"
    /\ work' = [work EXCEPT !.listed = {[name |-> pools[i].name, id |-> i] : i \in Existing}]
    /\ Go(IF \E i \in Existing : pools[i].state # "ready" THEN "wait" ELSE "group")
    /\ QuietCloud

-----------------------------------------------------------------------------
(* updateUpstreamClusterState, from the stored object as it was at "get".  *)

RecordGroup ==
    /\ pc = "group"
    /\ \/ local.group /\ Go("version") /\ UNCHANGED work
       \/ ~local.group /\ UpdateCopy([local EXCEPT !.group = TRUE], "version", FALSE)
    /\ QuietCloud

(* The cloud starts to change the cluster, if it is not at it already. *)
Begin(status, shape, reply) ==
    /\ cluster.status = "available"
    /\ cluster' = [cluster EXCEPT !.status = status, !.next = shape]
    /\ UNCHANGED <<pools, edits, did>>
    /\ \/ reply /\ UNCHANGED faults
       \/ Fault("reply") /\ Abandon

UpgradeCluster ==
    /\ pc = "version" /\ Upgradeable(local.want.version, work.seen.version)
    /\ \/ /\ Begin("upgrading", [cluster.is EXCEPT !.version = local.want.version],
                   /\ work' = [work EXCEPT !.task = Len(tasks) + 1]
                   /\ Go("taskRecord"))
          /\ tasks' = Append(tasks, [target |-> local.want.version, state |-> "running"])
       \/ cluster.status # "available" /\ Abandon /\ QuietCloud

ResizeCluster ==
    /\ pc = "version"
    /\ local.want.version = work.seen.version /\ local.want.flavor # work.seen.flavor
    /\ \/ /\ Begin("resizing", [cluster.is EXCEPT !.flavor = local.want.flavor],
                   Go("jobRecord") /\ UNCHANGED work)
          /\ UNCHANGED tasks
       \/ cluster.status # "available" /\ Abandon /\ QuietCloud

(* The version cannot be taken back. *)
RefuseDowngrade ==
    /\ pc = "version" /\ Downgrade(local.want.version, work.seen.version)
    /\ Abandon /\ QuietCloud

KeepShape ==
    /\ pc = "version" /\ local.want = work.seen
    /\ Go("cluster") /\ UNCHANGED work /\ QuietCloud

RecordTask ==
    /\ pc = "taskRecord"
    /\ Store([obj EXCEPT !.task = work.task], "enqueue")
    /\ UNCHANGED <<queued, work>> /\ QuietCloud

(* ResizeClusterJobID is written and never read. *)
(* Variant: the job is taken for an upgrade task. *)
RecordJobAsTask ==
    /\ pc = "jobRecord"
    /\ Store([obj EXCEPT !.task = Len(tasks) + 1], "enqueue")
    /\ UNCHANGED <<queued, work>> /\ QuietCloud

RecordJob ==
    /\ pc = "jobRecord"
    /\ Store(obj, "enqueue")
    /\ UNCHANGED <<queued, work>> /\ QuietCloud

EnqueueUpdate ==
    /\ pc = "enqueue"
    /\ \/ local.phase = "updating" /\ Requeue
       \/ /\ local.phase # "updating"
          /\ Store([obj EXCEPT !.phase = "updating"], "report")
          /\ UNCHANGED <<queued, work>>
    /\ QuietCloud

(* The loops over Spec.NodePools, in order. *)
Entries  == {<<k, local.pools[k]>> : k \in DOMAIN local.pools}
First(e) == e \in work.todo /\ \A d \in work.todo : e[1] <= d[1]

UpdateCluster ==
    /\ pc = "cluster"
    /\ work' = [work EXCEPT !.todo = {e \in Entries : e[2].id # None}]
    /\ Go("pools") /\ QuietCloud

(* One declared pool: the cloud takes over its name, or does not know it. *)
UpdateNodePool ==
    /\ pc = "pools"
    /\ \E e \in work.todo :
          /\ First(e)
          /\ \/ /\ e[2].id \in Existing
                /\ pools' = [pools EXCEPT ![e[2].id].name = e[2].name]
                /\ work' = [work EXCEPT !.todo = @ \ {e}]
                /\ UNCHANGED <<store, local, pc, err, queued>>
             \/ e[2].id \notin Existing /\ Abandon /\ UNCHANGED pools
    /\ UNCHANGED <<cluster, tasks, faults, edits, did>>

(* The pools of Spec that are not in the list, by ID or by name; those of  *)
(* the list whose ID is not in Spec.                                       *)
(* Variant: names are not compared. *)
MissingId(p) == ~ \E q \in work.listed : q.id = p.id

Missing(p) == ~ \E q \in work.listed : q.id = p.id \/ q.name = p.name
Unknown    == {q.id : q \in work.listed} \ IdsOf(local.pools)

CompareNodePools ==
    /\ pc = "pools" /\ work.todo = {}
    /\ work' = [work EXCEPT !.todo = {e \in Entries : Missing(e[2])}, !.drop = Unknown]
    /\ Go("create") /\ QuietCloud

Fresh == {i \in Ids : pools[i].state = "none"}
NewId == CHOOSE i \in Fresh : TRUE    \* identifiers are given once: any will do

CreateNodePool ==
    /\ pc = "create" /\ Fresh # {}
    /\ \E e \in work.todo :
          /\ First(e)
          /\ pools' = [pools EXCEPT ![NewId] = [name |-> e[2].name, state |-> "settling"]]
          /\ \/ /\ work' = [work EXCEPT !.todo = @ \ {e}, !.made[e[2].name] = NewId,
                                        !.acted = TRUE]
                /\ UNCHANGED <<store, local, pc, err, queued, faults>>
             \/ Fault("reply") /\ Abandon
    /\ UNCHANGED <<cluster, tasks, edits, did>>

CreatedAll ==
    /\ pc = "create" /\ work.todo = {}
    /\ Go(IF work.made # NoIds THEN "announce" ELSE "delete")
    /\ UNCHANGED work /\ QuietCloud

(* CreatedNodePoolIDs, for Rancher. *)
Announce ==
    /\ pc = "announce"
    /\ Store([obj EXCEPT !.made = work.made], "delete")
    /\ UNCHANGED <<queued, work>> /\ QuietCloud

DeleteNodePool ==
    /\ pc = "delete"
    /\ \E i \in work.drop :
          \/ /\ i \in Existing
             /\ pools' = [pools EXCEPT ![i].state = "deleting"]
             /\ work' = [work EXCEPT !.drop = @ \ {i}, !.acted = TRUE]
             /\ UNCHANGED <<store, local, pc, err, queued>>
          \/ i \notin Existing /\ Abandon /\ UNCHANGED pools
    /\ UNCHANGED <<cluster, tasks, faults, edits, did>>

DeletedAll ==
    /\ pc = "delete" /\ work.drop = {}
    /\ Go("finish") /\ UNCHANGED work /\ QuietCloud

(* Pools were created or deleted: come back.  Otherwise all is as wanted.  *)
(* Variant: active is written over whatever is stored now. *)
FinishBlindly ==
    /\ pc = "finish"
    /\ \/ work.acted /\ Requeue
       \/ /\ ~work.acted
          /\ Store([obj EXCEPT !.phase = "active"], "report") /\ UNCHANGED <<queued, work>>
    /\ QuietCloud

Finish ==
    /\ pc = "finish"
    /\ \/ work.acted /\ local.phase = "updating" /\ Requeue
       \/ /\ work.acted /\ local.phase # "updating"
          /\ Store([obj EXCEPT !.phase = "updating"], "report")
          /\ queued' = TRUE /\ UNCHANGED work
       \/ ~work.acted /\ local.phase = "active" /\ Go("report") /\ UNCHANGED work
       \/ /\ ~work.acted /\ local.phase # "active"
          /\ UpdateCopy([local EXCEPT !.phase = "active"], "report", FALSE)
    /\ QuietCloud

-----------------------------------------------------------------------------
(* Errors, and recordError around it all.                                  *)

(* A request fails and has no effect. *)
CallFails ==
    /\ \/ pc \in {"check", "task", "list", "version", "cluster"}
       \/ pc \in {"pools", "create"} /\ work.todo # {}
       \/ pc = "delete" /\ work.drop # {}
    /\ Fault("call") /\ Abandon
    /\ UNCHANGED <<fabric, edits, did>>

(* A write to the API server, or the read at "get", fails. *)
WriteFails ==
    /\ pc \in {"reject", "task", "wait", "note", "get", "group", "taskRecord",
               "jobRecord", "enqueue", "announce", "finish"}
    /\ Fault("write") /\ GiveUp
    /\ UNCHANGED <<fabric, edits, did>>

(* FailureMessage follows the outcome; an error also ends "active".  The   *)
(* write may meet a conflict, which is only logged; the same message is    *)
(* not written again, another one may replace it.                          *)
Reported(e) ==
    [local EXCEPT !.failed = e,
                  !.phase = IF e /\ @ = "active" THEN "updating" ELSE @]

RecordError ==
    /\ pc = "report"
    /\ \/ local.failed = err /\ EndSync(current) /\ UNCHANGED <<obj, faults>>
       \/ /\ local.failed # err \/ err
          /\ \/ "local" \in current /\ obj' = Reported(err) /\ EndSync({}) /\ UNCHANGED faults
             \/ "local" \notin current /\ EndSync(current) /\ UNCHANGED <<obj, faults>>
             \/ Fault("write") /\ EndSync(current) /\ UNCHANGED obj
    /\ queued' = (queued \/ err)
    /\ UNCHANGED <<cache, fabric, edits, did>>

-----------------------------------------------------------------------------
(* Everything that is not this worker.                                     *)

Inform ==
    /\ "cache" \notin current
    /\ cache' = obj /\ current' = current \cup {"cache"} /\ queued' = TRUE
    /\ UNCHANGED <<obj, worker>> /\ QuietCloud

(* The operator dies in a sync.  The next one lists every object anew. *)
Crash ==
    /\ pc # "idle" /\ Fault("crash")
    /\ EndSync({"cache"}) /\ cache' = obj /\ queued' = TRUE
    /\ UNCHANGED <<obj, fabric, edits, did>>

(* Users write Spec; every write makes the copies old. *)
Write(o) ==
    obj' = o /\ current' = {} /\ UNCHANGED <<cache, queued, worker, fabric, faults>>

Called(n)  == \E k \in DOMAIN obj.pools : obj.pools[k].name = n
Declare(n) == Write([obj EXCEPT !.pools = Append(@, [name |-> n, id |-> None])])

UserDeclares   == \E n \in Names : ~Called(n) /\ Edit("declare") /\ Declare(n)
UserDuplicates == \E n \in Names : Called(n) /\ Edit("duplicate") /\ Declare(n)

UserUndeclares ==
    \E k \in DOMAIN obj.pools :
        /\ Edit("undeclare")
        /\ Write([obj EXCEPT !.pools = SubSeq(@, 1, k - 1) \o SubSeq(@, k + 1, Len(@))])

UserRenames ==
    \E k \in DOMAIN obj.pools, n \in Names :
        ~Called(n) /\ Edit("rename") /\ Write([obj EXCEPT !.pools[k].name = n])

UserReshapes ==
    \/ \E v \in Versions \ {obj.want.version} :
          Edit("version") /\ Write([obj EXCEPT !.want.version = v])
    \/ \E f \in Flavors \ {obj.want.flavor} :
          Edit("flavor") /\ Write([obj EXCEPT !.want.flavor = f])

(* A field that is not modelled. *)
UserEdits == Edit("other") /\ Write(obj)

(* Rancher gives the pools their IDs and clears CreatedNodePoolIDs. *)
Adopted(p) == IF p.id # None THEN p ELSE [p EXCEPT !.id = obj.made[p.name]]

RancherAdopts ==
    /\ obj.made # NoIds
    /\ Write([obj EXCEPT !.made = NoIds,
                         !.pools = [k \in DOMAIN @ |-> Adopted(@[k])]])
    /\ UNCHANGED <<edits, did>>

Become(i, state) == pools' = [pools EXCEPT ![i].state = state]

PoolSettles ==
    /\ \E i \in Ids :
          \/ pools[i].state = "settling" /\ Become(i, "ready") /\ UNCHANGED faults
          \/ pools[i].state = "settling" /\ Become(i, "failed") /\ Fault("pool")
          \/ pools[i].state = "deleting" /\ Become(i, "gone") /\ UNCHANGED faults
    /\ UNCHANGED <<store, queued, worker, cluster, tasks, edits, did>>

(* The autoscaler, or somebody at the console. *)
PoolChanges ==
    /\ \E i \in Ids :
          /\ pools[i].state = "ready"
          /\ \/ Edit("scale") /\ Become(i, "settling")
             \/ Edit("console") /\ Become(i, "deleting")
    /\ UNCHANGED <<store, queued, worker, cluster, tasks, faults>>

(* An upgrade or a resize ends, well or not. *)
ClusterSettles ==
    /\ cluster.status # "available"
    /\ \E ok \in BOOLEAN :
          /\ IF ok THEN UNCHANGED faults ELSE Fault("task")
          /\ cluster' = [cluster EXCEPT !.status = "available",
                                        !.is = IF ok THEN cluster.next ELSE @]
          /\ tasks' = IF cluster.status = "upgrading"
                      THEN [tasks EXCEPT ![Len(tasks)].state =
                                                IF ok THEN "done" ELSE "failed"]
                      ELSE tasks
    /\ UNCHANGED <<store, queued, worker, pools, edits, did>>

-----------------------------------------------------------------------------
Worker ==
    \/ OnCCEConfigChanged \/ CheckCluster \/ RejectUpdate \/ CheckTask
    \/ WaitForCloud \/ NoteCluster \/ GetConfig \/ ListNodePools
    \/ RecordGroup \/ UpgradeCluster \/ ResizeCluster \/ RefuseDowngrade \/ KeepShape
    \/ RecordTask \/ RecordJob \/ EnqueueUpdate
    \/ UpdateCluster \/ UpdateNodePool \/ CompareNodePools
    \/ CreateNodePool \/ CreatedAll \/ Announce
    \/ DeleteNodePool \/ DeletedAll \/ Finish
    \/ CallFails \/ WriteFails \/ RecordError

Users ==
    \/ UserDeclares \/ UserDuplicates \/ UserUndeclares \/ UserRenames
    \/ UserReshapes \/ UserEdits

Next ==
    \/ Worker \/ Inform \/ Crash \/ Users \/ RancherAdopts
    \/ PoolSettles \/ PoolChanges \/ ClusterSettles

Spec == Init /\ [][Next]_vars

(* The work queue serves a queued key, the informer delivers, Rancher      *)
(* takes IDs over, and the cloud finishes what it was asked to do.         *)
Fairness ==
    /\ WF_vars(Worker) /\ WF_vars(Inform) /\ WF_vars(RancherAdopts)
    /\ WF_vars(PoolSettles) /\ WF_vars(ClusterSettles)

FairSpec == Spec /\ Fairness
-----------------------------------------------------------------------------
(* What keeping a cluster up to date promises.                             *)

(* Nothing is going on and nothing is left to do: without a change from    *)
(* outside the operator will not look at this configuration again.         *)
Quiet == pc = "idle" /\ ~queued /\ "cache" \in current

Untouched(kinds) == did \cap kinds = {}

(* The cloud has what Spec declares, and Spec names all that there is. *)
AsDeclared ==
    /\ cluster.status = "available" /\ cluster.is = obj.want
    /\ \A k \in DOMAIN obj.pools : obj.pools[k].id \in Existing
    /\ Existing = IdsOf(obj.pools)

(* The operator goes quiet only when the cluster is active and as          *)
(* declared, with no task or handshake open: every error, wait, conflict   *)
(* and half-done sync before that queues the key again or changes the      *)
(* object.  Pools deleted in the console and names that moved from one     *)
(* pool to another are what it overlooks.                                  *)
QuietMeansDone ==
    Quiet /\ Untouched({"console", "rename"}) =>
        /\ obj.phase = "active" /\ obj.task = 0 /\ obj.made = NoIds
        /\ AsDeclared

(* No two pools of one name are ever in the cloud, whatever is lost        *)
(* between the creation of a pool and the write that announces it.         *)
OnePoolPerName ==
    Untouched({"duplicate", "rename"}) =>
        \A i, j \in Existing : pools[i].name = pools[j].name => i = j

Named == IdsOf(obj.pools) \cup {obj.made[n] : n \in Names}

(* A pool that Spec names, declared or announced and not yet taken over by *)
(* Rancher, is only ever deleted in the console, whatever the users write   *)
(* and Rancher takes over while the worker goes by an older list.           *)
NamedPoolsKept ==
    [][\A i \in Ids :
         i \in Named /\ pools[i].state # "deleting" /\ pools'[i].state = "deleting"
            => edits' # edits]_vars

(* An announced ID stays until Rancher has put it into Spec. *)
AnnouncedKept ==
    [][\A n \in Names :
         obj.made[n] # None /\ obj'.made[n] # obj.made[n]
            => /\ obj'.made[n] = None
               /\ Untouched({"undeclare", "rename"}) => obj.made[n] \in IdsOf(obj'.pools)]_vars

(* Pools are created and deleted only while the cluster is not being       *)
(* upgraded or resized, though its status is read many steps earlier.      *)
OneAtATime ==
    [][\A i \in Ids :
         \/ pools[i].state = "none" /\ pools'[i].state # "none"
         \/ pools[i].state = "ready" /\ pools'[i].state = "deleting" /\ edits' = edits
         => cluster.status = "available"]_vars

(* An upgrade is asked for once, and only upwards, also when the reply or  *)
(* the record of its task is lost; a failed one may be asked for again.    *)
UpgradeOnce ==
    \A j, k \in DOMAIN tasks :
        j < k => tasks[j].state = "failed" \/ tasks[j].target < tasks[k].target

(* "active" is earned: when it is written, the cluster is what Spec wants  *)
(* at that very moment, and every pool of Spec is in the cloud; an edit    *)
(* during the sync makes the write fail.  (A Spec with two pools of one    *)
(* name passes for a moment: the copy that was validated is an older one.) *)
ActiveEarned ==
    [][obj.phase = "updating" /\ obj'.phase = "active"
         /\ Valid(obj) /\ Untouched({"console", "rename"}) => AsDeclared]_vars

(* What keeps the operator from its goal, retrying, until somebody acts. *)
Blocked ==
    \/ ~Valid(obj)
    \/ obj.want.version < cluster.is.version
    \/ obj.task # 0 /\ tasks[obj.task].state = "failed"
    \/ \E i \in Existing : pools[i].state = "failed"
    \/ IdsOf(obj.pools) \ Existing # {}

(* Users stop at some time; then the operator comes to rest, and is done,  *)
(* or it is blocked.                                                       *)
Settles == <>[](Quiet \/ Blocked)

-----------------------------------------------------------------------------
(* What documents and comments say and the code does not keep.             *)

(* The name of a pool may be edited: the operator never rests with a       *)
(* declared pool that was not created.                                     *)
DeclaredPoolsMade ==
    Quiet => \A k \in DOMAIN obj.pools : obj.pools[k].id \in Existing

(* "create nodePool exists in spec but not exists in upstream": a declared *)
(* pool comes back when it has disappeared.                                *)
DeclaredPoolsBack == <>[](\A k \in DOMAIN obj.pools : obj.pools[k].id \in Existing)
=============================================================================
