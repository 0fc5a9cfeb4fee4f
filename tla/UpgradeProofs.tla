--------------------------- MODULE UpgradeProofs ---------------------------
(* Proofs about CheckAndUpdate, for every set of names and identifiers,     *)
(* every first configuration and every number of faults and edits.          *)
EXTENDS CheckAndUpdate, SequenceTheorems, TLAPS

-----------------------------------------------------------------------------
(* Type correctness, in three parts.                                       *)

Copies == {"cache", "local"}
Task   == [target : Versions, state : {"running", "done", "failed"}]

CopiesTyped ==
    /\ obj \in Object /\ cache \in Object /\ local \in Object
    /\ current \subseteq Copies
    /\ queued \in BOOLEAN /\ err \in BOOLEAN /\ pc \in Steps
    /\ \A o \in {obj, cache, local} : o.task <= Len(tasks)

WorkTyped == work \in Work /\ work.task <= Len(tasks)

CloudTyped ==
    /\ cluster \in [status : {"available", "upgrading", "resizing"}, is : Shape, next : Shape]
    /\ tasks \in Seq(Task)
    /\ pools \in [Ids -> NodePool]
    /\ faults \in 0 .. MaxFaults /\ edits \in 0 .. MaxEdits /\ did \subseteq EditKinds

(* No step takes a task away. *)
TasksGrow == tasks' \in Seq(Task) /\ Len(tasks) <= Len(tasks')

LEMMA Parts == TypeOK <=> CopiesTyped /\ WorkTyped /\ CloudTyped
BY DEF TypeOK, CopiesTyped, WorkTyped, CloudTyped, Copies, Task

LEMMA PartsPrimed == CopiesTyped' /\ WorkTyped' /\ CloudTyped' => TypeOK'
BY DEF TypeOK, CopiesTyped, WorkTyped, CloudTyped, Copies, Task

LEMMA QuietCloudType == ASSUME TypeOK, QuietCloud PROVE CloudTyped' /\ TasksGrow
BY DEF TypeOK, CloudTyped, QuietCloud, fabric, TasksGrow, Task

LEMMA TasksGrowAlone == ASSUME TypeOK, UNCHANGED tasks PROVE TasksGrow
BY DEF TypeOK, TasksGrow, Task

(* The pools that exist have names. *)
LEMMA ExistingNamed == ASSUME TypeOK, NEW i \in Existing PROVE pools[i].name \in Names
<1>1. pools[i] \in NodePool /\ pools[i].state # "none"
      BY DEF TypeOK, Existing, Here
<1>   QED
      BY <1>1 DEF NodePool

LEMMA FunctionIsSeq ==
    ASSUME NEW S, NEW n \in Nat, NEW f \in [1 .. n -> S] PROVE f \in Seq(S)
BY SeqDef

LEMMA ExceptOutside ==
    ASSUME NEW S, NEW s \in Seq(S), NEW n, n \notin DOMAIN s, NEW x
    PROVE  [s EXCEPT ![n] = x] = s
<1>1. s \in [1 .. Len(s) -> S]
      BY ElementOfSeq
<1>2. /\ DOMAIN [s EXCEPT ![n] = x] = DOMAIN s
      /\ \A k \in DOMAIN s : [s EXCEPT ![n] = x][k] = s[k]
      OBVIOUS
<1>   QED
      BY <1>1, <1>2

LEMMA CreatedType ==
    ASSUME NEW names \in Seq(Names), NEW shape \in Shape
    PROVE  /\ Created([pools |-> names, want |-> shape]) \in Object
           /\ Created([pools |-> names, want |-> shape]).task = 0
<1> DEFINE f == [k \in DOMAIN names |-> [name |-> names[k], id |-> None]]
<1>1. f \in [1 .. Len(names) -> Pool]
      BY ElementOfSeq DEF Pool
<1>2. f \in Seq(Pool)
      BY <1>1, FunctionIsSeq
<1>3. NoIds \in [Names -> Ids \cup {None}]
      BY DEF NoIds
<1> HIDE DEF f
<1>4. [phase |-> "updating", failed |-> FALSE, noted |-> FALSE, group |-> FALSE,
       want |-> shape, task |-> 0, made |-> NoIds, pools |-> f] \in Object
      BY <1>2, <1>3 DEF Object
<1>   QED
      BY <1>4 DEF Created, f

LEMMA NoCopyType == NoCopy \in Object /\ NoCopy.task = 0
<1>1. \E s \in Shape : TRUE
  <2>1. PICK v \in Versions, f \in Flavors : TRUE
        BY ShapeAssumption
  <2>2. [version |-> v, flavor |-> f] \in Shape
        BY <2>1 DEF Shape
  <2>   QED
        BY <2>2
<1>2. (CHOOSE s \in Shape : TRUE) \in Shape
      BY <1>1
<1>   QED
      BY <1>2, CreatedType, EmptySeq DEF NoCopy

LEMMA NoWorkType == NoWork \in Work /\ NoWork.task = 0
<1>1. NoCopy.want \in Shape
      BY NoCopyType DEF Object
<1>2. NoIds \in [Names -> Ids \cup {None}]
      BY DEF NoIds
<1>   QED
      BY <1>1, <1>2 DEF NoWork, Work

LEMMA FaultType ==
    ASSUME TypeOK, NEW kind, Fault(kind) PROVE faults' \in 0 .. MaxFaults
BY BoundsAssumption DEF TypeOK, Fault

LEMMA EditType ==
    ASSUME TypeOK, NEW kind, Edit(kind)
    PROVE  edits' \in 0 .. MaxEdits /\ did' \subseteq EditKinds
BY BoundsAssumption DEF TypeOK, Edit

LEMMA EndSyncType ==
    ASSUME TypeOK, TasksGrow, NEW fresh \in SUBSET Copies, EndSync(fresh),
           obj' \in Object, obj'.task <= Len(tasks), cache' \in Object,
           cache'.task <= Len(tasks), queued' \in BOOLEAN
    PROVE  CopiesTyped' /\ WorkTyped'
<1>1. Len(tasks) \in Nat /\ Len(tasks') \in Nat
      BY DEF TypeOK, TasksGrow
<1>2. /\ pc' \in Steps /\ err' \in BOOLEAN /\ current' \subseteq Copies
      /\ local' = NoCopy /\ work' = NoWork
      BY DEF EndSync, Steps
<1>3. obj'.task <= Len(tasks') /\ cache'.task <= Len(tasks')
      BY <1>1 DEF Object, TasksGrow
<1>4. CopiesTyped'
      BY <1>1, <1>2, <1>3, NoCopyType DEF CopiesTyped
<1>   QED
      BY <1>1, <1>2, <1>4, NoWorkType DEF WorkTyped

LEMMA GiveUpType ==
    ASSUME TypeOK, TasksGrow, GiveUp PROVE CopiesTyped' /\ WorkTyped'
BY EndSyncType DEF TypeOK, GiveUp, Copies

LEMMA AbandonType ==
    ASSUME TypeOK, TasksGrow, Abandon PROVE CopiesTyped' /\ WorkTyped'
<1>1. Len(tasks) \in Nat /\ Len(tasks') \in Nat
      BY DEF TypeOK, TasksGrow
<1>2. \A n \in Nat : n <= Len(tasks) => n <= Len(tasks')
      BY <1>1 DEF TasksGrow
<1>3. pc' \in Steps /\ err' \in BOOLEAN /\ UNCHANGED <<store, local, work, queued>>
      BY DEF Abandon, Steps
<1>4. {obj.task, cache.task, local.task, work.task} \subseteq Nat
      BY DEF TypeOK, Object, Work
<1>5. CopiesTyped'
      BY <1>2, <1>3, <1>4 DEF TypeOK, CopiesTyped, store, Copies
<1>   QED
      BY <1>2, <1>3, <1>4, <1>5 DEF TypeOK, WorkTyped

LEMMA GoType ==
    ASSUME TypeOK, TasksGrow, NEW next \in Steps, Go(next) PROVE CopiesTyped'
<1>1. Len(tasks) \in Nat /\ Len(tasks') \in Nat
      BY DEF TypeOK, TasksGrow
<1>2. \A n \in Nat : n <= Len(tasks) => n <= Len(tasks')
      BY <1>1 DEF TasksGrow
<1>3. {obj.task, cache.task, local.task} \subseteq Nat
      BY DEF TypeOK, Object
<1>   QED
      BY <1>2, <1>3 DEF TypeOK, CopiesTyped, Go, store, Copies

LEMMA StoreType ==
    ASSUME TypeOK, UNCHANGED tasks, NEW o \in Object, o.task <= Len(tasks),
           NEW next \in Steps, Store(o, next), queued' \in BOOLEAN
    PROVE  CopiesTyped'
BY DEF TypeOK, CopiesTyped, Store, Copies

LEMMA UpdateCopyType ==
    ASSUME TypeOK, UNCHANGED tasks, NEW o \in Object, o.task <= Len(tasks),
           NEW next \in Steps, NEW requeue \in BOOLEAN, UpdateCopy(o, next, requeue)
    PROVE  CopiesTyped' /\ WorkTyped'
<1>1. CASE "local" \notin current /\ GiveUp
      BY <1>1, TasksGrowAlone, GiveUpType
<1>2. CASE Store(o, next) /\ queued' = (queued \/ requeue) /\ UNCHANGED work
      BY <1>2, StoreType DEF TypeOK, WorkTyped
<1>   QED
      BY <1>1, <1>2 DEF UpdateCopy

LEMMA RequeueType ==
    ASSUME TypeOK, UNCHANGED tasks, Requeue PROVE CopiesTyped' /\ WorkTyped'
BY DEF TypeOK, CopiesTyped, WorkTyped, Requeue, store, Copies, Steps

LEMMA StayType == ASSUME TypeOK, UNCHANGED <<work, tasks>> PROVE WorkTyped'
BY DEF TypeOK, WorkTyped

-----------------------------------------------------------------------------
(* One lemma per part of the handler.                                      *)

Dispatching ==
    \/ OnCCEConfigChanged \/ CheckCluster \/ RejectUpdate \/ CheckTask
    \/ WaitForCloud \/ NoteCluster \/ GetConfig \/ ListNodePools

LEMMA DispatchingType == ASSUME TypeOK, Dispatching PROVE TypeOK'
<1>0. QuietCloud
      BY DEF Dispatching, OnCCEConfigChanged, CheckCluster, RejectUpdate, CheckTask,
             WaitForCloud, NoteCluster, GetConfig, ListNodePools
<1>1. CloudTyped' /\ TasksGrow /\ UNCHANGED tasks
      BY <1>0, QuietCloudType DEF QuietCloud, fabric
<1>   SUFFICES CopiesTyped' /\ WorkTyped'
      BY <1>1, PartsPrimed
<1>2. CopiesTyped /\ WorkTyped
      BY Parts
<1>3. \A s \in Shape : [work EXCEPT !.seen = s] \in Work
                        /\ [work EXCEPT !.seen = s].task = work.task
      BY DEF TypeOK, Work
<1>4. CASE OnCCEConfigChanged
      BY <1>1, <1>2, <1>4
      DEF OnCCEConfigChanged, CopiesTyped, WorkTyped, Copies, Steps
<1>5. CASE CheckCluster
  <2>1. CASE err' = TRUE /\ pc' = "reject" /\ UNCHANGED <<store, local, work, queued>>
        BY <1>1, <1>2, <2>1 DEF CopiesTyped, WorkTyped, store, Steps
  <2>2. CASE /\ work' = [work EXCEPT !.seen = cluster.is]
             /\ Go(IF local.task # 0 THEN "task"
                   ELSE IF cluster.status # "available" THEN "wait" ELSE "note")
    <3>1. WorkTyped'
          BY <1>1, <1>2, <1>3, <2>2 DEF TypeOK, WorkTyped
    <3>2. CopiesTyped'
          BY <1>1, <2>2, GoType DEF Steps
    <3>   QED
          BY <3>1, <3>2
  <2>   QED
        BY <1>5, <2>1, <2>2 DEF CheckCluster
<1>6. CASE RejectUpdate
  <2>1. [local EXCEPT !.phase = "updating"] \in Object
        /\ [local EXCEPT !.phase = "updating"].task = local.task
        BY DEF TypeOK, Object
  <2>   QED
        BY <1>1, <1>6, <2>1, UpdateCopyType DEF RejectUpdate, TypeOK, Steps
<1>7. CASE CheckTask
  <2>1. [local EXCEPT !.task = 0] \in Object /\ [local EXCEPT !.task = 0].task = 0
        BY DEF TypeOK, Object
  <2>2. 0 <= Len(tasks)
        BY DEF TypeOK
  <2>3. CASE UpdateCopy([local EXCEPT !.task = 0], "report", FALSE)
        BY <1>1, <2>1, <2>2, <2>3, UpdateCopyType DEF Steps
  <2>4. CASE Abandon \/ Requeue
        BY <1>1, <2>4, AbandonType, RequeueType
  <2>   QED
        BY <1>7, <2>3, <2>4 DEF CheckTask
<1>8. CASE WaitForCloud
  <2>1. [local EXCEPT !.phase = "updating"] \in Object
        /\ [local EXCEPT !.phase = "updating"].task = local.task
        BY DEF TypeOK, Object
  <2>2. CASE UpdateCopy([local EXCEPT !.phase = "updating"], "report", TRUE)
        BY <1>1, <2>1, <2>2, UpdateCopyType DEF TypeOK, Steps
  <2>   QED
        BY <1>1, <1>8, <2>2, RequeueType DEF WaitForCloud
<1>9. CASE NoteCluster
  <2>1. [local EXCEPT !.noted = TRUE] \in Object
        /\ [local EXCEPT !.noted = TRUE].task = local.task
        BY DEF TypeOK, Object
  <2>2. CASE UpdateCopy([local EXCEPT !.noted = TRUE], "get", FALSE)
        BY <1>1, <2>1, <2>2, UpdateCopyType DEF TypeOK, Steps
  <2>3. CASE Go("get") /\ UNCHANGED work
        BY <1>1, <2>3, GoType, StayType DEF Steps
  <2>   QED
        BY <1>9, <2>2, <2>3 DEF NoteCluster
<1>10. CASE GetConfig
  <2>1. pc' \in Steps /\ queued' \in BOOLEAN
        BY <1>2, <1>10 DEF GetConfig, CopiesTyped, Steps
  <2>   QED
        BY <1>1, <1>2, <1>10, <2>1 DEF GetConfig, CopiesTyped, WorkTyped, Copies
<1>11. CASE ListNodePools
  <2>1. {[name |-> pools[i].name, id |-> i] : i \in Existing}
            \subseteq [name : Names, id : Ids]
        BY ExistingNamed DEF Existing
  <2>   QED
        BY <1>1, <1>2, <1>11, <2>1, GoType DEF ListNodePools, Steps, WorkTyped, Work
<1>   QED
      BY <1>4, <1>5, <1>6, <1>7, <1>8, <1>9, <1>10, <1>11 DEF Dispatching

Reshaping ==
    \/ RecordGroup \/ UpgradeCluster \/ ResizeCluster \/ RefuseDowngrade \/ KeepShape
    \/ RecordTask \/ RecordJob \/ EnqueueUpdate

LEMMA BeginType ==
    ASSUME TypeOK, NEW status \in {"upgrading", "resizing"}, NEW shape \in Shape,
           NEW reply, Begin(status, shape, reply)
    PROVE  /\ cluster' \in [status : {"available", "upgrading", "resizing"},
                            is : Shape, next : Shape]
           /\ faults' \in 0 .. MaxFaults
<1>1. faults' \in 0 .. MaxFaults
      BY FaultType DEF Begin, TypeOK
<1>   QED
      BY <1>1 DEF Begin, TypeOK

LEMMA UpgradeClusterType == ASSUME TypeOK, UpgradeCluster PROVE TypeOK'
<1> DEFINE shape == [cluster.is EXCEPT !.version = local.want.version]
           task  == [target |-> local.want.version, state |-> "running"]
           reply == /\ work' = [work EXCEPT !.task = Len(tasks) + 1]
                    /\ Go("taskRecord")
<1>1. CASE Abandon /\ QuietCloud
      BY <1>1, QuietCloudType, AbandonType, PartsPrimed
<1>2. CASE Begin("upgrading", shape, reply) /\ tasks' = Append(tasks, task)
  <2>1. shape \in Shape /\ task \in Task
        BY DEF TypeOK, Object, Shape, Task
  <2>2. /\ tasks' \in Seq(Task) /\ Len(tasks') = Len(tasks) + 1
        /\ Len(tasks) \in Nat
        BY <1>2, <2>1, AppendProperties DEF TypeOK, Task
  <2>3. TasksGrow
        BY <2>2 DEF TasksGrow
  <2>4. CloudTyped'
        BY <1>2, <2>1, <2>2, BeginType DEF Begin, CloudTyped, TypeOK
  <2>5. CASE reply
    <3>0. \A n \in Nat : /\ [work EXCEPT !.task = n] \in Work
                          /\ [work EXCEPT !.task = n].task = n
          BY DEF TypeOK, Work
    <3>1. Len(tasks) + 1 \in Nat /\ work' = [work EXCEPT !.task = Len(tasks) + 1]
          BY <2>2, <2>5
    <3>2. work' \in Work /\ work'.task = Len(tasks) + 1
          BY <3>0, <3>1
    <3>3. WorkTyped'
          BY <2>2, <3>2 DEF WorkTyped
    <3>   QED
          BY <2>3, <2>4, <2>5, <3>3, GoType, PartsPrimed DEF Steps
  <2>6. CASE Abandon
        BY <2>3, <2>4, <2>6, AbandonType, PartsPrimed
  <2>   QED
        BY <1>2, <2>5, <2>6 DEF Begin
<1>   QED
      BY <1>1, <1>2 DEF UpgradeCluster

LEMMA ResizeClusterType == ASSUME TypeOK, ResizeCluster PROVE TypeOK'
<1> DEFINE shape == [cluster.is EXCEPT !.flavor = local.want.flavor]
           reply == Go("jobRecord") /\ UNCHANGED work
<1>1. CASE Abandon /\ QuietCloud
      BY <1>1, QuietCloudType, AbandonType, PartsPrimed
<1>2. CASE Begin("resizing", shape, reply) /\ UNCHANGED tasks
  <2>1. shape \in Shape
        BY DEF TypeOK, Object, Shape
  <2>2. CloudTyped'
        BY <1>2, <2>1, BeginType DEF Begin, CloudTyped, TypeOK, Task
  <2>3. TasksGrow
        BY <1>2, TasksGrowAlone
  <2>4. CASE reply
        BY <1>2, <2>2, <2>3, <2>4, GoType, StayType, PartsPrimed DEF Steps
  <2>5. CASE Abandon
        BY <2>2, <2>3, <2>5, AbandonType, PartsPrimed
  <2>   QED
        BY <1>2, <2>4, <2>5 DEF Begin
<1>   QED
      BY <1>1, <1>2 DEF ResizeCluster

LEMMA ReshapingType == ASSUME TypeOK, Reshaping PROVE TypeOK'
<1>1. CASE UpgradeCluster \/ ResizeCluster
      BY <1>1, UpgradeClusterType, ResizeClusterType
<1>2. CASE RecordGroup \/ RefuseDowngrade \/ KeepShape \/ RecordTask \/ RecordJob \/ EnqueueUpdate
  <2>1. QuietCloud
        BY <1>2 DEF RecordGroup, RefuseDowngrade, KeepShape, RecordTask, RecordJob, EnqueueUpdate
  <2>2. CloudTyped' /\ TasksGrow /\ UNCHANGED tasks
        BY <2>1, QuietCloudType DEF QuietCloud, fabric
  <2>   SUFFICES CopiesTyped' /\ WorkTyped'
        BY <2>2, PartsPrimed
  <2>3. CASE RecordGroup
    <3>1. [local EXCEPT !.group = TRUE] \in Object
          /\ [local EXCEPT !.group = TRUE].task = local.task
          BY DEF TypeOK, Object
    <3>2. CASE UpdateCopy([local EXCEPT !.group = TRUE], "version", FALSE)
          BY <2>2, <3>1, <3>2, UpdateCopyType DEF TypeOK, Steps
    <3>   QED
          BY <2>2, <2>3, <3>2, GoType, StayType DEF RecordGroup, Steps
  <2>4. CASE RefuseDowngrade
        BY <2>2, <2>4, AbandonType DEF RefuseDowngrade
  <2>5. CASE KeepShape
        BY <2>2, <2>5, GoType, StayType DEF KeepShape, Steps
  <2>6. CASE RecordTask
    <3>1. [obj EXCEPT !.task = work.task] \in Object
          /\ [obj EXCEPT !.task = work.task].task = work.task
          BY DEF TypeOK, Object, Work
    <3>   QED
          BY <2>2, <2>6, <3>1, StoreType, StayType DEF RecordTask, TypeOK, Steps
  <2>7. CASE RecordJob
        BY <2>2, <2>7, StoreType, StayType DEF RecordJob, TypeOK, Steps
  <2>8. CASE EnqueueUpdate
    <3>1. [obj EXCEPT !.phase = "updating"] \in Object
          /\ [obj EXCEPT !.phase = "updating"].task = obj.task
          BY DEF TypeOK, Object
    <3>2. CASE Store([obj EXCEPT !.phase = "updating"], "report") /\ UNCHANGED <<queued, work>>
          BY <2>2, <3>1, <3>2, StoreType, StayType DEF TypeOK, Steps
    <3>   QED
          BY <2>2, <2>8, <3>2, RequeueType DEF EnqueueUpdate
  <2>   QED
        BY <1>2, <2>3, <2>4, <2>5, <2>6, <2>7, <2>8
<1>   QED
      BY <1>1, <1>2 DEF Reshaping

Pooling ==
    \/ UpdateCluster \/ UpdateNodePool \/ CompareNodePools \/ CreateNodePool \/ CreatedAll
    \/ Announce \/ DeleteNodePool \/ DeletedAll \/ Finish

LEMMA EntriesType == ASSUME TypeOK PROVE Entries \subseteq Nat \X Pool
<1>1. \A k \in DOMAIN local.pools : k \in Nat /\ local.pools[k] \in Pool
      BY ElementOfSeq DEF TypeOK, Object
<1>   QED
      BY <1>1 DEF Entries

LEMMA NewIdType == ASSUME Fresh # {} PROVE NewId \in Fresh
BY DEF NewId

(* A step that keeps the copies and at most the worker's lists change. *)
LEMMA WorkingType ==
    ASSUME TypeOK, UNCHANGED <<store, local, pc, err, queued, tasks>>,
           work' \in Work, work'.task = work.task
    PROVE  CopiesTyped' /\ WorkTyped'
BY DEF TypeOK, CopiesTyped, WorkTyped, store, Copies

(* A pool changes its phase or its name. *)
LEMMA PoolsType ==
    ASSUME TypeOK, NEW i \in Ids, NEW p \in NodePool, pools' = [pools EXCEPT ![i] = p]
    PROVE  pools' \in [Ids -> NodePool]
BY DEF TypeOK

LEMMA PoolingType == ASSUME TypeOK, Pooling PROVE TypeOK'
<1>1. CASE UpdateCluster \/ CompareNodePools \/ CreatedAll \/ Announce \/ DeletedAll \/ Finish
  <2>1. QuietCloud
        BY <1>1 DEF UpdateCluster, CompareNodePools, CreatedAll, Announce, DeletedAll, Finish
  <2>2. CloudTyped' /\ TasksGrow /\ UNCHANGED tasks
        BY <2>1, QuietCloudType DEF QuietCloud, fabric
  <2>   SUFFICES CopiesTyped' /\ WorkTyped'
        BY <2>2, PartsPrimed
  <2>3. CASE UpdateCluster
    <3>1. {e \in Entries : e[2].id # None} \subseteq Nat \X Pool
          BY EntriesType
    <3>   QED
          BY <2>2, <2>3, <3>1, GoType DEF UpdateCluster, TypeOK, Steps, WorkTyped, Work
  <2>4. CASE CompareNodePools
    <3>1. {e \in Entries : Missing(e[2])} \subseteq Nat \X Pool
          BY EntriesType
    <3>2. Unknown \subseteq Ids
          BY DEF TypeOK, Work, Unknown
    <3>   QED
          BY <2>2, <2>4, <3>1, <3>2, GoType DEF CompareNodePools, TypeOK, Steps, WorkTyped, Work
  <2>5. CASE CreatedAll \/ DeletedAll
        BY <2>2, <2>5, GoType, StayType DEF CreatedAll, DeletedAll, Steps
  <2>6. CASE Announce
    <3>1. [obj EXCEPT !.made = work.made] \in Object
          /\ [obj EXCEPT !.made = work.made].task = obj.task
          BY DEF TypeOK, Object, Work
    <3>   QED
          BY <2>2, <2>6, <3>1, StoreType, StayType DEF Announce, TypeOK, Steps
  <2>7. CASE Finish
    <3>1. [obj EXCEPT !.phase = "updating"] \in Object
          /\ [obj EXCEPT !.phase = "updating"].task = obj.task
          BY DEF TypeOK, Object
    <3>2. [local EXCEPT !.phase = "active"] \in Object
          /\ [local EXCEPT !.phase = "active"].task = local.task
          BY DEF TypeOK, Object
    <3>3. CASE Requeue
          BY <2>2, <3>3, RequeueType
    <3>4. CASE Go("report") /\ UNCHANGED work
          BY <2>2, <3>4, GoType, StayType DEF Steps
    <3>5. CASE Store([obj EXCEPT !.phase = "updating"], "report")
               /\ queued' = TRUE /\ UNCHANGED work
          BY <2>2, <3>1, <3>5, StoreType, StayType DEF TypeOK, Steps
    <3>6. CASE UpdateCopy([local EXCEPT !.phase = "active"], "report", FALSE)
          BY <2>2, <3>2, <3>6, UpdateCopyType DEF TypeOK, Steps
    <3>   QED
          BY <2>7, <3>3, <3>4, <3>5, <3>6 DEF Finish
  <2>   QED
        BY <1>1, <2>3, <2>4, <2>5, <2>6, <2>7
<1>2. CASE UpdateNodePool \/ CreateNodePool \/ DeleteNodePool
  <2>1. UNCHANGED <<cluster, tasks, edits, did>> /\ TasksGrow
        BY <1>2, TasksGrowAlone DEF UpdateNodePool, CreateNodePool, DeleteNodePool
  <2>2. faults' \in 0 .. MaxFaults
        BY <1>2, FaultType DEF UpdateNodePool, CreateNodePool, DeleteNodePool, TypeOK
  <2>3. pools' \in [Ids -> NodePool] => CloudTyped'
        BY <2>1, <2>2 DEF TypeOK, CloudTyped, Task
  <2>   SUFFICES pools' \in [Ids -> NodePool] /\ CopiesTyped' /\ WorkTyped'
        BY <2>3, PartsPrimed
  <2>4. CASE UpdateNodePool
    <3>1. PICK e \in work.todo :
            \/ /\ e[2].id \in Existing
               /\ pools' = [pools EXCEPT ![e[2].id].name = e[2].name]
               /\ work' = [work EXCEPT !.todo = @ \ {e}]
               /\ UNCHANGED <<store, local, pc, err, queued>>
            \/ Abandon /\ UNCHANGED pools
          BY <2>4 DEF UpdateNodePool
    <3>2. CASE Abandon /\ UNCHANGED pools
          BY <2>1, <3>2, AbandonType DEF TypeOK
    <3>3. CASE /\ e[2].id \in Existing
               /\ pools' = [pools EXCEPT ![e[2].id].name = e[2].name]
               /\ work' = [work EXCEPT !.todo = @ \ {e}]
               /\ UNCHANGED <<store, local, pc, err, queued>>
      <4>1. e[2].id \in Ids /\ pools[e[2].id] \in NodePool /\ pools[e[2].id].state \in Here
            BY <3>3 DEF TypeOK, Existing
      <4>2. e[2].name \in Names
            BY <3>1 DEF TypeOK, Work, Pool
      <4>3. [pools[e[2].id] EXCEPT !.name = e[2].name] \in NodePool
            BY <4>1, <4>2 DEF NodePool, Here
      <4>4. pools' \in [Ids -> NodePool]
            BY <3>3, <4>1, <4>3, PoolsType
      <4>5. work' \in Work /\ work'.task = work.task
            BY <3>3 DEF TypeOK, Work
      <4>   QED
            BY <2>1, <3>3, <4>4, <4>5, WorkingType
    <3>   QED
          BY <3>1, <3>2, <3>3
  <2>5. CASE CreateNodePool
    <3>1. PICK e \in work.todo :
            /\ pools' = [pools EXCEPT ![NewId] = [name |-> e[2].name, state |-> "settling"]]
            /\ \/ /\ work' = [work EXCEPT !.todo = @ \ {e}, !.made[e[2].name] = NewId,
                                           !.acted = TRUE]
                  /\ UNCHANGED <<store, local, pc, err, queued, faults>>
               \/ Abandon
          BY <2>5 DEF CreateNodePool
    <3>2. NewId \in Ids
          BY <2>5, NewIdType DEF CreateNodePool, Fresh
    <3>3. e[2].name \in Names
          BY <3>1 DEF TypeOK, Work, Pool
    <3>4. [name |-> e[2].name, state |-> "settling"] \in NodePool
          BY <3>3 DEF NodePool, Here
    <3>5. pools' \in [Ids -> NodePool]
          BY <3>1, <3>2, <3>4, PoolsType
    <3>6. CASE Abandon
          BY <2>1, <3>5, <3>6, AbandonType
    <3>7. CASE /\ work' = [work EXCEPT !.todo = @ \ {e}, !.made[e[2].name] = NewId,
                                       !.acted = TRUE]
               /\ UNCHANGED <<store, local, pc, err, queued, faults>>
      <4>1. work' \in Work /\ work'.task = work.task
            BY <3>2, <3>3, <3>7 DEF TypeOK, Work
      <4>   QED
            BY <2>1, <3>5, <3>7, <4>1, WorkingType
    <3>   QED
          BY <3>1, <3>6, <3>7
  <2>6. CASE DeleteNodePool
    <3>1. PICK i \in work.drop :
            \/ /\ i \in Existing
               /\ pools' = [pools EXCEPT ![i].state = "deleting"]
               /\ work' = [work EXCEPT !.drop = @ \ {i}, !.acted = TRUE]
               /\ UNCHANGED <<store, local, pc, err, queued>>
            \/ Abandon /\ UNCHANGED pools
          BY <2>6 DEF DeleteNodePool
    <3>2. CASE Abandon /\ UNCHANGED pools
          BY <2>1, <3>2, AbandonType DEF TypeOK
    <3>3. CASE /\ i \in Existing
               /\ pools' = [pools EXCEPT ![i].state = "deleting"]
               /\ work' = [work EXCEPT !.drop = @ \ {i}, !.acted = TRUE]
               /\ UNCHANGED <<store, local, pc, err, queued>>
      <4>1. i \in Ids /\ pools[i] \in NodePool /\ pools[i].state \in Here
            BY <3>3 DEF TypeOK, Existing
      <4>2. [pools[i] EXCEPT !.state = "deleting"] \in NodePool
            BY <4>1 DEF NodePool, Here
      <4>3. pools' \in [Ids -> NodePool]
            BY <3>3, <4>1, <4>2, PoolsType
      <4>4. work' \in Work /\ work'.task = work.task
            BY <3>3 DEF TypeOK, Work
      <4>   QED
            BY <2>1, <3>3, <4>3, <4>4, WorkingType
    <3>   QED
          BY <3>1, <3>2, <3>3
  <2>   QED
        BY <1>2, <2>4, <2>5, <2>6
<1>   QED
      BY <1>1, <1>2 DEF Pooling

LEMMA FailingType ==
    ASSUME TypeOK, CallFails \/ WriteFails \/ RecordError PROVE TypeOK'
<1>1. UNCHANGED <<fabric, edits, did>>
      BY DEF CallFails, WriteFails, RecordError
<1>2. faults' \in 0 .. MaxFaults
      BY FaultType DEF CallFails, WriteFails, RecordError, TypeOK
<1>3. CloudTyped' /\ TasksGrow
      BY <1>1, <1>2, TasksGrowAlone DEF TypeOK, CloudTyped, fabric, Task
<1>   SUFFICES CopiesTyped' /\ WorkTyped'
      BY <1>3, PartsPrimed
<1>4. CASE CallFails \/ WriteFails
      BY <1>3, <1>4, AbandonType, GiveUpType DEF CallFails, WriteFails
<1>5. CASE RecordError
  <2>1. \A e \in BOOLEAN : Reported(e) \in Object /\ Reported(e).task = local.task
        BY DEF TypeOK, Object, Reported
  <2>2. obj' \in Object /\ obj'.task <= Len(tasks)
    <3>1. obj' = obj \/ obj' = Reported(err)
          BY <1>5 DEF RecordError
    <3>   QED
          BY <2>1, <3>1 DEF TypeOK
  <2>3. queued' \in BOOLEAN /\ cache' = cache
        BY <1>5 DEF RecordError, TypeOK
  <2>4. PICK fresh \in {current, {}} : EndSync(fresh)
        BY <1>5 DEF RecordError
  <2>5. fresh \in SUBSET Copies
        BY DEF TypeOK, Copies
  <2>   QED
        BY <1>3, <2>2, <2>3, <2>4, <2>5, EndSyncType DEF TypeOK
<1>   QED
      BY <1>4, <1>5

-----------------------------------------------------------------------------
(* Everything around the worker.                                           *)

LEMMA InformType == ASSUME TypeOK, Inform \/ Crash PROVE TypeOK'
<1>1. CASE Inform
  <2>1. CloudTyped' /\ UNCHANGED tasks
        BY <1>1, QuietCloudType DEF Inform, QuietCloud, fabric
  <2>2. CopiesTyped' /\ WorkTyped'
        BY <1>1, <2>1 DEF TypeOK, Inform, CopiesTyped, WorkTyped, worker, Copies
  <2>   QED
        BY <2>1, <2>2, PartsPrimed
<1>2. CASE Crash
  <2>1. CloudTyped' /\ TasksGrow
        BY <1>2, FaultType, TasksGrowAlone DEF TypeOK, CloudTyped, Crash, fabric, Task
  <2>2. {"cache"} \in SUBSET Copies
        BY DEF Copies
  <2>3. CopiesTyped' /\ WorkTyped'
        BY <1>2, <2>1, <2>2, EndSyncType DEF TypeOK, Crash
  <2>   QED
        BY <2>1, <2>3, PartsPrimed
<1>   QED
      BY <1>1, <1>2

(* Whoever writes Spec keeps it a list of pools and leaves the task alone. *)
LEMMA WriteType ==
    ASSUME TypeOK, NEW o \in Object, o.task = obj.task, Write(o),
           edits' \in 0 .. MaxEdits, did' \subseteq EditKinds
    PROVE  TypeOK'
BY DEF TypeOK, Write, worker, fabric

LEMMA PoolsWriteType ==
    ASSUME TypeOK, NEW ps \in Seq(Pool)
    PROVE  [obj EXCEPT !.pools = ps] \in Object /\ [obj EXCEPT !.pools = ps].task = obj.task
BY DEF TypeOK, Object

LEMMA UndeclareType ==
    ASSUME NEW ps \in Seq(Pool), NEW k \in DOMAIN ps
    PROVE  SubSeq(ps, 1, k - 1) \o SubSeq(ps, k + 1, Len(ps)) \in Seq(Pool)
<1>1. k \in 1 .. Len(ps) /\ Len(ps) \in Nat
      OBVIOUS
<1>2. \A j \in 1 .. Len(ps) : ps[j] \in Pool
      BY ElementOfSeq
<1>3. SubSeq(ps, 1, k - 1) \in Seq(Pool)
  <2>1. 1 \in Int /\ k - 1 \in Int /\ \A j \in 1 .. k - 1 : ps[j] \in Pool
        BY <1>1, <1>2
  <2>   QED
        BY <2>1, SubSeqProperties
<1>4. SubSeq(ps, k + 1, Len(ps)) \in Seq(Pool)
  <2>1. k + 1 \in Int /\ Len(ps) \in Int /\ \A j \in k + 1 .. Len(ps) : ps[j] \in Pool
        BY <1>1, <1>2
  <2>   QED
        BY <2>1, SubSeqProperties
<1>   QED
      BY <1>3, <1>4, ConcatProperties

LEMMA UsersType == ASSUME TypeOK, Users PROVE TypeOK'
<1>0. obj.pools \in Seq(Pool)
      BY DEF TypeOK, Object
<1>1. CASE UserDeclares \/ UserDuplicates
  <2>1. PICK n \in Names : Declare(n)
        BY <1>1 DEF UserDeclares, UserDuplicates
  <2>2. Append(obj.pools, [name |-> n, id |-> None]) \in Seq(Pool)
    <3>1. [name |-> n, id |-> None] \in Pool
          BY DEF Pool
    <3>   QED
          BY <1>0, <3>1, AppendProperties
  <2>3. edits' \in 0 .. MaxEdits /\ did' \subseteq EditKinds
        BY <1>1, EditType DEF UserDeclares, UserDuplicates
  <2>   QED
        BY <2>1, <2>2, <2>3, PoolsWriteType, WriteType DEF Declare
<1>2. CASE UserUndeclares
  <2>1. PICK k \in DOMAIN obj.pools :
           Write([obj EXCEPT !.pools = SubSeq(@, 1, k - 1) \o SubSeq(@, k + 1, Len(@))])
        BY <1>2 DEF UserUndeclares
  <2>2. edits' \in 0 .. MaxEdits /\ did' \subseteq EditKinds
        BY <1>2, EditType DEF UserUndeclares
  <2>   QED
        BY <1>0, <2>1, <2>2, UndeclareType, PoolsWriteType, WriteType
<1>3. CASE UserRenames
  <2>1. PICK k \in DOMAIN obj.pools, n \in Names : Write([obj EXCEPT !.pools[k].name = n])
        BY <1>3 DEF UserRenames
  <2>2. [obj.pools EXCEPT ![k].name = n] \in Seq(Pool)
    <3>0. obj.pools[k] \in Pool
          BY <1>0, ElementOfSeq
    <3>1. [obj.pools[k] EXCEPT !.name = n] \in Pool
          BY <3>0 DEF Pool
    <3>2. [obj.pools EXCEPT ![k] = [obj.pools[k] EXCEPT !.name = n]] \in Seq(Pool)
          BY <1>0, <3>1, ExceptSeq
    <3>   QED
          BY <3>2
  <2>3. edits' \in 0 .. MaxEdits /\ did' \subseteq EditKinds
        BY <1>3, EditType DEF UserRenames
  <2>   QED
        BY <2>1, <2>2, <2>3, PoolsWriteType, WriteType
<1>4. CASE UserReshapes
  <2>1. edits' \in 0 .. MaxEdits /\ did' \subseteq EditKinds
        BY <1>4, EditType DEF UserReshapes
  <2>2. \A v \in Versions : [obj EXCEPT !.want.version = v] \in Object
                            /\ [obj EXCEPT !.want.version = v].task = obj.task
        BY DEF TypeOK, Object, Shape
  <2>3. \A f \in Flavors : [obj EXCEPT !.want.flavor = f] \in Object
                            /\ [obj EXCEPT !.want.flavor = f].task = obj.task
        BY DEF TypeOK, Object, Shape
  <2>   QED
        BY <1>4, <2>1, <2>2, <2>3, WriteType DEF UserReshapes
<1>5. CASE UserEdits
      BY <1>5, EditType, WriteType DEF UserEdits, TypeOK
<1>   QED
      BY <1>1, <1>2, <1>3, <1>4, <1>5 DEF Users

LEMMA RancherType == ASSUME TypeOK, RancherAdopts PROVE TypeOK'
<1> DEFINE ps == [k \in DOMAIN obj.pools |-> Adopted(obj.pools[k])]
<1>0. obj.pools \in Seq(Pool) /\ obj.made \in [Names -> Ids \cup {None}]
      BY DEF TypeOK, Object
<1>1. \A p \in Pool : Adopted(p) \in Pool
      BY <1>0 DEF Adopted, Pool
<1>2. ps \in [1 .. Len(obj.pools) -> Pool]
  <2>1. DOMAIN obj.pools = 1 .. Len(obj.pools)
        BY <1>0
  <2>2. ASSUME NEW k \in 1 .. Len(obj.pools) PROVE Adopted(obj.pools[k]) \in Pool
        BY <1>0, <1>1, <2>2, ElementOfSeq
  <2>3. ps = [k \in 1 .. Len(obj.pools) |-> Adopted(obj.pools[k])]
        BY <2>1, Zenon
  <2> HIDE DEF ps
  <2>   QED
        BY <2>2, <2>3
<1> HIDE DEF ps
<1>3. ps \in Seq(Pool)
  <2>1. Len(obj.pools) \in Nat
        BY <1>0
  <2>   QED
        BY <1>2, <2>1, FunctionIsSeq
<1>4. NoIds \in [Names -> Ids \cup {None}]
      BY DEF NoIds
<1>5. [obj EXCEPT !.made = NoIds, !.pools = ps] \in Object
      /\ [obj EXCEPT !.made = NoIds, !.pools = ps].task = obj.task
      BY <1>3, <1>4 DEF TypeOK, Object
<1>6. Write([obj EXCEPT !.made = NoIds, !.pools = ps]) /\ UNCHANGED <<edits, did>>
      BY DEF RancherAdopts, ps
<1>   QED
      BY <1>5, <1>6, WriteType DEF TypeOK

LEMMA SettlingType ==
    ASSUME TypeOK, PoolSettles \/ PoolChanges \/ ClusterSettles PROVE TypeOK'
<1>1. CASE PoolSettles \/ PoolChanges
  <2>1. PICK i \in Ids, state \in Here \cup {"gone"} :
           pools[i].state # "none" /\ Become(i, state)
        BY <1>1 DEF PoolSettles, PoolChanges, Here
  <2>2. [pools[i] EXCEPT !.state = state] \in NodePool
    <3>1. pools[i] \in NodePool
          BY DEF TypeOK
    <3>   QED
          BY <2>1, <3>1 DEF NodePool
  <2>3. pools' \in [Ids -> NodePool]
        BY <2>1, <2>2, PoolsType DEF Become
  <2>4. /\ faults' \in 0 .. MaxFaults /\ edits' \in 0 .. MaxEdits
        /\ did' \subseteq EditKinds
        BY <1>1, FaultType, EditType DEF PoolSettles, PoolChanges, TypeOK
  <2>5. UNCHANGED <<store, queued, worker, cluster, tasks>>
        BY <1>1 DEF PoolSettles, PoolChanges
  <2>   QED
        BY <2>3, <2>4, <2>5 DEF TypeOK, store, worker
<1>2. CASE ClusterSettles
  <2>1. faults' \in 0 .. MaxFaults
        BY <1>2, FaultType DEF ClusterSettles, TypeOK
  <2>2. /\ UNCHANGED <<store, queued, worker, pools, edits, did>>
        /\ cluster' \in [status : {"available", "upgrading", "resizing"},
                         is : Shape, next : Shape]
        BY <1>2 DEF ClusterSettles, TypeOK
  <2>3. tasks \in Seq(Task)
        BY DEF TypeOK, Task
  <2>4. PICK state \in {"done", "failed"} :
           \/ tasks' = [tasks EXCEPT ![Len(tasks)] = [tasks[Len(tasks)] EXCEPT !.state = state]]
           \/ UNCHANGED tasks
        BY <1>2 DEF ClusterSettles
  <2>5. tasks' \in Seq(Task) /\ Len(tasks') = Len(tasks)
    <3>1. CASE Len(tasks) \in DOMAIN tasks
      <4>1. tasks[Len(tasks)] \in Task
            BY <2>3, <3>1, ElementOfSeq
      <4>2. [tasks[Len(tasks)] EXCEPT !.state = state] \in Task
            BY <4>1 DEF Task
      <4>   QED
            BY <2>3, <2>4, <3>1, <4>2, ExceptSeq
    <3>2. CASE Len(tasks) \notin DOMAIN tasks
          BY <2>3, <2>4, <3>2, ExceptOutside
    <3>   QED
          BY <3>1, <3>2
  <2>   QED
        BY <2>1, <2>2, <2>5 DEF TypeOK, store, worker, Task
<1>   QED
      BY <1>1, <1>2

LEMMA InitType == Init => TypeOK
<1>   SUFFICES ASSUME Init PROVE TypeOK
      OBVIOUS
<1>1. PICK r \in Requests :
         /\ obj = Created(r)
         /\ cluster = [status |-> "available", is |-> r.want, next |-> r.want]
      BY DEF Init
<1>2. r.pools \in Seq(Names) /\ r.want \in Shape
      /\ r = [pools |-> r.pools, want |-> r.want]
      BY RequestsAssumption
<1>3. obj \in Object /\ obj.task = 0
      BY <1>1, <1>2, CreatedType
<1>4. pools \in [Ids -> NodePool]
      BY DEF Init, NodePool
<1>5. tasks \in Seq(Task) /\ Len(tasks) = 0
      BY EmptySeq DEF Init
<1>6. local \in Object /\ local.task = 0 /\ work \in Work /\ work.task = 0
      BY NoCopyType, NoWorkType DEF Init
<1>7. cache = obj /\ current = {"cache"} /\ queued = TRUE /\ pc = "idle" /\ err = FALSE
      /\ faults = 0 /\ edits = 0 /\ did = {}
      BY DEF Init
<1>8. CopiesTyped
  <2>1. \A o \in {obj, cache, local} : o \in Object /\ o.task <= Len(tasks)
        BY <1>3, <1>5, <1>6, <1>7
  <2>2. current \subseteq Copies /\ pc \in Steps
        BY <1>7 DEF Copies, Steps
  <2>   QED
        BY <1>7, <2>1, <2>2 DEF CopiesTyped
<1>9. WorkTyped
      BY <1>5, <1>6 DEF WorkTyped
<1>10. CloudTyped
      BY <1>1, <1>2, <1>4, <1>5, <1>7, BoundsAssumption DEF CloudTyped
<1>   QED
      BY <1>8, <1>9, <1>10, Parts

(* Every variable keeps its type, whoever acts: whatever is recorded as an  *)
(* upgrade task was started, and the IDs and names in the worker's lists    *)
(* are IDs and names.                                                       *)
THEOREM TypeCorrect == Spec => []TypeOK
<1>1. TypeOK /\ [Next]_vars => TypeOK'
  <2> SUFFICES ASSUME TypeOK, [Next]_vars PROVE TypeOK'
      OBVIOUS
  <2>1. CASE UNCHANGED vars
        BY <2>1 DEF vars, store, worker, fabric, TypeOK
  <2>2. CASE Worker
        BY <2>2, DispatchingType, ReshapingType, PoolingType, FailingType
        DEF Worker, Dispatching, Reshaping, Pooling
  <2>3. CASE Inform \/ Crash \/ Users \/ RancherAdopts
        BY <2>3, InformType, UsersType, RancherType
  <2>4. CASE PoolSettles \/ PoolChanges \/ ClusterSettles
        BY <2>4, SettlingType
  <2>   QED
        BY <2>1, <2>2, <2>3, <2>4 DEF Next
<1>   QED
      BY <1>1, InitType, PTL DEF Spec

-----------------------------------------------------------------------------
(* The cloud is asked for one thing at a time.                             *)

(* From the moment the worker has seen that the cluster is available until *)
(* it asks for a change of its own, the cluster stays as the worker saw it: *)
(* nobody else changes it.                                                 *)
SteadySteps == {"note", "get", "list", "group", "version", "cluster", "pools", "create",
                "announce", "delete", "finish"}

Steady == pc \in SteadySteps => cluster.status = "available" /\ cluster.is = work.seen

LEMMA SteadyInit == Init => Steady
BY DEF Init, Steady, SteadySteps

(* Everybody but the worker, and a worker that ends its sync, leaves the   *)
(* steady steps or leaves the cluster alone.                               *)
LEMMA SteadyKept ==
    ASSUME Steady, UNCHANGED cluster, work'.seen = work.seen,
           pc' \in SteadySteps => pc \in SteadySteps
    PROVE  Steady'
BY DEF Steady

LEMMA SteadyLeft == ASSUME pc' \notin SteadySteps PROVE Steady'
BY DEF Steady

LEMMA SteadyStep == ASSUME TypeOK, Steady, [Next]_vars PROVE Steady'
<1>1. CASE Inform \/ Users \/ RancherAdopts \/ PoolSettles \/ PoolChanges \/ UNCHANGED vars
  <2>1. UNCHANGED <<worker, cluster>>
        BY <1>1 DEF Inform, Users, RancherAdopts, PoolSettles, PoolChanges, QuietCloud, fabric,
                    UserDeclares, UserDuplicates, UserUndeclares, UserRenames, UserReshapes,
                    UserEdits, Declare, Write, vars
  <2>   QED
        BY <2>1, SteadyKept DEF worker
<1>2. CASE ClusterSettles
      BY <1>2 DEF ClusterSettles, Steady, worker
<1>3. CASE Crash \/ CallFails \/ WriteFails \/ RecordError
      BY <1>3, SteadyLeft
      DEF Crash, CallFails, WriteFails, RecordError, EndSync, GiveUp, Abandon, SteadySteps
<1>4. CASE Dispatching
  <2>1. CASE OnCCEConfigChanged \/ RejectUpdate \/ CheckTask \/ WaitForCloud
        BY <2>1, SteadyLeft
        DEF OnCCEConfigChanged, RejectUpdate, CheckTask, WaitForCloud, UpdateCopy, Store,
            GiveUp, EndSync, Abandon, Requeue, SteadySteps
  <2>2. CASE CheckCluster
    <3>1. CASE pc' = "note"
      <4>1. work' = [work EXCEPT !.seen = cluster.is] /\ cluster.status = "available"
            BY <2>2, <3>1 DEF CheckCluster, Go
      <4>2. work'.seen = cluster.is
            BY <4>1 DEF TypeOK, Work
      <4>   QED
            BY <2>2, <4>1, <4>2 DEF CheckCluster, QuietCloud, fabric, Steady
    <3>2. CASE pc' # "note"
          BY <2>2, <3>2, SteadyLeft DEF CheckCluster, Go, SteadySteps
    <3>   QED
          BY <3>1, <3>2
  <2>3. CASE NoteCluster \/ GetConfig \/ ListNodePools
    <3>1. pc \in SteadySteps /\ UNCHANGED cluster
          BY <2>3 DEF NoteCluster, GetConfig, ListNodePools, SteadySteps, QuietCloud, fabric
    <3>2. CASE work'.seen = work.seen
          BY <3>1, <3>2, SteadyKept
    <3>3. CASE work'.seen # work.seen
      <4>1. GiveUp
            BY <2>3, <3>3 DEF NoteCluster, GetConfig, ListNodePools, UpdateCopy, Go, TypeOK, Work
      <4>   QED
            BY <4>1, SteadyLeft DEF GiveUp, EndSync, SteadySteps
    <3>   QED
          BY <3>2, <3>3
  <2>   QED
        BY <1>4, <2>1, <2>2, <2>3 DEF Dispatching
<1>5. CASE Reshaping
  <2>1. CASE \/ UpgradeCluster \/ ResizeCluster \/ RefuseDowngrade
             \/ RecordTask \/ RecordJob \/ EnqueueUpdate
        BY <2>1, SteadyLeft
        DEF UpgradeCluster, ResizeCluster, RefuseDowngrade, RecordTask, RecordJob,
            EnqueueUpdate, Begin, Store, Go, Abandon, Requeue, SteadySteps
  <2>2. CASE RecordGroup \/ KeepShape
    <3>1. pc \in SteadySteps /\ UNCHANGED cluster
          BY <2>2 DEF RecordGroup, KeepShape, SteadySteps, QuietCloud, fabric
    <3>2. CASE UNCHANGED work
          BY <3>1, <3>2, SteadyKept
    <3>3. CASE ~UNCHANGED work
      <4>1. GiveUp
            BY <2>2, <3>3 DEF RecordGroup, KeepShape, UpdateCopy
      <4>   QED
            BY <4>1, SteadyLeft DEF GiveUp, EndSync, SteadySteps
    <3>   QED
          BY <3>2, <3>3
  <2>   QED
        BY <1>5, <2>1, <2>2 DEF Reshaping
<1>6. CASE Pooling
  <2>1. pc \in SteadySteps /\ UNCHANGED cluster
        BY <1>6 DEF Pooling, UpdateCluster, UpdateNodePool, CompareNodePools, CreateNodePool,
                    CreatedAll, Announce, DeleteNodePool, DeletedAll, Finish, SteadySteps,
                    QuietCloud, fabric
  <2>2. CASE work'.seen = work.seen
        BY <2>1, <2>2, SteadyKept
  <2>3. CASE GiveUp
        BY <2>3, SteadyLeft DEF GiveUp, EndSync, SteadySteps
  <2>4. GiveUp \/ work'.seen = work.seen
    <3>1. CASE UpdateCluster \/ CompareNodePools \/ CreatedAll \/ Announce \/ DeletedAll \/ Finish
          BY <3>1 DEF UpdateCluster, CompareNodePools, CreatedAll, Announce, DeletedAll, Finish,
                      UpdateCopy, Requeue, TypeOK, Work
    <3>2. CASE UpdateNodePool \/ CreateNodePool \/ DeleteNodePool
          BY <3>2 DEF UpdateNodePool, CreateNodePool, DeleteNodePool, Abandon, TypeOK, Work
    <3>   QED
          BY <1>6, <3>1, <3>2 DEF Pooling
  <2>   QED
        BY <2>2, <2>3, <2>4
<1>   QED
      BY <1>1, <1>2, <1>3, <1>4, <1>5, <1>6
      DEF Next, Worker, Dispatching, Reshaping, Pooling

(* Since the status of the cluster was read it has not started to change,  *)
(* so pools are only created and deleted while it is available.            *)
THEOREM ClusterSteady == Spec => []Steady
BY TypeCorrect, SteadyInit, SteadyStep, PTL DEF Spec

THEOREM PoolsOneAtATime == Spec => OneAtATime
<1> DEFINE Quiescent(i) ==
              \/ pools[i].state = "none" /\ pools'[i].state # "none"
              \/ pools[i].state = "ready" /\ pools'[i].state = "deleting" /\ edits' = edits
              => cluster.status = "available"
<1>1. ASSUME TypeOK, Steady, Next PROVE \A i \in Ids : Quiescent(i)
  <2>1. CASE UNCHANGED pools
        BY <2>1
  <2>2. CASE CreateNodePool \/ DeleteNodePool
    <3>1. pc \in SteadySteps
          BY <2>2 DEF CreateNodePool, DeleteNodePool, SteadySteps
    <3>   QED
          BY <1>1, <3>1 DEF Steady
  <2>3. CASE UpdateNodePool
        BY <1>1, <2>3 DEF UpdateNodePool, TypeOK, NodePool, Existing
  <2>4. CASE PoolSettles
        BY <1>1, <2>4 DEF PoolSettles, Become, TypeOK, NodePool
  <2>5. CASE PoolChanges
    <3>1. edits' # edits
          BY <1>1, <2>5 DEF PoolChanges, Edit, TypeOK
    <3>   QED
          BY <1>1, <2>5, <3>1 DEF PoolChanges, Become, TypeOK, NodePool
  <2>6. \/ UNCHANGED pools \/ CreateNodePool \/ DeleteNodePool \/ UpdateNodePool
        \/ PoolSettles \/ PoolChanges
    <3>1. Users \/ RancherAdopts \/ Inform \/ Crash \/ ClusterSettles => UNCHANGED pools
          BY DEF Users, RancherAdopts, Inform, Crash, ClusterSettles, QuietCloud, fabric,
                 UserDeclares, UserDuplicates, UserUndeclares, UserRenames, UserReshapes,
                 UserEdits, Declare, Write
    <3>2. CallFails \/ WriteFails \/ RecordError \/ Dispatching \/ Reshaping => UNCHANGED pools
          BY DEF CallFails, WriteFails, RecordError, Dispatching, Reshaping, QuietCloud, fabric,
                 OnCCEConfigChanged, CheckCluster, RejectUpdate, CheckTask, WaitForCloud,
                 NoteCluster, GetConfig, ListNodePools, RecordGroup, UpgradeCluster,
                 ResizeCluster, RefuseDowngrade, KeepShape, RecordTask, RecordJob,
                 EnqueueUpdate, Begin
    <3>3. UpdateCluster \/ CompareNodePools \/ CreatedAll \/ Announce \/ DeletedAll \/ Finish
             => UNCHANGED pools
          BY DEF UpdateCluster, CompareNodePools, CreatedAll, Announce, DeletedAll, Finish,
                 QuietCloud, fabric
    <3>   QED
          BY <1>1, <3>1, <3>2, <3>3 DEF Next, Worker, Dispatching, Reshaping
  <2>   QED
        BY <2>1, <2>2, <2>3, <2>4, <2>5, <2>6
<1>2. TypeOK /\ Steady /\ [Next]_vars => [\A i \in Ids : Quiescent(i)]_vars
      BY <1>1
<1>   QED
      BY <1>2, TypeCorrect, ClusterSteady, PTL DEF Spec, OneAtATime

-----------------------------------------------------------------------------
(* Upgrades.                                                               *)

(* Only the last task may be running, and only while the cluster is being  *)
(* upgraded, to a newer version; what is done has been reached.            *)
RunningLast ==
    \A j \in DOMAIN tasks :
        tasks[j].state = "running" => j = Len(tasks) /\ cluster.status = "upgrading"

DoneReached ==
    \A j \in DOMAIN tasks : tasks[j].state = "done" => tasks[j].target <= cluster.is.version

UnderWay ==
    /\ cluster.status = "upgrading" =>
          /\ tasks # <<>> /\ tasks[Len(tasks)].target = cluster.next.version
          /\ cluster.is.version < cluster.next.version
    /\ cluster.status = "resizing" => cluster.next.version = cluster.is.version

TasksOrdered == RunningLast /\ DoneReached /\ UnderWay /\ UpgradeOnce

LEMMA OrderedInit == Init => TasksOrdered
BY DEF Init, TasksOrdered, RunningLast, DoneReached, UnderWay, UpgradeOnce

LEMMA OrderedKept == ASSUME TasksOrdered, UNCHANGED <<cluster, tasks>> PROVE TasksOrdered'
BY DEF TasksOrdered, RunningLast, DoneReached, UnderWay, UpgradeOnce

LEMMA TaskTypes ==
    ASSUME TypeOK
    PROVE  /\ tasks \in Seq(Task) /\ Len(tasks) \in Nat /\ DOMAIN tasks = 1 .. Len(tasks)
           /\ \A j \in DOMAIN tasks : tasks[j] \in Task /\ tasks[j].target \in Nat
           /\ cluster.is.version \in Nat /\ cluster.next.version \in Nat
           /\ local.want.version \in Nat
<1>1. tasks \in Seq(Task)
      BY DEF TypeOK, Task
<1>2. \A j \in DOMAIN tasks : tasks[j] \in Task
      BY <1>1, ElementOfSeq
<1>3. \A s \in Shape : s.version \in Nat
      BY ShapeAssumption DEF Shape
<1>4. cluster.is \in Shape /\ cluster.next \in Shape /\ local.want \in Shape
      BY DEF TypeOK, Object
<1>5. \A j \in DOMAIN tasks : tasks[j].target \in Nat
      BY <1>2, ShapeAssumption DEF Task
<1>   QED
      BY <1>1, <1>2, <1>3, <1>4, <1>5

(* The worker asks for an upgrade only when it has seen the cluster        *)
(* available, and Steady says that it still is.                            *)
LEMMA UpgradeOrdered ==
    ASSUME TypeOK, Steady, TasksOrdered, UpgradeCluster PROVE TasksOrdered'
<1> DEFINE new  == local.want.version
           task == [target |-> new, state |-> "running"]
<1>1. CASE QuietCloud
      BY <1>1, OrderedKept DEF QuietCloud, fabric
<1>2. CASE /\ cluster.status = "available"
           /\ cluster' = [cluster EXCEPT !.status = "upgrading",
                                         !.next = [cluster.is EXCEPT !.version = new]]
           /\ tasks' = Append(tasks, task)
  <2>1. cluster.is = work.seen /\ new > cluster.is.version
        BY DEF UpgradeCluster, Upgradeable, Steady, SteadySteps
  <2>2. task \in Task
        BY DEF TypeOK, Object, Shape, Task
  <2>3. /\ Len(tasks') = Len(tasks) + 1 /\ DOMAIN tasks' = 1 .. Len(tasks) + 1
        /\ tasks'[Len(tasks) + 1] = task
        /\ \A j \in 1 .. Len(tasks) : tasks'[j] = tasks[j]
        BY <1>2, <2>2, TaskTypes, AppendProperties
  <2>4. /\ cluster'.status = "upgrading" /\ cluster'.is = cluster.is
        /\ cluster'.next.version = new
        BY <1>2 DEF TypeOK, Shape
  <2>5. \A j \in 1 .. Len(tasks) : tasks[j].state # "running"
        BY <1>2, TaskTypes DEF TasksOrdered, RunningLast
  <2>6. RunningLast'
        BY <2>3, <2>4, <2>5, TaskTypes DEF RunningLast
  <2>7. DoneReached'
        BY <2>3, <2>4, TaskTypes DEF TasksOrdered, DoneReached
  <2>8. UnderWay'
    <3>1. tasks' # <<>>
          BY <2>3, TaskTypes
    <3>   QED
          BY <2>1, <2>3, <2>4, <3>1 DEF UnderWay
  <2>9. UpgradeOnce'
    <3>1. \A j \in 1 .. Len(tasks) : tasks[j].state = "failed" \/ tasks[j].target < new
          BY <2>1, <2>5, TaskTypes DEF TasksOrdered, DoneReached, Task
    <3>   QED
          BY <2>3, <3>1, TaskTypes DEF TasksOrdered, UpgradeOnce
  <2>   QED
        BY <2>6, <2>7, <2>8, <2>9 DEF TasksOrdered
<1>   QED
      BY <1>1, <1>2 DEF UpgradeCluster, Begin

LEMMA ResizeOrdered == ASSUME TypeOK, TasksOrdered, ResizeCluster PROVE TasksOrdered'
<1>1. CASE QuietCloud
      BY <1>1, OrderedKept DEF QuietCloud, fabric
<1>2. CASE /\ cluster.status = "available" /\ UNCHANGED tasks
           /\ cluster' = [cluster EXCEPT !.status = "resizing",
                              !.next = [cluster.is EXCEPT !.flavor = local.want.flavor]]
  <2>1. /\ cluster'.status = "resizing" /\ cluster'.is = cluster.is
        /\ cluster'.next.version = cluster.is.version
        BY <1>2 DEF TypeOK, Shape
  <2>   QED
        BY <1>2, <2>1 DEF TasksOrdered, RunningLast, DoneReached, UnderWay, UpgradeOnce
<1>   QED
      BY <1>1, <1>2 DEF ResizeCluster, Begin

(* A task that ends well has reached a version that no task before it had. *)
LEMMA SettleOrdered == ASSUME TypeOK, TasksOrdered, ClusterSettles PROVE TasksOrdered'
<1> DEFINE last == Len(tasks)
<1>1. PICK ok \in BOOLEAN :
         /\ cluster' = [cluster EXCEPT !.status = "available",
                                       !.is = IF ok THEN cluster.next ELSE @]
         /\ tasks' = IF cluster.status = "upgrading"
                     THEN [tasks EXCEPT ![last].state = IF ok THEN "done" ELSE "failed"]
                     ELSE tasks
      BY DEF ClusterSettles
<1>2. /\ cluster'.status = "available"
      /\ cluster'.is = IF ok THEN cluster.next ELSE cluster.is
      BY <1>1 DEF TypeOK
<1>3. CASE cluster.status = "upgrading"
  <2>1. last \in DOMAIN tasks
        BY <1>3, TaskTypes, EmptySeq DEF TasksOrdered, UnderWay
  <2>2. /\ DOMAIN tasks' = DOMAIN tasks /\ Len(tasks') = last
        /\ \A j \in DOMAIN tasks : /\ tasks'[j].target = tasks[j].target
                                   /\ j # last => tasks'[j] = tasks[j]
        /\ tasks'[last].state = IF ok THEN "done" ELSE "failed"
    <3>1. tasks[last] \in Task
          BY <2>1, TaskTypes
    <3>2. [tasks[last] EXCEPT !.state = IF ok THEN "done" ELSE "failed"] \in Task
          BY <3>1 DEF Task
    <3>3. Len(tasks') = last
          BY <1>1, <1>3, <2>1, <3>2, TaskTypes, ExceptSeq
    <3>   QED
          BY <1>1, <1>3, <2>1, <3>1, <3>3, TaskTypes DEF Task
  <2>3. \A j \in DOMAIN tasks : j # last => tasks[j].state # "running"
        BY DEF TasksOrdered, RunningLast
  <2>4. tasks[last].target = cluster.next.version /\ cluster.is.version < cluster.next.version
        BY <1>3 DEF TasksOrdered, UnderWay
  <2>5. RunningLast'
        BY <2>2, <2>3 DEF RunningLast
  <2>6. DoneReached'
        BY <1>2, <2>2, <2>4, TaskTypes DEF TasksOrdered, DoneReached
  <2>7. UnderWay'
        BY <1>2 DEF UnderWay
  <2>8. UpgradeOnce'
        BY <2>2, TaskTypes DEF TasksOrdered, UpgradeOnce
  <2>   QED
        BY <2>5, <2>6, <2>7, <2>8 DEF TasksOrdered
<1>4. CASE cluster.status # "upgrading"
  <2>1. UNCHANGED tasks
        BY <1>1, <1>4
  <2>2. cluster'.is.version = cluster.is.version
        BY <1>2, <1>4 DEF ClusterSettles, TypeOK, TasksOrdered, UnderWay
  <2>   QED
        BY <1>2, <1>4, <2>1, <2>2 DEF TasksOrdered, RunningLast, DoneReached, UnderWay, UpgradeOnce
<1>   QED
      BY <1>3, <1>4

LEMMA OrderedStep == ASSUME TypeOK, Steady, TasksOrdered, [Next]_vars PROVE TasksOrdered'
<1>1. CASE UpgradeCluster \/ ResizeCluster \/ ClusterSettles
      BY <1>1, UpgradeOrdered, ResizeOrdered, SettleOrdered
<1>2. CASE UNCHANGED <<cluster, tasks>>
      BY <1>2, OrderedKept
<1>3. \/ UpgradeCluster \/ ResizeCluster \/ ClusterSettles
      \/ UNCHANGED <<cluster, tasks>>
  <2>1. Users \/ RancherAdopts \/ Inform \/ Crash \/ PoolSettles \/ PoolChanges \/ UNCHANGED vars
           => UNCHANGED <<cluster, tasks>>
        BY DEF Users, RancherAdopts, Inform, Crash, PoolSettles, PoolChanges, QuietCloud, fabric,
               UserDeclares, UserDuplicates, UserUndeclares, UserRenames, UserReshapes,
               UserEdits, Declare, Write, vars
  <2>2. CallFails \/ WriteFails \/ RecordError \/ Dispatching => UNCHANGED <<cluster, tasks>>
        BY DEF CallFails, WriteFails, RecordError, Dispatching, QuietCloud, fabric,
               OnCCEConfigChanged, CheckCluster, RejectUpdate, CheckTask, WaitForCloud,
               NoteCluster, GetConfig, ListNodePools
  <2>3. RecordGroup \/ RefuseDowngrade \/ KeepShape \/ RecordTask \/ RecordJob \/ EnqueueUpdate
           => UNCHANGED <<cluster, tasks>>
        BY DEF RecordGroup, RefuseDowngrade, KeepShape, RecordTask, RecordJob, EnqueueUpdate,
               QuietCloud, fabric
  <2>4. Pooling => UNCHANGED <<cluster, tasks>>
        BY DEF Pooling, UpdateCluster, UpdateNodePool, CompareNodePools, CreateNodePool,
               CreatedAll, Announce, DeleteNodePool, DeletedAll, Finish, QuietCloud, fabric
  <2>   QED
        BY <2>1, <2>2, <2>3, <2>4 DEF Next, Worker, Dispatching, Pooling
<1>   QED
      BY <1>1, <1>2, <1>3

(* No version is asked for twice, whatever replies and records are lost: a *)
(* request that was lost left the cluster upgrading, and one that is       *)
(* through left it at a version the next wish must be above.               *)
THEOREM UpgradedOnce == Spec => []UpgradeOnce
<1>1. TasksOrdered => UpgradeOnce
      BY DEF TasksOrdered
<1>   QED
      BY <1>1, TypeCorrect, ClusterSteady, OrderedInit, OrderedStep, PTL DEF Spec
=============================================================================
