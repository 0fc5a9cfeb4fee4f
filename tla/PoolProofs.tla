----------------------------- MODULE PoolProofs -----------------------------
(* Proofs about the node pools of CheckAndUpdate: a named pool is not       *)
(* deleted, an announced one is not forgotten, no name is made twice, and   *)
(* "active" and rest are earned; for every set of names and identifiers and *)
(* every number of faults and edits.                                        *)
EXTENDS UpgradeProofs

-----------------------------------------------------------------------------
(* Copies.                                                                 *)

(* A copy that the API server would accept equals the stored object.       *)
CopiesAgree ==
    /\ "cache" \in current => cache = obj
    /\ "local" \in current => local = obj /\ pc # "idle"

LEMMA StoreAgrees ==
    ASSUME NEW o, NEW next, Store(o, next), next # "idle" PROVE CopiesAgree'
BY DEF Store, CopiesAgree

LEMMA EndAgrees ==
    ASSUME CopiesAgree, NEW fresh \in SUBSET current, EndSync(fresh), UNCHANGED <<obj, cache>>
    PROVE  CopiesAgree'
BY DEF EndSync, CopiesAgree

LEMMA GiveUpAgrees == ASSUME CopiesAgree, GiveUp PROVE CopiesAgree'
BY EndAgrees DEF GiveUp

LEMMA CarryAgrees ==
    ASSUME CopiesAgree, UNCHANGED <<store, local>>, pc' # "idle" \/ pc' = pc PROVE CopiesAgree'
BY DEF CopiesAgree, store

LEMMA UpdateCopyAgrees ==
    ASSUME CopiesAgree, NEW o, NEW next, NEW requeue, UpdateCopy(o, next, requeue),
           next # "idle"
    PROVE  CopiesAgree'
BY StoreAgrees, GiveUpAgrees DEF UpdateCopy

LEMMA DispatchingAgrees == ASSUME CopiesAgree, Dispatching PROVE CopiesAgree'
<1>1. CASE OnCCEConfigChanged \/ GetConfig
      BY <1>1 DEF OnCCEConfigChanged, GetConfig, CopiesAgree
<1>2. CASE CheckCluster \/ ListNodePools
      BY <1>2, CarryAgrees DEF CheckCluster, ListNodePools, Go
<1>3. CASE RejectUpdate \/ CheckTask \/ WaitForCloud \/ NoteCluster
      BY <1>3, CarryAgrees, UpdateCopyAgrees
      DEF RejectUpdate, CheckTask, WaitForCloud, NoteCluster, Go, Abandon, Requeue
<1>   QED
      BY <1>1, <1>2, <1>3 DEF Dispatching

LEMMA ReshapingAgrees == ASSUME CopiesAgree, Reshaping PROVE CopiesAgree'
<1>1. CASE RecordGroup \/ RecordTask \/ RecordJob \/ EnqueueUpdate
      BY <1>1, CarryAgrees, StoreAgrees, UpdateCopyAgrees
      DEF RecordGroup, RecordTask, RecordJob, EnqueueUpdate, Go, Requeue
<1>2. CASE UpgradeCluster \/ ResizeCluster \/ RefuseDowngrade \/ KeepShape
      BY <1>2, CarryAgrees
      DEF UpgradeCluster, ResizeCluster, RefuseDowngrade, KeepShape, Begin, Go, Abandon
<1>   QED
      BY <1>1, <1>2 DEF Reshaping

LEMMA PoolingAgrees == ASSUME CopiesAgree, Pooling PROVE CopiesAgree'
<1>1. CASE Announce \/ Finish
      BY <1>1, CarryAgrees, StoreAgrees, UpdateCopyAgrees DEF Announce, Finish, Go, Requeue
<1>2. CASE UpdateNodePool \/ CreateNodePool \/ DeleteNodePool
      BY <1>2, CarryAgrees DEF UpdateNodePool, CreateNodePool, DeleteNodePool, Abandon
<1>3. CASE UpdateCluster \/ CompareNodePools \/ CreatedAll \/ DeletedAll
      BY <1>3, CarryAgrees DEF UpdateCluster, CompareNodePools, CreatedAll, DeletedAll, Go
<1>   QED
      BY <1>1, <1>2, <1>3 DEF Pooling

LEMMA AroundAgrees ==
    ASSUME TypeOK, CopiesAgree, CallFails \/ WriteFails \/ RecordError \/ Inform \/ Crash
    PROVE  CopiesAgree'
<1>1. CASE CallFails \/ WriteFails
      BY <1>1, CarryAgrees, GiveUpAgrees DEF CallFails, WriteFails, Abandon
<1>2. CASE RecordError
  <2>1. CASE EndSync(current) /\ UNCHANGED obj
        BY <1>2, <2>1, EndAgrees DEF RecordError
  <2>2. CASE EndSync({})
        BY <2>2 DEF EndSync, CopiesAgree
  <2>   QED
        BY <1>2, <2>1, <2>2 DEF RecordError
<1>3. CASE Inform \/ Crash
      BY <1>3 DEF Inform, Crash, EndSync, CopiesAgree, worker
<1>   QED
      BY <1>1, <1>2, <1>3

LEMMA OutsideAgrees ==
    ASSUME CopiesAgree,
           \/ Users \/ RancherAdopts \/ PoolSettles \/ PoolChanges \/ ClusterSettles
           \/ UNCHANGED vars
    PROVE  CopiesAgree'
<1>1. CASE Users \/ RancherAdopts
  <2>1. current' = {}
        BY <1>1 DEF Users, RancherAdopts, UserDeclares, UserDuplicates, UserUndeclares,
                    UserRenames, UserReshapes, UserEdits, Declare, Write
  <2>   QED
        BY <2>1 DEF CopiesAgree
<1>2. CASE PoolSettles \/ PoolChanges \/ ClusterSettles \/ UNCHANGED vars
      BY <1>2, CarryAgrees DEF PoolSettles, PoolChanges, ClusterSettles, vars, worker
<1>   QED
      BY <1>1, <1>2

(* No writer overlooks what another has written: a copy that is still       *)
(* accepted is the stored object.                                           *)
THEOREM CopiesTracked == Spec => []CopiesAgree
<1>1. Init => CopiesAgree
      BY DEF Init, CopiesAgree
<1>2. TypeOK /\ CopiesAgree /\ [Next]_vars => CopiesAgree'
  <2> SUFFICES ASSUME TypeOK, CopiesAgree, [Next]_vars PROVE CopiesAgree'
      OBVIOUS
  <2>1. CASE Dispatching \/ Reshaping \/ Pooling \/ CallFails \/ WriteFails \/ RecordError
        BY <2>1, DispatchingAgrees, ReshapingAgrees, PoolingAgrees, AroundAgrees
  <2>2. CASE Inform \/ Crash
        BY <2>2, AroundAgrees
  <2>3. CASE \/ Users \/ RancherAdopts \/ PoolSettles \/ PoolChanges \/ ClusterSettles
             \/ UNCHANGED vars
        BY <2>3, OutsideAgrees
  <2>   QED
        BY <2>1, <2>2, <2>3 DEF Next, Worker, Dispatching, Reshaping, Pooling
<1>   QED
      BY <1>1, <1>2, TypeCorrect, PTL DEF Spec


-----------------------------------------------------------------------------
(* What a step can do to the pools, in the cloud and on the object.        *)

(* The worker has the object of "get"; what it knows of the cloud is still *)
(* what the list said; it has done something about that.                   *)
Comparing == {"group", "version", "cluster", "pools"}
Before    == {"list", "create", "announce"} \cup Comparing
Held      == Before \cup {"delete", "finish"}
Acting    == {"create", "announce", "delete", "finish"}
Checked   == {"task", "wait", "note", "get"}

SameSpec  == obj'.pools = obj.pools /\ obj'.made = obj.made
CacheStep == cache' \in {cache, obj}

(* The worker is not at the pools, or not any more. *)
Resting ==
    /\ pc' \notin Held /\ SameSpec /\ CacheStep /\ UNCHANGED <<pools, did>>
    /\ \/ work'.made = NoIds /\ ~work'.acted
       \/ /\ work'.made = work.made /\ work'.acted = work.acted
          /\ pc' = "report" \/ pc \notin Acting \cup {"report"}
    /\ pc' = "check" => local' = cache
    /\ pc' \in Checked => pc \in Checked \cup Held \/ (pc = "check" /\ Valid(local))

Aside == SameSpec /\ CacheStep /\ UNCHANGED <<local, pc, work, pools, did>>

(* A pool changes its phase by itself or in the console. *)
Turning ==
    /\ UNCHANGED <<obj, cache, local, pc, work>> /\ did \subseteq did'
    /\ \E i \in Ids, state \in Here \cup {"gone"} :
          /\ Become(i, state)
          /\ \/ pools[i].state \in {"settling", "ready"}
                /\ state \in {"settling", "ready", "failed"}
             \/ pools[i].state = "deleting" /\ state = "gone"
             \/ /\ pools[i].state = "ready" /\ state = "deleting"
                /\ "console" \in did' /\ edits' # edits

NewPool(n) == [name |-> n, id |-> None]

Editing ==
    /\ obj'.made = obj.made /\ did \subseteq did'
    /\ UNCHANGED <<cache, local, pc, work, pools>>
    /\ \/ obj'.pools = obj.pools
       \/ \E n \in Names : /\ obj'.pools = Append(obj.pools, NewPool(n))
                           /\ ~Called(n) \/ "duplicate" \in did'
       \/ \E k \in DOMAIN obj.pools :
             /\ "undeclare" \in did'
             /\ obj'.pools = SubSeq(obj.pools, 1, k - 1)
                                \o SubSeq(obj.pools, k + 1, Len(obj.pools))
       \/ \E k \in DOMAIN obj.pools, n \in Names :
             /\ "rename" \in did'
             /\ obj'.pools = [obj.pools EXCEPT ![k].name = n]

Adopting ==
    /\ obj'.made = NoIds /\ obj.made # NoIds
    /\ obj'.pools = [k \in DOMAIN obj.pools |-> Adopted(obj.pools[k])]
    /\ UNCHANGED <<cache, local, pc, work, pools, did>>

(* The steps of the worker from "get" to "finish". *)
Fetching ==
    /\ pc' = "list" /\ pc = "get" /\ obj.made = NoIds /\ local' = obj
    /\ UNCHANGED <<obj, cache, work, pools, did>>

Listing ==
    /\ pc = "list" /\ pc' = "group"
    /\ work' = [work EXCEPT !.listed = {[name |-> pools[i].name, id |-> i] : i \in Existing}]
    /\ \A i \in Existing : pools[i].state = "ready"
    /\ UNCHANGED <<obj, cache, local, pools, did>>

Moving ==
    /\ \/ pc = "group" /\ pc' = "version"
       \/ pc = "version" /\ pc' = "cluster" /\ local.want = work.seen
    /\ SameSpec /\ local'.pools = local.pools /\ local'.want = local.want
    /\ UNCHANGED <<cache, work, pools, did>>

Starting ==
    /\ pc = "cluster" /\ pc' = "pools"
    /\ work' = [work EXCEPT !.todo = {e \in Entries : e[2].id # None}]
    /\ UNCHANGED <<obj, cache, local, pools, did>>

Updating ==
    /\ pc = "pools"
    /\ \E e \in work.todo :
          /\ e[2].id \in Existing
          /\ pools' = [pools EXCEPT ![e[2].id].name = e[2].name]
          /\ work' = [work EXCEPT !.todo = @ \ {e}]
    /\ UNCHANGED <<obj, cache, local, pc, did>>

Matching ==
    /\ pc = "pools" /\ work.todo = {} /\ pc' = "create"
    /\ work' = [work EXCEPT !.todo = {e \in Entries : Missing(e[2])}, !.drop = Unknown]
    /\ UNCHANGED <<obj, cache, local, pools, did>>

(* The reply to the second kind of creation is lost. *)
Creating ==
    /\ pc = "create" /\ NewId \in Ids /\ pools[NewId].state = "none"
    /\ \E e \in work.todo :
          /\ pools' = [pools EXCEPT ![NewId] = [name |-> e[2].name, state |-> "settling"]]
          /\ \/ /\ work' = [work EXCEPT !.todo = @ \ {e}, !.made[e[2].name] = NewId,
                                        !.acted = TRUE]
                /\ pc' = pc
             \/ pc' = "report" /\ UNCHANGED work
    /\ UNCHANGED <<obj, cache, local, did>>

Leaving ==
    /\ \/ pc = "create" /\ work.todo = {} /\ work.made # NoIds /\ pc' = "announce"
       \/ pc = "create" /\ work.todo = {} /\ work.made = NoIds /\ pc' = "delete"
       \/ pc = "delete" /\ work.drop = {} /\ pc' = "finish"
    /\ UNCHANGED <<obj, cache, local, work, pools, did>>

Announcing ==
    /\ pc = "announce" /\ pc' = "delete"
    /\ obj'.made = work.made /\ obj'.pools = obj.pools /\ local' = obj'
    /\ UNCHANGED <<cache, work, pools, did>>

Deleting ==
    /\ pc = "delete"
    /\ \E i \in work.drop :
          /\ i \in Existing
          /\ pools' = [pools EXCEPT ![i].state = "deleting"]
          /\ work' = [work EXCEPT !.drop = @ \ {i}, !.acted = TRUE]
    /\ UNCHANGED <<obj, cache, local, pc, did>>

PoolStep ==
    \/ Resting \/ Aside \/ Turning \/ Editing \/ Adopting
    \/ Fetching \/ Listing \/ Moving
    \/ Starting \/ Updating \/ Matching \/ Creating \/ Leaving \/ Announcing \/ Deleting

LEMMA EndingRests ==
    ASSUME NEW fresh, EndSync(fresh), SameSpec, CacheStep, UNCHANGED <<pools, did>>
    PROVE  Resting
BY DEF EndSync, Resting, NoWork, Held, Before, Comparing, Checked

LEMMA GiveUpRests == ASSUME GiveUp, UNCHANGED <<pools, did>> PROVE Resting
BY EndingRests DEF GiveUp, SameSpec, CacheStep

LEMMA AbandonRests == ASSUME Abandon, UNCHANGED <<pools, did>> PROVE Resting
BY DEF Abandon, Resting, SameSpec, CacheStep, store, Held, Before, Comparing, Checked

LEMMA RequeueRests == ASSUME Requeue, UNCHANGED <<pools, did>> PROVE Resting
BY DEF Requeue, Resting, SameSpec, CacheStep, store, Held, Before, Comparing, Checked

(* A write of the worker's copy that leaves the pools alone. *)
LEMMA UpdateCopyForm ==
    ASSUME CopiesAgree, NEW o, o.pools = local.pools, o.made = local.made,
           NEW next, NEW requeue, UpdateCopy(o, next, requeue)
    PROVE  \/ GiveUp
           \/ SameSpec /\ local' = o /\ pc' = next /\ UNCHANGED <<cache, work>>
BY DEF UpdateCopy, Store, CopiesAgree, SameSpec

LEMMA UpdateCopyRests ==
    ASSUME CopiesAgree, NEW o, o.pools = local.pools, o.made = local.made,
           NEW requeue, UpdateCopy(o, "report", requeue), UNCHANGED <<pools, did>>
    PROVE  Resting
BY UpdateCopyForm, GiveUpRests
DEF Resting, CacheStep, Held, Before, Comparing, Checked

LEMMA WorkFields ==
    ASSUME TypeOK
    PROVE  /\ \A s : [work EXCEPT !.seen = s].made = work.made
                     /\ [work EXCEPT !.seen = s].acted = work.acted
           /\ \A s : [work EXCEPT !.task = s].made = work.made
                     /\ [work EXCEPT !.task = s].acted = work.acted
           /\ \A s : [work EXCEPT !.listed = s].made = work.made
                     /\ [work EXCEPT !.listed = s].acted = work.acted
BY DEF TypeOK, Work

LEMMA CopyFields ==
    ASSUME TypeOK, NEW o \in {obj, local}
    PROVE  /\ \A p : [o EXCEPT !.phase = p].pools = o.pools /\ [o EXCEPT !.phase = p].made = o.made
           /\ \A t : [o EXCEPT !.task = t].pools = o.pools /\ [o EXCEPT !.task = t].made = o.made
           /\ [o EXCEPT !.noted = TRUE].pools = o.pools /\ [o EXCEPT !.noted = TRUE].made = o.made
           /\ /\ [o EXCEPT !.group = TRUE].pools = o.pools /\ [o EXCEPT !.group = TRUE].made = o.made
              /\ [o EXCEPT !.group = TRUE].want = o.want
BY DEF TypeOK, Object

LEMMA DispatchingForm == ASSUME TypeOK, CopiesAgree, Dispatching PROVE PoolStep
<1>0. UNCHANGED <<pools, did>>
      BY DEF Dispatching, OnCCEConfigChanged, CheckCluster, RejectUpdate, CheckTask,
             WaitForCloud, NoteCluster, GetConfig, ListNodePools, QuietCloud, fabric
<1>1. CASE OnCCEConfigChanged
  <2>1. pc = "idle" /\ pc' = "check" /\ local' = cache /\ UNCHANGED <<obj, cache, work>>
        BY <1>1 DEF OnCCEConfigChanged
  <2>2. Resting
        BY <1>0, <2>1
        DEF Resting, SameSpec, CacheStep, Held, Before, Comparing, Checked, Acting
  <2>   QED
        BY <2>2 DEF PoolStep
<1>2. CASE CheckCluster
  <2>1. /\ pc = "check" /\ pc' \in {"reject", "task", "wait", "note"} /\ UNCHANGED <<obj, cache>>
        /\ Valid(local) \/ pc' = "reject"
        BY <1>2 DEF CheckCluster, Go, store
  <2>2. work'.made = work.made /\ work'.acted = work.acted
        BY <1>2, WorkFields DEF CheckCluster
  <2>3. Resting
        BY <1>0, <2>1, <2>2
        DEF Resting, SameSpec, CacheStep, Held, Before, Comparing, Checked, Acting
  <2>   QED
        BY <2>3 DEF PoolStep
<1>3. CASE RejectUpdate \/ CheckTask
      BY <1>0, <1>3, CopyFields, UpdateCopyRests, AbandonRests, RequeueRests
      DEF RejectUpdate, CheckTask, PoolStep
<1>4. CASE WaitForCloud
      BY <1>0, <1>4, CopyFields, UpdateCopyRests, RequeueRests DEF WaitForCloud, PoolStep
<1>5. CASE NoteCluster
  <2>1. CASE Go("get") /\ UNCHANGED work
        BY <1>0, <1>5, <2>1
        DEF NoteCluster, Go, store, PoolStep, Resting, SameSpec, CacheStep, Held, Before,
            Comparing, Checked, Acting
  <2>2. CASE UpdateCopy([local EXCEPT !.noted = TRUE], "get", FALSE)
    <3>1. GiveUp \/ (SameSpec /\ pc' = "get" /\ UNCHANGED <<cache, work>>)
          BY <2>2, CopyFields, UpdateCopyForm
    <3>   QED
          BY <1>0, <1>5, <3>1, GiveUpRests
          DEF NoteCluster, PoolStep, Resting, CacheStep, Held, Before, Comparing, Checked, Acting
  <2>   QED
        BY <1>5, <2>1, <2>2 DEF NoteCluster
<1>6. CASE GetConfig
      BY <1>0, <1>6
      DEF GetConfig, PoolStep, Resting, Fetching, SameSpec, CacheStep, Held, Before, Comparing,
          Checked, Acting
<1>7. CASE ListNodePools
  <2>1. CASE \E i \in Existing : pools[i].state # "ready"
        BY <1>0, <1>7, <2>1, WorkFields
        DEF ListNodePools, Go, store, PoolStep, Resting, SameSpec, CacheStep, Held, Before,
            Comparing, Checked, Acting
  <2>2. CASE \A i \in Existing : pools[i].state = "ready"
        BY <1>0, <1>7, <2>2 DEF ListNodePools, Go, store, PoolStep, Listing
  <2>   QED
        BY <2>1, <2>2
<1>   QED
      BY <1>1, <1>2, <1>3, <1>4, <1>5, <1>6, <1>7 DEF Dispatching

LEMMA ReshapingForm == ASSUME TypeOK, CopiesAgree, Reshaping PROVE PoolStep
<1>0. UNCHANGED <<pools, did>>
      BY DEF Reshaping, RecordGroup, UpgradeCluster, ResizeCluster, RefuseDowngrade, KeepShape,
             RecordTask, RecordJob, EnqueueUpdate, Begin, QuietCloud, fabric
<1>1. CASE RecordGroup
  <2>1. CASE UpdateCopy([local EXCEPT !.group = TRUE], "version", FALSE)
    <3>1. \/ GiveUp
          \/ /\ SameSpec /\ local' = [local EXCEPT !.group = TRUE] /\ pc' = "version"
             /\ UNCHANGED <<cache, work>>
          BY <2>1, CopyFields, UpdateCopyForm
    <3>   QED
          BY <1>0, <1>1, <3>1, GiveUpRests, CopyFields DEF RecordGroup, PoolStep, Moving
  <2>   QED
        BY <1>0, <1>1, <2>1 DEF RecordGroup, Go, store, PoolStep, Moving, SameSpec
<1>2. CASE UpgradeCluster \/ ResizeCluster \/ RefuseDowngrade
  <2>1. \/ Abandon
        \/ /\ pc = "version" /\ pc' \in {"taskRecord", "jobRecord"} /\ UNCHANGED store
           /\ work'.made = work.made /\ work'.acted = work.acted
    <3>1. CASE UpgradeCluster
      <4>1. [work EXCEPT !.task = Len(tasks) + 1].made = work.made
            /\ [work EXCEPT !.task = Len(tasks) + 1].acted = work.acted
            BY DEF TypeOK, Work
      <4>   QED
            BY <3>1, <4>1 DEF UpgradeCluster, Begin, Go
    <3>2. CASE ResizeCluster \/ RefuseDowngrade
          BY <3>2 DEF ResizeCluster, RefuseDowngrade, Begin, Go
    <3>   QED
          BY <1>2, <3>1, <3>2
  <2>   QED
        BY <1>0, <2>1, AbandonRests
        DEF PoolStep, Resting, SameSpec, CacheStep, store, Held, Before, Comparing, Checked, Acting
<1>3. CASE KeepShape
      BY <1>0, <1>3 DEF KeepShape, Go, store, PoolStep, Moving, SameSpec
<1>4. CASE RecordTask \/ RecordJob \/ EnqueueUpdate
  <2>1. CASE Requeue
        BY <1>0, <2>1, RequeueRests DEF PoolStep
  <2>2. CASE ~Requeue
    <3>1. /\ pc \in {"taskRecord", "jobRecord", "enqueue"} /\ pc' \in {"enqueue", "report"}
          /\ UNCHANGED <<cache, work>>
          BY <1>4, <2>2 DEF RecordTask, RecordJob, EnqueueUpdate, Store
    <3>2. obj' \in {obj, [obj EXCEPT !.task = work.task], [obj EXCEPT !.phase = "updating"]}
          BY <1>4, <2>2 DEF RecordTask, RecordJob, EnqueueUpdate, Store
    <3>3. SameSpec
          BY <3>2 DEF SameSpec, TypeOK, Object
    <3>   QED
          BY <1>0, <3>1, <3>3
          DEF PoolStep, Resting, CacheStep, Held, Before, Comparing, Checked, Acting
  <2>   QED
        BY <2>1, <2>2
<1>   QED
      BY <1>1, <1>2, <1>3, <1>4 DEF Reshaping

LEMMA PoolingForm == ASSUME TypeOK, CopiesAgree, Pooling PROVE PoolStep
<1>1. CASE UpdateCluster \/ CompareNodePools \/ CreatedAll \/ DeletedAll
      BY <1>1 DEF UpdateCluster, CompareNodePools, CreatedAll, DeletedAll, Go, store, QuietCloud,
                  fabric, PoolStep, Starting, Matching, Leaving
<1>5. CASE CreateNodePool
  <2>1. NewId \in Ids /\ pools[NewId].state = "none"
        BY <1>5, NewIdType DEF CreateNodePool, Fresh
  <2>   QED
        BY <1>5, <2>1 DEF CreateNodePool, Abandon, store, PoolStep, Creating
<1>6. CASE Announce
  <2>1. obj'.made = work.made /\ obj'.pools = obj.pools
        BY <1>6 DEF Announce, Store, TypeOK, Object
  <2>   QED
        BY <1>6, <2>1 DEF Announce, Store, QuietCloud, fabric, PoolStep, Announcing
<1>2. CASE UpdateNodePool
  <2>1. UNCHANGED did
        BY <1>2 DEF UpdateNodePool
  <2>2. Updating \/ (Abandon /\ UNCHANGED pools)
        BY <1>2 DEF UpdateNodePool, Updating, store
  <2>   QED
        BY <2>1, <2>2, AbandonRests DEF PoolStep
<1>3. CASE DeleteNodePool
  <2>1. UNCHANGED did
        BY <1>3 DEF DeleteNodePool
  <2>2. Deleting \/ (Abandon /\ UNCHANGED pools)
        BY <1>3 DEF DeleteNodePool, Deleting, store
  <2>   QED
        BY <2>1, <2>2, AbandonRests DEF PoolStep
<1>4. CASE Finish
  <2>0. UNCHANGED <<pools, did>>
        BY <1>4 DEF Finish, QuietCloud, fabric
  <2>1. CASE Requeue \/ UpdateCopy([local EXCEPT !.phase = "active"], "report", FALSE)
        BY <2>0, <2>1, CopyFields, RequeueRests, UpdateCopyRests DEF PoolStep
  <2>2. CASE \/ Go("report") /\ UNCHANGED work
             \/ Store([obj EXCEPT !.phase = "updating"], "report") /\ UNCHANGED work
    <3>1. /\ obj' \in {obj, [obj EXCEPT !.phase = "updating"]}
          /\ pc' = "report" /\ UNCHANGED <<cache, work>>
          BY <2>2 DEF Go, store, Store
    <3>2. SameSpec
          BY <3>1 DEF SameSpec, TypeOK, Object
    <3>   QED
          BY <2>0, <3>1, <3>2
          DEF PoolStep, Resting, CacheStep, Held, Before, Comparing, Checked
  <2>   QED
        BY <1>4, <2>1, <2>2 DEF Finish
<1>   QED
      BY <1>1, <1>2, <1>3, <1>4, <1>5, <1>6 DEF Pooling

LEMMA AroundForm ==
    ASSUME TypeOK, CopiesAgree,
           CallFails \/ WriteFails \/ RecordError \/ Inform \/ Crash \/ ClusterSettles
    PROVE  PoolStep
<1>1. UNCHANGED <<pools, did>>
      BY DEF CallFails, WriteFails, RecordError, Inform, Crash, ClusterSettles, QuietCloud, fabric
<1>2. CASE CallFails \/ WriteFails
      BY <1>1, <1>2, AbandonRests, GiveUpRests DEF CallFails, WriteFails, PoolStep
<1>3. CASE RecordError
  <2>1. Reported(err).pools = local.pools /\ Reported(err).made = local.made
        BY DEF Reported, TypeOK, Object
  <2>2. SameSpec /\ CacheStep
        BY <1>3, <2>1 DEF RecordError, CopiesAgree, SameSpec, CacheStep
  <2>3. PICK fresh : EndSync(fresh)
        BY <1>3 DEF RecordError
  <2>   QED
        BY <1>1, <2>2, <2>3, EndingRests DEF PoolStep
<1>4. CASE Crash
      BY <1>1, <1>4, EndingRests DEF Crash, SameSpec, CacheStep, PoolStep
<1>5. CASE Inform \/ ClusterSettles
      BY <1>1, <1>5 DEF Inform, ClusterSettles, store, worker, SameSpec, CacheStep, Aside, PoolStep
<1>   QED
      BY <1>2, <1>3, <1>4, <1>5

LEMMA OutsideForm ==
    ASSUME TypeOK, Users \/ RancherAdopts \/ PoolSettles \/ PoolChanges PROVE PoolStep
<1>0. \A ps : [obj EXCEPT !.pools = ps].pools = ps /\ [obj EXCEPT !.pools = ps].made = obj.made
      BY DEF TypeOK, Object
<1>1. CASE UserDeclares \/ UserDuplicates
  <2>1. PICK n \in Names :
           /\ Declare(n) /\ did \subseteq did'
           /\ ~Called(n) \/ "duplicate" \in did'
        BY <1>1 DEF UserDeclares, UserDuplicates, Edit
  <2>2. obj'.pools = Append(obj.pools, NewPool(n)) /\ obj'.made = obj.made
        BY <1>0, <2>1 DEF Declare, Write, NewPool
  <2>   QED
        BY <2>1, <2>2 DEF Declare, Write, worker, fabric, Editing, PoolStep
<1>2. CASE UserUndeclares
  <2>1. PICK k \in DOMAIN obj.pools :
           /\ Write([obj EXCEPT !.pools = SubSeq(@, 1, k - 1) \o SubSeq(@, k + 1, Len(@))])
           /\ did \subseteq did' /\ "undeclare" \in did'
        BY <1>2 DEF UserUndeclares, Edit
  <2>2. /\ obj'.pools = SubSeq(obj.pools, 1, k - 1) \o SubSeq(obj.pools, k + 1, Len(obj.pools))
        /\ obj'.made = obj.made
        BY <1>0, <2>1 DEF Write
  <2>   QED
        BY <2>1, <2>2 DEF Write, worker, fabric, Editing, PoolStep
<1>3. CASE UserRenames
  <2>1. PICK k \in DOMAIN obj.pools, n \in Names :
           /\ Write([obj EXCEPT !.pools[k].name = n])
           /\ did \subseteq did' /\ "rename" \in did'
        BY <1>3 DEF UserRenames, Edit
  <2>2. obj'.pools = [obj.pools EXCEPT ![k].name = n] /\ obj'.made = obj.made
        BY <1>0, <2>1 DEF Write
  <2>   QED
        BY <2>1, <2>2 DEF Write, worker, fabric, Editing, PoolStep
<1>4. CASE UserReshapes \/ UserEdits
  <2>1. obj'.pools = obj.pools /\ obj'.made = obj.made
        BY <1>4 DEF UserReshapes, UserEdits, Write, TypeOK, Object
  <2>2. did \subseteq did' /\ UNCHANGED <<cache, local, pc, work, pools>>
        BY <1>4 DEF UserReshapes, UserEdits, Write, Edit, worker, fabric
  <2>   QED
        BY <2>1, <2>2 DEF Editing, PoolStep
<1>5. CASE RancherAdopts
  <2>1. /\ obj' = [obj EXCEPT !.made = NoIds,
                              !.pools = [k \in DOMAIN @ |-> Adopted(@[k])]]
        /\ obj.made # NoIds /\ UNCHANGED <<cache, local, pc, work, pools, did>>
        BY <1>5 DEF RancherAdopts, Write, worker, fabric
  <2>2. /\ obj'.made = NoIds
        /\ obj'.pools = [k \in DOMAIN obj.pools |-> Adopted(obj.pools[k])]
        BY <2>1 DEF TypeOK, Object
  <2>   QED
        BY <2>1, <2>2 DEF Adopting, PoolStep
<1>6. CASE PoolSettles
      BY <1>6 DEF PoolSettles, Here, store, worker, Turning, PoolStep
<1>7. CASE PoolChanges
  <2>1. did \subseteq did' /\ edits' # edits
        BY <1>7 DEF PoolChanges, Edit, TypeOK
  <2>   QED
        BY <1>7, <2>1 DEF PoolChanges, Edit, Here, store, worker, Turning, PoolStep
<1>   QED
      BY <1>1, <1>2, <1>3, <1>4, <1>5, <1>6, <1>7 DEF Users

LEMMA EveryStep == ASSUME TypeOK, CopiesAgree, [Next]_vars PROVE PoolStep
<1>1. CASE UNCHANGED vars
      BY <1>1 DEF vars, store, worker, fabric, Aside, SameSpec, CacheStep, PoolStep
<1>2. CASE Dispatching \/ Reshaping \/ Pooling \/ CallFails \/ WriteFails \/ RecordError
      BY <1>2, DispatchingForm, ReshapingForm, PoolingForm, AroundForm
<1>3. CASE Inform \/ Crash \/ ClusterSettles \/ Users \/ RancherAdopts \/ PoolSettles \/ PoolChanges
      BY <1>3, AroundForm, OutsideForm
<1>   QED
      BY <1>1, <1>2, <1>3 DEF Next, Worker, Dispatching, Reshaping, Pooling

(* No step forgets that an identifier was given; only a creation brings a  *)
(* pool, only an update gives one another name.                            *)
LEMMA PoolsStep ==
    ASSUME TypeOK, PoolStep
    PROVE  /\ \A i \in Ids : pools[i].state # "none" => pools'[i].state # "none"
           /\ ~Creating => Existing' \subseteq Existing
           /\ ~Creating /\ ~Updating => \A i \in Ids : pools'[i].name = pools[i].name
<1>0. \A i \in Ids : pools[i] \in NodePool
      BY DEF TypeOK
<1>1. CASE UNCHANGED pools
      BY <1>1 DEF Existing
<1>2. CASE Turning
  <2>1. PICK i \in Ids, state \in Here \cup {"gone"} :
           /\ pools' = [pools EXCEPT ![i].state = state]
           /\ pools[i].state \in Here
        BY <1>2 DEF Turning, Become, Here
  <2>   QED
        BY <1>0, <2>1 DEF TypeOK, NodePool, Existing, Here
<1>3. CASE Updating
  <2>1. PICK e \in work.todo :
           /\ e[2].id \in Existing
           /\ pools' = [pools EXCEPT ![e[2].id].name = e[2].name]
        BY <1>3 DEF Updating
  <2>   QED
        BY <1>0, <1>3, <2>1 DEF TypeOK, NodePool, Existing, Here
<1>4. CASE Creating
      BY <1>0, <1>4 DEF Creating, TypeOK
<1>5. CASE Deleting
  <2>1. PICK i \in work.drop :
           i \in Existing /\ pools' = [pools EXCEPT ![i].state = "deleting"]
        BY <1>5 DEF Deleting
  <2>   QED
        BY <1>0, <2>1 DEF TypeOK, NodePool, Existing, Here
<1>   QED
      BY <1>1, <1>2, <1>3, <1>4, <1>5
      DEF PoolStep, Resting, Aside, Editing, Adopting, Fetching, Listing, Moving, Starting,
          Matching, Leaving, Announcing

-----------------------------------------------------------------------------
(* The list and what is made of it.                                        *)

ListedIds == {q.id : q \in work.listed}

(* Nothing is announced while the worker compares: it looked at "get".     *)
NoneAnnounced == pc \in Before => obj.made = NoIds

NothingDone ==
    /\ pc \notin Acting \cup {"report"} => work.made = NoIds /\ ~work.acted
    /\ work.made # NoIds => work.acted
    /\ pc = "announce" => work.acted

(* The list has all the pools there are, until the worker makes one; every *)
(* declared pool with an ID has proved to be listed before that, so only   *)
(* pools without one are made.                                             *)
ListedThere ==
    /\ pc \in Comparing \cup {"create"} => \A i \in ListedIds : pools[i].state # "none"
    /\ pc \in Comparing => Existing \subseteq ListedIds
    /\ pc \in {"pools", "create"} => work.todo \subseteq Entries
    /\ pc = "pools" => \A e \in Entries \ work.todo : e[2].id \in ListedIds \cup {None}
    /\ pc = "create" =>
          /\ \A e \in Entries : e[2].id \in ListedIds \cup {None}
          /\ \A e \in work.todo : Missing(e[2])

ListInv == NoneAnnounced /\ NothingDone /\ ListedThere

LEMMA ListedType == ASSUME TypeOK PROVE ListedIds \subseteq Ids
BY DEF TypeOK, Work, ListedIds

LEMMA StepIds == ASSUME PoolStep, pc' \in Held, pc' # "list" PROVE pc \in Held
BY DEF PoolStep, Resting, Aside, Turning, Editing, Adopting, Fetching, Listing, Moving, Starting,
       Updating, Matching, Creating, Leaving, Announcing, Deleting, Held, Before, Comparing

LEMMA NoneAnnouncedStep == ASSUME ListInv, PoolStep PROVE NoneAnnounced'
<1>1. CASE Resting \/ Aside \/ Turning \/ Editing \/ Adopting
      BY <1>1 DEF ListInv, NoneAnnounced, Resting, Aside, Turning, Editing, Adopting, SameSpec,
                  Held
<1>2. CASE \/ Fetching \/ Listing \/ Moving \/ Starting \/ Updating \/ Matching \/ Creating
           \/ Leaving \/ Announcing \/ Deleting
      BY <1>2 DEF ListInv, NoneAnnounced, Fetching, Listing, Moving, Starting, Updating, Matching,
                  Creating, Leaving, Announcing, Deleting, SameSpec, Before, Comparing
<1>   QED
      BY <1>1, <1>2 DEF PoolStep

LEMMA NothingDoneStep == ASSUME TypeOK, ListInv, PoolStep PROVE NothingDone'
<1>1. CASE Resting
      BY <1>1 DEF ListInv, NothingDone, Resting, Held, Before
<1>2. CASE Aside \/ Turning \/ Editing \/ Adopting
      BY <1>2 DEF ListInv, NothingDone, Aside, Turning, Editing, Adopting
<1>3. CASE Fetching \/ Moving \/ Leaving \/ Announcing
      BY <1>3 DEF ListInv, NothingDone, Fetching, Moving, Leaving, Announcing, Acting, Comparing
<1>4. CASE Listing \/ Starting \/ Updating \/ Matching
  <2>1. work'.made = work.made /\ work'.acted = work.acted
        BY <1>4 DEF Listing, Starting, Updating, Matching, TypeOK, Work
  <2>   QED
        BY <1>4, <2>1
        DEF ListInv, NothingDone, Listing, Starting, Updating, Matching, Acting, Comparing
<1>5. CASE Creating \/ Deleting
  <2>1. work' = work \/ (work'.acted /\ pc' = pc)
        BY <1>5 DEF Creating, Deleting, TypeOK, Work
  <2>   QED
        BY <1>5, <2>1 DEF ListInv, NothingDone, Creating, Deleting, Acting
<1>   QED
      BY <1>1, <1>2, <1>3, <1>4, <1>5 DEF PoolStep

LEMMA AsideNotCreating ==
    ASSUME TypeOK, Aside \/ Turning \/ Editing \/ Adopting PROVE ~Creating
<1>   SUFFICES ASSUME Creating PROVE FALSE
      OBVIOUS
<1>1. /\ NewId \in Ids /\ pools[NewId].state = "none" /\ pools'[NewId].state = "settling"
      BY DEF Creating, TypeOK
<1>2. CASE Aside \/ Editing \/ Adopting
      BY <1>1, <1>2 DEF Aside, Editing, Adopting
<1>3. CASE Turning
  <2>1. PICK i \in Ids, state \in Here \cup {"gone"} :
           pools' = [pools EXCEPT ![i].state = state] /\ pools[i].state # "none"
        BY <1>3 DEF Turning, Become
  <2>2. pools'[NewId] = pools[NewId]
        BY <1>1, <2>1 DEF TypeOK
  <2>   QED
        BY <1>1, <2>2
<1>   QED
      BY <1>2, <1>3

(* Steps that leave the worker with its lists. *)
LEMMA ListedKept ==
    ASSUME TypeOK, ListedThere, PoolStep, ~Creating, pc' = pc,
           local'.pools = local.pools, UNCHANGED work
    PROVE  ListedThere'
<1>1. Entries' = Entries /\ ListedIds' = ListedIds
      BY DEF Entries, ListedIds
<1>2. \A p : Missing(p)' <=> Missing(p)
      BY DEF Missing
<1>   QED
      BY <1>1, <1>2, PoolsStep, ListedType DEF ListedThere

LEMMA ListedThereStep == ASSUME TypeOK, ListInv, PoolStep PROVE ListedThere'
<1>0. ListedThere /\ ListedIds \subseteq Ids
      BY ListedType DEF ListInv
<1>1. CASE pc' \notin Comparing \cup {"create"}
      BY <1>1 DEF ListedThere, Comparing
<1>2. CASE Aside \/ Turning \/ Editing \/ Adopting
  <2>1. ~Creating
        BY <1>2, AsideNotCreating
  <2>   QED
        BY <1>0, <1>2, <2>1, ListedKept DEF Aside, Turning, Editing, Adopting
<1>3. CASE Listing
  <2>1. work'.listed = {[name |-> pools[i].name, id |-> i] : i \in Existing}
        BY <1>3 DEF Listing, TypeOK, Work
  <2>2. ListedIds' = Existing
    <3>1. ListedIds' = {q.id : q \in {[name |-> pools[i].name, id |-> i] : i \in Existing}}
          BY <2>1 DEF ListedIds
    <3>2. \A i \in Existing : [name |-> pools[i].name, id |-> i].id = i
          OBVIOUS
    <3>   QED
          BY <3>1, <3>2
  <2>3. Existing' = Existing /\ \A i \in Existing : pools'[i].state # "none"
        BY <1>3 DEF Listing, Existing, Here
  <2>   QED
        BY <1>3, <2>2, <2>3 DEF Listing, ListedThere, Comparing
<1>4. CASE Moving
  <2>1. Entries' = Entries /\ ListedIds' = ListedIds /\ Existing' = Existing
        BY <1>4 DEF Moving, Entries, ListedIds, Existing
  <2>   QED
        BY <1>0, <1>4, <2>1 DEF Moving, ListedThere, Comparing
<1>5. CASE Starting
  <2>1. /\ work'.listed = work.listed
        /\ work'.todo = {e \in Entries : e[2].id # None}
        BY <1>5 DEF Starting, TypeOK, Work
  <2>2. Entries' = Entries /\ ListedIds' = ListedIds /\ Existing' = Existing
        BY <1>5, <2>1 DEF Starting, Entries, ListedIds, Existing
  <2>3. \A i \in ListedIds : pools'[i].state # "none"
        BY <1>0, <1>5 DEF Starting, ListedThere, Comparing
  <2>   QED
        BY <1>0, <1>5, <2>1, <2>2, <2>3 DEF Starting, ListedThere, Comparing
<1>6. CASE Updating
  <2>1. PICK e \in work.todo :
           /\ e[2].id \in Existing
           /\ work' = [work EXCEPT !.todo = @ \ {e}]
        BY <1>6 DEF Updating
  <2>2. work'.listed = work.listed /\ work'.todo = work.todo \ {e}
        BY <2>1 DEF TypeOK, Work
  <2>3. Entries' = Entries /\ ListedIds' = ListedIds
        BY <1>6, <2>2 DEF Updating, Entries, ListedIds
  <2>4. Existing' \subseteq Existing /\ \A i \in ListedIds : pools'[i].state # "none"
    <3>1. ~Creating
          BY <1>6 DEF Updating, Creating
    <3>   QED
          BY <1>0, <1>6, <3>1, PoolsStep DEF Updating, ListedThere, Comparing
  <2>5. e[2].id \in ListedIds
        BY <1>0, <1>6, <2>1 DEF Updating, ListedThere, Comparing
  <2>   QED
        BY <1>0, <1>6, <2>2, <2>3, <2>4, <2>5 DEF Updating, ListedThere, Comparing
<1>7. CASE Matching
  <2>1. /\ work'.listed = work.listed
        /\ work'.todo = {e \in Entries : Missing(e[2])}
        BY <1>7 DEF Matching, TypeOK, Work
  <2>2. Entries' = Entries /\ ListedIds' = ListedIds
        BY <1>7, <2>1 DEF Matching, Entries, ListedIds
  <2>3. \A p : Missing(p)' <=> Missing(p)
        BY <2>1 DEF Missing
  <2>   QED
        BY <1>0, <1>7, <2>1, <2>2, <2>3 DEF Matching, ListedThere, Comparing
<1>8. CASE Creating /\ pc' = pc
  <2>1. PICK e \in work.todo :
           work' = [work EXCEPT !.todo = @ \ {e}, !.made[e[2].name] = NewId, !.acted = TRUE]
        BY <1>8 DEF Creating
  <2>2. work'.listed = work.listed /\ work'.todo = work.todo \ {e}
        BY <2>1 DEF TypeOK, Work
  <2>3. Entries' = Entries /\ ListedIds' = ListedIds
        BY <1>8, <2>2 DEF Creating, Entries, ListedIds
  <2>4. \A p : Missing(p)' <=> Missing(p)
        BY <2>2 DEF Missing
  <2>5. \A i \in ListedIds : pools'[i].state # "none"
        BY <1>0, <1>8, PoolsStep DEF Creating, ListedThere
  <2>   QED
        BY <1>0, <1>8, <2>2, <2>3, <2>4, <2>5 DEF Creating, ListedThere, Comparing
<1>   QED
      BY <1>1, <1>2, <1>3, <1>4, <1>5, <1>6, <1>7, <1>8
      DEF PoolStep, Resting, Fetching, Creating, Leaving, Announcing, Deleting, Held, Before,
          Comparing

(* What the worker goes by, from the list to the last request. *)
THEOREM ListTrue == Spec => []ListInv
<1>1. Init => ListInv
      BY DEF Init, ListInv, NoneAnnounced, NothingDone, ListedThere, NoWork, Before, Comparing, Acting
<1>2. TypeOK /\ CopiesAgree /\ ListInv /\ [Next]_vars => ListInv'
      BY EveryStep, NoneAnnouncedStep, NothingDoneStep, ListedThereStep DEF ListInv
<1>   QED
      BY <1>1, <1>2, TypeCorrect, CopiesTracked, PTL DEF Spec

-----------------------------------------------------------------------------
(* What users and Rancher do to the declared pools.                        *)

Distinct(ps) == \A j, k \in DOMAIN ps : ps[j].name = ps[k].name => j = k

LEMMA SpecPools ==
    ASSUME TypeOK, NEW o \in {obj, cache, local}
    PROVE  /\ o.pools \in Seq(Pool) /\ Len(o.pools) \in Nat
           /\ DOMAIN o.pools = 1 .. Len(o.pools)
           /\ \A k \in DOMAIN o.pools : o.pools[k] \in Pool
           /\ o.made \in [Names -> Ids \cup {None}]
BY ElementOfSeq DEF TypeOK, Object

LEMMA AppendedPool ==
    ASSUME TypeOK, NEW n \in Names, obj'.pools = Append(obj.pools, NewPool(n))
    PROVE  /\ DOMAIN obj'.pools = 1 .. Len(obj.pools) + 1
           /\ \A k \in DOMAIN obj.pools : obj'.pools[k] = obj.pools[k]
           /\ obj'.pools[Len(obj.pools) + 1] = NewPool(n)
<1>1. NewPool(n) \in Pool
      BY DEF NewPool, Pool
<1>2. /\ Append(obj.pools, NewPool(n)) \in Seq(Pool)
      /\ Len(Append(obj.pools, NewPool(n))) = Len(obj.pools) + 1
      /\ \A k \in 1 .. Len(obj.pools) : Append(obj.pools, NewPool(n))[k] = obj.pools[k]
      /\ Append(obj.pools, NewPool(n))[Len(obj.pools) + 1] = NewPool(n)
      BY <1>1, SpecPools, AppendProperties
<1>   QED
      BY <1>2, SpecPools

LEMMA PartOf ==
    ASSUME NEW S, NEW s \in Seq(S), NEW m \in 1 .. Len(s) + 1, NEW n \in m - 1 .. Len(s)
    PROVE  /\ SubSeq(s, m, n) \in Seq(S) /\ Len(SubSeq(s, m, n)) = n + 1 - m
           /\ \A j \in 1 .. n + 1 - m : SubSeq(s, m, n)[j] = s[m + j - 1]
<1> DEFINE q == SubSeq(s, m, n)
<1>1. /\ Len(s) \in Nat /\ m \in Int /\ n \in Int
      /\ \A j \in 1 .. Len(s) : s[j] \in S
      BY ElementOfSeq
<1>2. \A j \in m .. n : s[j] \in S
      BY <1>1
<1>3. /\ q \in Seq(S) /\ Len(q) = IF m <= n THEN n - m + 1 ELSE 0
      /\ \A j \in 1 .. n - m + 1 : q[j] = s[m + j - 1]
      BY <1>1, <1>2, SubSeqProperties
<1> HIDE DEF q
<1>4. Len(q) = n + 1 - m /\ 1 .. n - m + 1 = 1 .. n + 1 - m
      BY <1>1, <1>3
<1>5. q \in Seq(S) /\ Len(q) = n + 1 - m /\ \A j \in 1 .. n + 1 - m : q[j] = s[m + j - 1]
      BY <1>3, <1>4
<1>   QED
      BY <1>5 DEF q

LEMMA TailOf ==
    ASSUME NEW S, NEW s \in Seq(S), NEW m \in 1 .. Len(s) + 1
    PROVE  /\ SubSeq(s, m, Len(s)) \in Seq(S) /\ Len(SubSeq(s, m, Len(s))) = Len(s) + 1 - m
           /\ \A j \in 1 .. Len(s) + 1 - m : SubSeq(s, m, Len(s))[j] = s[m + j - 1]
<1>1. Len(s) \in m - 1 .. Len(s)
      OBVIOUS
<1>   QED
      BY <1>1, PartOf, Zenon

LEMMA UndeclaredPool ==
    ASSUME TypeOK, NEW k \in DOMAIN obj.pools,
           obj'.pools = SubSeq(obj.pools, 1, k - 1) \o SubSeq(obj.pools, k + 1, Len(obj.pools))
    PROVE  /\ DOMAIN obj'.pools = 1 .. Len(obj.pools) - 1
           /\ \A j \in DOMAIN obj'.pools :
                 obj'.pools[j] = IF j < k THEN obj.pools[j] ELSE obj.pools[j + 1]
<1> DEFINE ps    == obj.pools
           left  == SubSeq(ps, 1, k - 1)
           right == SubSeq(ps, k + 1, Len(ps))
<1>1. ps \in Seq(Pool) /\ Len(ps) \in Nat /\ k \in 1 .. Len(ps)
      BY SpecPools
<1>2. obj'.pools = left \o right
      OBVIOUS
<1> HIDE DEF ps
<1>3. left \in Seq(Pool) /\ Len(left) = k - 1 /\ \A j \in 1 .. k - 1 : left[j] = ps[j]
  <2>1. 1 \in 1 .. Len(ps) + 1 /\ k - 1 \in 1 - 1 .. Len(ps)
        BY <1>1
  <2>2. /\ left \in Seq(Pool) /\ Len(left) = (k - 1) + 1 - 1
        /\ \A j \in 1 .. (k - 1) + 1 - 1 : left[j] = ps[1 + j - 1]
        BY <1>1, <2>1, PartOf
  <2> HIDE DEF left
  <2>3. (k - 1) + 1 - 1 = k - 1 /\ \A j \in 1 .. k - 1 : 1 + j - 1 = j
        BY <1>1
  <2>   QED
        BY <2>2, <2>3
<1>4. right \in Seq(Pool) /\ Len(right) = Len(ps) - k
      /\ \A j \in 1 .. Len(ps) - k : right[j] = ps[k + j]
  <2>1. k + 1 \in 1 .. Len(ps) + 1
        BY <1>1
  <2>2. /\ right \in Seq(Pool) /\ Len(right) = Len(ps) + 1 - (k + 1)
        /\ \A j \in 1 .. Len(ps) + 1 - (k + 1) : right[j] = ps[(k + 1) + j - 1]
    <3> HIDE DEF right
    <3>1. PICK m : m = k + 1
          OBVIOUS
    <3>2. m \in 1 .. Len(ps) + 1 /\ right = SubSeq(ps, m, Len(ps))
          BY <2>1, <3>1 DEF right
    <3>3. /\ SubSeq(ps, m, Len(ps)) \in Seq(Pool) /\ Len(SubSeq(ps, m, Len(ps))) = Len(ps) + 1 - m
          /\ \A j \in 1 .. Len(ps) + 1 - m : SubSeq(ps, m, Len(ps))[j] = ps[m + j - 1]
      <4>1. ps \in Seq(Pool)
            BY <1>1
      <4>2. m \in 1 .. Len(ps) + 1
            BY <3>2
      <4>   QED
            BY <4>1, <4>2, TailOf, Zenon
    <3>   QED
          BY <3>1, <3>2, <3>3, Zenon
  <2> HIDE DEF right
  <2>3. Len(ps) + 1 - (k + 1) = Len(ps) - k /\ \A j \in 1 .. Len(ps) - k : (k + 1) + j - 1 = k + j
    <3>1. k \in Int /\ Len(ps) \in Int
          BY <1>1
    <3>2. Len(ps) + 1 - (k + 1) = Len(ps) - k
          BY <3>1
    <3>3. ASSUME NEW j \in 1 .. Len(ps) - k PROVE (k + 1) + j - 1 = k + j
          BY <3>1, <3>3
    <3>   QED
          BY <3>2, <3>3
  <2>   QED
        BY <2>2, <2>3
<1> HIDE DEF left, right
<1>5. /\ left \o right \in Seq(Pool) /\ Len(left \o right) = Len(left) + Len(right)
      /\ \A j \in 1 .. Len(left) + Len(right) :
            (left \o right)[j] = IF j <= Len(left) THEN left[j] ELSE right[j - Len(left)]
      BY <1>3, <1>4, ConcatProperties
<1> DEFINE all == left \o right
<1>6. /\ all \in Seq(Pool) /\ Len(all) = Len(ps) - 1
      /\ \A j \in 1 .. Len(ps) - 1 :
            all[j] = IF j <= k - 1 THEN left[j] ELSE right[j - (k - 1)]
  <2>1. Len(left) + Len(right) = Len(ps) - 1
        BY <1>1, <1>3, <1>4
  <2>   QED
        BY <1>3, <1>5, <2>1
<1> HIDE DEF all
<1>7. DOMAIN all = 1 .. Len(ps) - 1
      BY <1>1, <1>6
<1>8. ASSUME NEW j \in 1 .. Len(ps) - 1 PROVE all[j] = IF j < k THEN ps[j] ELSE ps[j + 1]
  <2>1. CASE j < k
    <3>1. j \in 1 .. k - 1 /\ j <= k - 1
          BY <1>1, <2>1
    <3>   QED
          BY <1>3, <1>6, <2>1, <3>1
  <2>2. CASE ~(j < k)
    <3>1. \A n \in Nat : \A l \in 1 .. n, i \in 1 .. n - 1 : ~(i < l) =>
             i - (l - 1) \in 1 .. n - l /\ l + (i - (l - 1)) = i + 1 /\ ~(i <= l - 1)
          OBVIOUS
    <3>2. j - (k - 1) \in 1 .. Len(ps) - k /\ k + (j - (k - 1)) = j + 1 /\ ~(j <= k - 1)
          BY <1>1, <2>2, <3>1
    <3>3. all[j] = right[j - (k - 1)]
          BY <1>6, <3>2
    <3>   QED
          BY <1>4, <2>2, <3>2, <3>3
  <2>   QED
        BY <2>1, <2>2
<1>9. obj'.pools = all
      BY <1>2 DEF all
<1>   QED
      BY <1>7, <1>8, <1>9 DEF ps

(* A pool keeps its ID and, unless it is renamed, its name; without a      *)
(* removal it keeps its place, and names stay distinct.                    *)
LEMMA EditedPools ==
    ASSUME TypeOK, Editing
    PROVE  /\ \A j \in DOMAIN obj'.pools : obj'.pools[j].id # None =>
                 \E k \in DOMAIN obj.pools :
                    /\ obj'.pools[j].id = obj.pools[k].id
                    /\ "rename" \in did' \/ obj'.pools[j].name = obj.pools[k].name
           /\ did' \cap {"undeclare", "rename"} = {} =>
                 \A k \in DOMAIN obj.pools : k \in DOMAIN obj'.pools /\ obj'.pools[k] = obj.pools[k]
           /\ did' \cap {"duplicate", "rename"} = {} /\ Distinct(obj.pools) => Distinct(obj'.pools)
<1>0. DOMAIN obj.pools = 1 .. Len(obj.pools) /\ Len(obj.pools) \in Nat
      BY SpecPools
<1>1. CASE obj'.pools = obj.pools
      BY <1>1
<1>2. ASSUME NEW n \in Names, obj'.pools = Append(obj.pools, NewPool(n)),
             ~Called(n) \/ "duplicate" \in did'
      PROVE  /\ \A j \in DOMAIN obj'.pools : obj'.pools[j].id # None =>
                   j \in DOMAIN obj.pools /\ obj'.pools[j] = obj.pools[j]
             /\ \A k \in DOMAIN obj.pools :
                   k \in DOMAIN obj'.pools /\ obj'.pools[k] = obj.pools[k]
             /\ "duplicate" \notin did' /\ Distinct(obj.pools) => Distinct(obj'.pools)
  <2>1. \A j \in DOMAIN obj'.pools : j \in DOMAIN obj.pools \/ j = Len(obj.pools) + 1
        BY <1>0, <1>2, AppendedPool
  <2>2. obj'.pools[Len(obj.pools) + 1].id = None /\ obj'.pools[Len(obj.pools) + 1].name = n
        BY <1>2, AppendedPool DEF NewPool
  <2>3. "duplicate" \notin did' => \A k \in DOMAIN obj.pools : obj.pools[k].name # n
        BY <1>2 DEF Called
  <2>4. \A k \in DOMAIN obj.pools : k \in DOMAIN obj'.pools /\ obj'.pools[k] = obj.pools[k]
        BY <1>0, <1>2, AppendedPool
  <2>   QED
        BY <2>1, <2>2, <2>3, <2>4 DEF Distinct
<1>3. ASSUME NEW k \in DOMAIN obj.pools,
             obj'.pools = SubSeq(obj.pools, 1, k - 1) \o SubSeq(obj.pools, k + 1, Len(obj.pools))
      PROVE  /\ \A j \in DOMAIN obj'.pools :
                   \E l \in DOMAIN obj.pools : obj'.pools[j] = obj.pools[l]
             /\ Distinct(obj.pools) => Distinct(obj'.pools)
  <2> DEFINE at(j) == IF j < k THEN j ELSE j + 1
  <2>0. /\ DOMAIN obj'.pools = 1 .. Len(obj.pools) - 1
        /\ \A j \in DOMAIN obj'.pools :
              obj'.pools[j] = IF j < k THEN obj.pools[j] ELSE obj.pools[j + 1]
        BY <1>3, UndeclaredPool
  <2>1. ASSUME NEW j \in DOMAIN obj'.pools
        PROVE  at(j) \in DOMAIN obj.pools /\ obj'.pools[j] = obj.pools[at(j)]
    <3>1. at(j) \in 1 .. Len(obj.pools)
          BY <1>0, <2>0
    <3>2. obj'.pools[j] = obj.pools[at(j)]
      <4>1. CASE j < k
            BY <2>0, <4>1
      <4>2. CASE ~(j < k)
            BY <2>0, <4>2
      <4>   QED
            BY <4>1, <4>2
    <3>   QED
          BY <1>0, <3>1, <3>2
  <2>2. \A i, j \in DOMAIN obj'.pools : at(i) = at(j) => i = j
        BY <1>0, <2>0
  <2> HIDE DEF at
  <2>   QED
        BY <2>1, <2>2 DEF Distinct
<1>4. ASSUME NEW k \in DOMAIN obj.pools, NEW n \in Names,
             obj'.pools = [obj.pools EXCEPT ![k].name = n]
      PROVE  \A j \in DOMAIN obj'.pools :
                j \in DOMAIN obj.pools /\ obj'.pools[j].id = obj.pools[j].id
      BY <1>4, SpecPools DEF Pool
<1>   QED
      BY <1>1, <1>2, <1>3, <1>4 DEF Editing

LEMMA AdoptedPools ==
    ASSUME TypeOK, Adopting
    PROVE  /\ DOMAIN obj'.pools = DOMAIN obj.pools
           /\ \A k \in DOMAIN obj.pools :
                 /\ obj'.pools[k].name = obj.pools[k].name
                 /\ obj'.pools[k].id = IF obj.pools[k].id # None THEN obj.pools[k].id
                                       ELSE obj.made[obj.pools[k].name]
<1>1. obj'.pools = [k \in DOMAIN obj.pools |-> Adopted(obj.pools[k])]
      BY DEF Adopting
<1>2. \A k \in DOMAIN obj.pools : obj.pools[k] \in Pool
      BY SpecPools
<1>   QED
      BY <1>1, <1>2 DEF Adopted, Pool

-----------------------------------------------------------------------------
(* Named pools are not deleted.                                            *)

NewOnes == {work.made[n] : n \in Names} \ {None}

(* While the worker compares, Spec names no pool that the worker's copy    *)
(* does not name; so what is to be deleted is not named, and what has been *)
(* made since is new.                                                      *)
DropInv ==
    /\ pc \in Before => IdsOf(obj.pools) \subseteq IdsOf(local.pools)
    /\ pc \in {"create", "announce"} =>
          /\ work.drop \cap IdsOf(local.pools) = {}
          /\ work.drop \cap NewOnes = {}
          /\ \A i \in work.drop : pools[i].state # "none"
    /\ pc = "delete" => work.drop \cap Named = {}

LEMMA DropKept ==
    ASSUME TypeOK, DropInv, PoolStep, pc' = pc, UNCHANGED <<local, work>>,
           pc \in Before => IdsOf(obj'.pools) \subseteq IdsOf(obj.pools),
           pc = "delete" => Named' \subseteq Named \cup {None},
           \A i \in Ids : pools[i].state # "none" => pools'[i].state # "none"
    PROVE  DropInv'
<1>1. work.drop \subseteq Ids /\ None \notin Ids
      BY NoneAssumption DEF TypeOK, Work
<1>2. NewOnes' = NewOnes
      BY DEF NewOnes
<1>3. pc' \in Before => IdsOf(obj'.pools) \subseteq IdsOf(local'.pools)
      BY DEF DropInv
<1>   QED
      BY <1>1, <1>2, <1>3 DEF DropInv

LEMMA DropStep == ASSUME TypeOK, ListInv, DropInv, PoolStep PROVE DropInv'
<1>0. work.drop \subseteq Ids /\ None \notin Ids /\ work.made \in [Names -> Ids \cup {None}]
      BY NoneAssumption DEF TypeOK, Work
<1>1. CASE Resting
      BY <1>1 DEF DropInv, Resting, Held, Before
<1>2. CASE Aside \/ Turning
  <2>1. Named' = Named /\ obj'.pools = obj.pools
        BY <1>2 DEF Aside, Turning, SameSpec, Named, IdsOf
  <2>   QED
        BY <1>2, <2>1, PoolsStep, DropKept DEF Aside, Turning
<1>3. CASE Editing
  <2>1. IdsOf(obj'.pools) \subseteq IdsOf(obj.pools)
        BY <1>3, EditedPools DEF IdsOf
  <2>2. Named' \subseteq Named
        BY <1>3, <2>1 DEF Editing, Named
  <2>   QED
        BY <1>3, <2>1, <2>2, PoolsStep, DropKept DEF Editing
<1>4. CASE Adopting
  <2>1. pc \notin Before
        BY <1>4 DEF Adopting, ListInv, NoneAnnounced
  <2>2. IdsOf(obj'.pools) \subseteq IdsOf(obj.pools) \cup {obj.made[n] : n \in Names}
    <3>1. \A k \in DOMAIN obj.pools : obj.pools[k].name \in Names
          BY SpecPools DEF Pool
    <3>   QED
          BY <1>4, <3>1, AdoptedPools DEF IdsOf
  <2>3. Named' \subseteq Named \cup {None}
    <3>1. {obj'.made[n] : n \in Names} \subseteq {None}
          BY <1>4 DEF Adopting, NoIds
    <3>   QED
          BY <2>2, <3>1 DEF Named
  <2>   QED
        BY <1>4, <2>1, <2>3, PoolsStep, DropKept DEF Adopting
<1>5. CASE Fetching \/ Listing \/ Moving \/ Starting
  <2>1. /\ pc' \in {"list", "group", "version", "cluster", "pools"}
        /\ pc = "get" \/ pc \in Before
        /\ obj'.pools = obj.pools
        /\ IF pc = "get" THEN local' = obj ELSE local'.pools = local.pools
        BY <1>5 DEF Fetching, Listing, Moving, Starting, SameSpec, Before, Comparing
  <2>2. IdsOf(obj'.pools) \subseteq IdsOf(local'.pools)
    <3>1. CASE pc = "get"
          BY <2>1, <3>1
    <3>2. CASE pc # "get"
          BY <2>1, <3>2 DEF DropInv
    <3>   QED
          BY <3>1, <3>2
  <2>   QED
        BY <2>1, <2>2 DEF DropInv
<1>6. CASE Updating
      BY <1>6 DEF Updating, DropInv
<1>7. CASE Matching
  <2>1. work'.drop = Unknown /\ work'.made = work.made
        BY <1>7 DEF Matching, TypeOK, Work
  <2>2. Unknown = ListedIds \ IdsOf(local.pools)
        BY DEF Unknown, ListedIds
  <2>3. NewOnes' = {}
    <3>1. work.made = NoIds
          BY <1>7 DEF Matching, ListInv, NothingDone, Acting
    <3>   QED
          BY <2>1, <3>1 DEF NewOnes, NoIds
  <2>4. \A i \in ListedIds : pools[i].state # "none"
        BY <1>7 DEF Matching, ListInv, ListedThere, Comparing
  <2>5. IdsOf(obj.pools) \subseteq IdsOf(local.pools)
        BY <1>7 DEF Matching, DropInv, Before, Comparing
  <2>   QED
        BY <1>7, <2>1, <2>2, <2>3, <2>4, <2>5 DEF Matching, DropInv
<1>8. CASE Creating /\ pc' = "report"
      BY <1>8 DEF DropInv, Before, Comparing
<1>9. CASE Creating /\ pc' = pc
  <2>1. PICK e \in work.todo :
           work' = [work EXCEPT !.todo = @ \ {e}, !.made[e[2].name] = NewId, !.acted = TRUE]
        BY <1>9 DEF Creating
  <2>2. /\ work'.drop = work.drop
        /\ \A n \in Names : work'.made[n] \in {work.made[n], NewId}
        BY <2>1 DEF TypeOK, Work
  <2>3. NewOnes' \subseteq NewOnes \cup {NewId}
        BY <2>2 DEF NewOnes
  <2>4. NewId \notin work.drop
        BY <1>9 DEF Creating, DropInv
  <2>5. \A i \in work.drop : pools'[i].state # "none"
        BY <1>0, <1>9, PoolsStep DEF Creating, DropInv
  <2>6. pc = "create" /\ UNCHANGED <<obj, local>>
        BY <1>9 DEF Creating
  <2>   QED
        BY <1>9, <2>2, <2>3, <2>4, <2>5, <2>6 DEF DropInv
<1>10. CASE Leaving
  <2>1. CASE pc' = "delete"
    <3>1. pc = "create" /\ UNCHANGED <<obj, local, work>>
          BY <1>10, <2>1 DEF Leaving
    <3>2. obj.made = NoIds /\ IdsOf(obj.pools) \subseteq IdsOf(local.pools)
          BY <3>1 DEF ListInv, NoneAnnounced, DropInv, Before
    <3>3. Named \subseteq IdsOf(local.pools) \cup {None}
          BY <3>2 DEF Named, NoIds
    <3>4. work.drop \cap Named = {}
          BY <1>0, <3>1, <3>3 DEF DropInv
    <3>5. Named' = Named
          BY <3>1 DEF Named
    <3>   QED
          BY <2>1, <3>1, <3>4, <3>5 DEF DropInv, Before, Comparing
  <2>2. CASE pc' # "delete"
        BY <1>10, <2>2 DEF Leaving, DropInv, Before, Comparing, NewOnes
  <2>   QED
        BY <2>1, <2>2
<1>11. CASE Announcing
  <2>1. IdsOf(obj.pools) \subseteq IdsOf(local.pools)
        BY <1>11 DEF Announcing, DropInv, Before
  <2>2. Named' \subseteq IdsOf(local.pools) \cup NewOnes \cup {None}
        BY <1>11, <2>1 DEF Announcing, Named, NewOnes
  <2>3. work.drop \cap Named' = {}
        BY <1>0, <1>11, <2>2 DEF Announcing, DropInv
  <2>   QED
        BY <1>11, <2>3 DEF Announcing, DropInv, Before, Comparing
<1>12. CASE Deleting
  <2>1. work'.drop \subseteq work.drop /\ Named' = Named
        BY <1>12 DEF Deleting, TypeOK, Work, Named
  <2>   QED
        BY <1>12, <2>1 DEF Deleting, DropInv, Before, Comparing
<1>   QED
      BY <1>1, <1>2, <1>3, <1>4, <1>5, <1>6, <1>7, <1>8, <1>9, <1>10, <1>11, <1>12
      DEF PoolStep, Creating

LEMMA DropsKnown == Spec => []DropInv
<1>1. Init => DropInv
      BY DEF Init, DropInv, Before, Comparing
<1>2. TypeOK /\ CopiesAgree /\ ListInv /\ DropInv /\ [Next]_vars => DropInv'
      BY EveryStep, DropStep
<1>   QED
      BY <1>1, <1>2, TypeCorrect, CopiesTracked, ListTrue, PTL DEF Spec

(* The operator deletes no pool that Spec names, in whatever state of the  *)
(* handshake with Rancher and however old the list it goes by.             *)
THEOREM NamedStay == Spec => NamedPoolsKept
<1> DEFINE Stays(i) ==
              i \in Named /\ pools[i].state # "deleting" /\ pools'[i].state = "deleting"
                 => edits' # edits
<1>1. ASSUME TypeOK, DropInv, PoolStep PROVE \A i \in Ids : Stays(i)
  <2>1. CASE UNCHANGED pools
        BY <2>1
  <2>2. CASE Turning
    <3>1. PICK j \in Ids, state \in Here \cup {"gone"} :
             /\ pools' = [pools EXCEPT ![j].state = state]
             /\ state = "deleting" => edits' # edits
          BY <2>2 DEF Turning, Become
    <3>   QED
          BY <1>1, <3>1 DEF TypeOK, NodePool
  <2>3. CASE Updating
    <3>1. PICK e \in work.todo :
             /\ e[2].id \in Existing
             /\ pools' = [pools EXCEPT ![e[2].id].name = e[2].name]
          BY <2>3 DEF Updating
    <3>   QED
          BY <1>1, <3>1 DEF TypeOK, NodePool, Existing
  <2>4. CASE Creating
    <3>1. PICK n : pools' = [pools EXCEPT ![NewId] = [name |-> n, state |-> "settling"]]
          BY <2>4 DEF Creating
    <3>   QED
          BY <1>1, <3>1 DEF TypeOK
  <2>5. CASE Deleting
    <3>1. PICK j \in work.drop :
             j \in Existing /\ pools' = [pools EXCEPT ![j].state = "deleting"]
          BY <2>5 DEF Deleting
    <3>2. j \notin Named
          BY <1>1, <2>5, <3>1 DEF Deleting, DropInv
    <3>   QED
          BY <1>1, <3>1, <3>2 DEF TypeOK, NodePool
  <2>   QED
        BY <1>1, <2>1, <2>2, <2>3, <2>4, <2>5
        DEF PoolStep, Resting, Aside, Editing, Adopting, Fetching, Listing, Moving, Starting,
            Matching, Leaving, Announcing
<1>2. TypeOK /\ CopiesAgree /\ DropInv /\ [Next]_vars => [\A i \in Ids : Stays(i)]_vars
      BY <1>1, EveryStep
<1>   QED
      BY <1>2, TypeCorrect, CopiesTracked, DropsKnown, PTL DEF Spec, NamedPoolsKept

-----------------------------------------------------------------------------
(* Announced pools are not forgotten.                                      *)

(* Unless a pool is taken out or renamed, Spec only grows behind the       *)
(* worker's back; so a pool made for an entry without an ID finds that     *)
(* entry when it is announced and when Rancher takes it over.              *)
GrownSpec ==
    /\ pc \in Before => \A k \in DOMAIN local.pools :
                           k \in DOMAIN obj.pools /\ obj.pools[k] = local.pools[k]
    /\ pc \in {"create", "announce"} =>
          \A n \in Names : work.made[n] # None =>
             \E k \in DOMAIN local.pools : local.pools[k] = NewPool(n)
    /\ \A n \in Names : obj.made[n] # None =>
          \E k \in DOMAIN obj.pools : obj.pools[k] = NewPool(n)

SpecInv == Untouched({"undeclare", "rename"}) => GrownSpec

LEMMA GrownKept ==
    ASSUME GrownSpec, pc' = pc, UNCHANGED <<local, work>>, obj'.made = obj.made,
           \A k \in DOMAIN obj.pools : k \in DOMAIN obj'.pools /\ obj'.pools[k] = obj.pools[k]
    PROVE  GrownSpec'
<1>1. pc' \in Before => \A k \in DOMAIN local'.pools :
                           k \in DOMAIN obj'.pools /\ obj'.pools[k] = local'.pools[k]
      BY DEF GrownSpec
<1>2. \A n \in Names : obj'.made[n] # None =>
          \E k \in DOMAIN obj'.pools : obj'.pools[k] = NewPool(n)
      BY DEF GrownSpec
<1>   QED
      BY <1>1, <1>2 DEF GrownSpec

LEMMA GrownStep ==
    ASSUME TypeOK, ListInv, PoolStep, GrownSpec, did' \cap {"undeclare", "rename"} = {}
    PROVE  GrownSpec'
<1>1. CASE Resting
      BY <1>1 DEF GrownSpec, Resting, SameSpec, Held, Before
<1>2. CASE Aside \/ Turning
      BY <1>2, GrownKept DEF Aside, Turning, SameSpec
<1>3. CASE Editing
      BY <1>3, EditedPools, GrownKept DEF Editing
<1>4. CASE Adopting
  <2>1. pc \notin Before
        BY <1>4 DEF Adopting, ListInv, NoneAnnounced
  <2>2. pc' \notin Before /\ \A n \in Names : obj'.made[n] = None
        BY <1>4, <2>1 DEF Adopting, NoIds
  <2>   QED
        BY <2>2 DEF GrownSpec, Before
<1>5. CASE Fetching
  <2>1. \A n \in Names : obj'.made[n] = None
        BY <1>5 DEF Fetching, NoIds
  <2>   QED
        BY <1>5, <2>1 DEF Fetching, GrownSpec
<1>6. CASE Listing \/ Moving \/ Starting \/ Updating
  <2>1. /\ pc' \in Comparing /\ pc \in Before
        /\ obj'.pools = obj.pools /\ obj'.made = obj.made /\ local'.pools = local.pools
        BY <1>6 DEF Listing, Moving, Starting, Updating, SameSpec, Before, Comparing
  <2>   QED
        BY <2>1 DEF GrownSpec, Before, Comparing
<1>7. CASE Matching
  <2>1. work'.made = NoIds
        BY <1>7 DEF Matching, ListInv, NothingDone, Acting, TypeOK, Work
  <2>2. \A n \in Names : work'.made[n] = None
        BY <2>1 DEF NoIds
  <2>   QED
        BY <1>7, <2>2 DEF Matching, GrownSpec, Before, Comparing
<1>8. CASE Creating /\ pc' = "report"
      BY <1>8 DEF Creating, GrownSpec, Before, Comparing
<1>9. CASE Creating /\ pc' = pc
  <2>1. PICK e \in work.todo :
           work' = [work EXCEPT !.todo = @ \ {e}, !.made[e[2].name] = NewId, !.acted = TRUE]
        BY <1>9 DEF Creating
  <2>2. \A n \in Names : work'.made[n] = work.made[n] \/ n = e[2].name
        BY <2>1 DEF TypeOK, Work
  <2>3. e \in Entries /\ Missing(e[2]) /\ e[2].id \in ListedIds \cup {None}
        BY <1>9, <2>1 DEF Creating, ListInv, ListedThere
  <2>4. e[2].id = None
        BY <2>3 DEF Missing, ListedIds
  <2>5. PICK k \in DOMAIN local.pools : e = <<k, local.pools[k]>>
        BY <2>3 DEF Entries
  <2>6. local.pools[k] = NewPool(e[2].name)
    <3>1. local.pools[k] \in Pool
          BY SpecPools
    <3>   QED
          BY <2>4, <2>5, <3>1 DEF Pool, NewPool
  <2>7. \A n \in Names : work'.made[n] # None =>
             \E j \in DOMAIN local.pools : local.pools[j] = NewPool(n)
        BY <1>9, <2>2, <2>6 DEF Creating, GrownSpec
  <2>8. UNCHANGED <<obj, local>>
        BY <1>9 DEF Creating
  <2>   QED
        BY <1>9, <2>7, <2>8 DEF GrownSpec
<1>10. CASE Leaving
      BY <1>10 DEF Leaving, GrownSpec, Before, Comparing
<1>11. CASE Announcing
  <2>1. \A k \in DOMAIN local.pools : k \in DOMAIN obj.pools /\ obj.pools[k] = local.pools[k]
        BY <1>11 DEF Announcing, GrownSpec, Before
  <2>2. \A n \in Names : obj'.made[n] # None =>
           \E k \in DOMAIN obj'.pools : obj'.pools[k] = NewPool(n)
        BY <1>11, <2>1 DEF Announcing, GrownSpec
  <2>   QED
        BY <1>11, <2>2 DEF Announcing, GrownSpec, Before, Comparing
<1>12. CASE Deleting
      BY <1>12 DEF Deleting, GrownSpec, Before, Comparing
<1>   QED
      BY <1>1, <1>2, <1>3, <1>4, <1>5, <1>6, <1>7, <1>8, <1>9, <1>10, <1>11, <1>12
      DEF PoolStep, Creating

LEMMA DidGrows == ASSUME PoolStep PROVE did \subseteq did'
BY DEF PoolStep, Resting, Aside, Turning, Editing, Adopting, Fetching, Listing, Moving, Starting,
       Updating, Matching, Creating, Leaving, Announcing, Deleting

LEMMA SpecGrows == Spec => []SpecInv
<1>1. Init => SpecInv
  <2> SUFFICES ASSUME Init PROVE GrownSpec
      BY DEF SpecInv
  <2>1. \A n \in Names : obj.made[n] = None
        BY DEF Init, Created, NoIds
  <2>   QED
        BY <2>1 DEF Init, GrownSpec, Before, Comparing
<1>2. TypeOK /\ CopiesAgree /\ ListInv /\ SpecInv /\ [Next]_vars => SpecInv'
  <2> SUFFICES ASSUME TypeOK, CopiesAgree, ListInv, SpecInv, [Next]_vars,
                      did' \cap {"undeclare", "rename"} = {}
               PROVE  GrownSpec'
      BY DEF SpecInv, Untouched
  <2>1. PoolStep
        BY EveryStep
  <2>2. GrownSpec
        BY <2>1, DidGrows DEF SpecInv, Untouched
  <2>   QED
        BY <2>1, <2>2, GrownStep
<1>   QED
      BY <1>1, <1>2, TypeCorrect, CopiesTracked, ListTrue, PTL DEF Spec

(* What the operator has announced stays on the object until Rancher takes *)
(* it over, and then it gets where it belongs: no sync that runs on an     *)
(* older copy overwrites it or takes an entry from under it.               *)
THEOREM AnnouncedStay == Spec => AnnouncedKept
<1> DEFINE Stays(n) ==
              obj.made[n] # None /\ obj'.made[n] # obj.made[n]
                 => /\ obj'.made[n] = None
                    /\ Untouched({"undeclare", "rename"}) => obj.made[n] \in IdsOf(obj'.pools)
<1>1. ASSUME TypeOK, ListInv, SpecInv, PoolStep, NEW n \in Names PROVE Stays(n)
  <2>1. CASE obj'.made = obj.made
        BY <2>1
  <2>2. CASE Adopting
    <3>1. obj'.made[n] = None
          BY <2>2 DEF Adopting, NoIds
    <3>2. ASSUME Untouched({"undeclare", "rename"}), obj.made[n] # None
          PROVE  obj.made[n] \in IdsOf(obj'.pools)
      <4>1. PICK k \in DOMAIN obj.pools : obj.pools[k] = NewPool(n)
            BY <1>1, <3>2 DEF SpecInv, GrownSpec
      <4>2. k \in DOMAIN obj'.pools /\ obj'.pools[k].id = obj.made[n]
            BY <1>1, <2>2, <4>1, AdoptedPools DEF NewPool
      <4>   QED
            BY <3>2, <4>2 DEF IdsOf
    <3>   QED
          BY <3>1, <3>2
  <2>3. CASE Announcing
    <3>1. obj.made[n] = None
          BY <1>1, <2>3 DEF Announcing, ListInv, NoneAnnounced, Before, NoIds
    <3>   QED
          BY <3>1
  <2>   QED
        BY <1>1, <2>1, <2>2, <2>3
        DEF PoolStep, Resting, Aside, Turning, Editing, Fetching, Listing, Moving, Starting,
            Updating, Matching, Creating, Leaving, Deleting, SameSpec
<1>2. TypeOK /\ CopiesAgree /\ ListInv /\ SpecInv /\ [Next]_vars => [\A n \in Names : Stays(n)]_vars
      BY <1>1, EveryStep
<1>   QED
      BY <1>2, TypeCorrect, CopiesTracked, ListTrue, SpecGrows, PTL DEF Spec, AnnouncedKept

-----------------------------------------------------------------------------
(* No name is made twice.                                                  *)

NameIs(i, n) == i # None => pools[i].name = n

(* Unless pools are renamed, an ID stands beside the name its pool got     *)
(* when it was made.                                                       *)
NamesMatch ==
    /\ \A k \in DOMAIN obj.pools : NameIs(obj.pools[k].id, obj.pools[k].name)
    /\ \A n \in Names : NameIs(obj.made[n], n) /\ NameIs(work.made[n], n)
    /\ pc \in Held => \A k \in DOMAIN local.pools : NameIs(local.pools[k].id, local.pools[k].name)

NameInv == Untouched({"rename"}) => NamesMatch

WillBe(i, n) == i # None => pools'[i].name = n

LEMMA NamesStay ==
    ASSUME TypeOK, ListInv, NamesMatch, PoolStep
    PROVE  /\ \A i \in Ids : pools[i].state # "none" => pools'[i].name = pools[i].name
           /\ \A i \in Ids \cup {None}, n \in Names : NameIs(i, n) => WillBe(i, n)
<1>1. \A i \in Ids : pools[i].state # "none" => pools'[i].name = pools[i].name
  <2>1. CASE Updating
    <3>1. PICK e \in work.todo :
             /\ e[2].id \in Existing
             /\ pools' = [pools EXCEPT ![e[2].id].name = e[2].name]
          BY <2>1 DEF Updating
    <3>2. e \in Entries /\ pc \in Held
          BY <2>1, <3>1 DEF Updating, ListInv, ListedThere, Held, Before, Comparing
    <3>3. NameIs(e[2].id, e[2].name)
          BY <3>2 DEF Entries, NamesMatch
    <3>4. pools[e[2].id].name = e[2].name
          BY <3>1, <3>3, NoneAssumption DEF NameIs, Existing
    <3>   QED
          BY <3>1, <3>4 DEF TypeOK, NodePool
  <2>2. CASE Creating
        BY <2>2 DEF Creating, TypeOK
  <2>   QED
        BY <2>1, <2>2, PoolsStep
<1>2. ASSUME NEW i \in Ids, NEW n \in Names, pools[i].name = n PROVE pools[i].state # "none"
      BY <1>2, NoneAssumption DEF TypeOK, NodePool, Here
<1>   QED
      BY <1>1, <1>2 DEF NameIs, WillBe

LEMMA NamesMatchStep ==
    ASSUME TypeOK, ListInv, NamesMatch, PoolStep, "rename" \notin did' PROVE NamesMatch'
<1>0. /\ \A k \in DOMAIN obj.pools : obj.pools[k].id \in Ids \cup {None}
                                     /\ obj.pools[k].name \in Names
      /\ \A k \in DOMAIN local.pools : local.pools[k].id \in Ids \cup {None}
                                       /\ local.pools[k].name \in Names
      /\ \A n \in Names : obj.made[n] \in Ids \cup {None} /\ work.made[n] \in Ids \cup {None}
      BY SpecPools DEF Pool, TypeOK, Work
<1> DEFINE InSpec   == \A k \in DOMAIN obj.pools : NameIs(obj.pools[k].id, obj.pools[k].name)
           InMade   == \A n \in Names : NameIs(obj.made[n], n)
           InWork   == \A n \in Names : NameIs(work.made[n], n)
           InLocal  == \A k \in DOMAIN local.pools : NameIs(local.pools[k].id, local.pools[k].name)
<1>1. obj'.pools = obj.pools => InSpec'
      BY <1>0, NamesStay DEF NamesMatch, NameIs, WillBe
<1>2. obj'.made = obj.made \/ obj'.made = NoIds => InMade'
  <2>1. CASE obj'.made = obj.made
        BY <1>0, <2>1, NamesStay DEF NamesMatch, NameIs, WillBe
  <2>2. CASE obj'.made = NoIds
        BY <2>2 DEF NoIds, NameIs
  <2>   QED
        BY <2>1, <2>2
<1>3. work'.made = work.made \/ work'.made = NoIds => InWork'
  <2>1. CASE work'.made = work.made
        BY <1>0, <2>1, NamesStay DEF NamesMatch, NameIs, WillBe
  <2>2. CASE work'.made = NoIds
        BY <2>2 DEF NoIds, NameIs
  <2>   QED
        BY <2>1, <2>2
<1>4. pc \in Held /\ local'.pools = local.pools => InLocal'
      BY <1>0, NamesStay DEF NamesMatch, NameIs, WillBe
<1>5. local' = obj' /\ InSpec' => InLocal'
      OBVIOUS
<1>6. NamesMatch' <=> InSpec' /\ InMade' /\ InWork' /\ (pc' \in Held => InLocal')
      BY DEF NamesMatch
<1>7. CASE Resting
      BY <1>1, <1>2, <1>3, <1>6, <1>7 DEF Resting, SameSpec
<1>8. CASE Aside \/ Turning
      BY <1>1, <1>2, <1>3, <1>4, <1>6, <1>8 DEF Aside, Turning, SameSpec
<1>9. CASE Editing
  <2>1. ASSUME NEW j \in DOMAIN obj'.pools, obj'.pools[j].id # None
        PROVE  WillBe(obj'.pools[j].id, obj'.pools[j].name)
    <3>1. PICK k \in DOMAIN obj.pools : /\ obj'.pools[j].id = obj.pools[k].id
                                        /\ obj'.pools[j].name = obj.pools[k].name
          BY <1>9, <2>1, EditedPools
    <3>   QED
          BY <1>0, <3>1, NamesStay DEF NamesMatch
  <2>2. InSpec'
        BY <2>1 DEF NameIs, WillBe
  <2>   QED
        BY <1>2, <1>3, <1>4, <1>6, <1>9, <2>2 DEF Editing
<1>10. CASE Adopting
  <2>1. ASSUME NEW j \in DOMAIN obj'.pools
        PROVE  WillBe(obj'.pools[j].id, obj'.pools[j].name)
    <3>1. /\ j \in DOMAIN obj.pools /\ obj'.pools[j].name = obj.pools[j].name
          /\ obj'.pools[j].id = IF obj.pools[j].id # None THEN obj.pools[j].id
                                ELSE obj.made[obj.pools[j].name]
          BY <1>10, AdoptedPools
    <3>2. NameIs(obj'.pools[j].id, obj.pools[j].name)
          BY <1>0, <3>1 DEF NamesMatch
    <3>   QED
          BY <1>0, <3>1, <3>2, NamesStay
  <2>2. InSpec'
        BY <2>1 DEF NameIs, WillBe
  <2>   QED
        BY <1>2, <1>3, <1>4, <1>6, <1>10, <2>2 DEF Adopting
<1>11. CASE Fetching
      BY <1>1, <1>2, <1>3, <1>5, <1>6, <1>11 DEF Fetching
<1>12. CASE Listing \/ Moving \/ Starting \/ Updating \/ Matching \/ Leaving \/ Deleting
  <2>1. /\ pc \in Held /\ local'.pools = local.pools
        /\ obj'.pools = obj.pools /\ obj'.made = obj.made
        BY <1>12 DEF Listing, Moving, Starting, Updating, Matching, Leaving, Deleting, SameSpec,
                     Held, Before, Comparing
  <2>2. work'.made = work.made
        BY <1>12 DEF Listing, Moving, Starting, Updating, Matching, Leaving, Deleting, TypeOK, Work
  <2>   QED
        BY <1>1, <1>2, <1>3, <1>4, <1>6, <2>1, <2>2
<1>13. CASE Creating
  <2>1. PICK e \in work.todo :
           /\ pools' = [pools EXCEPT ![NewId] = [name |-> e[2].name, state |-> "settling"]]
           /\ \/ work' = [work EXCEPT !.todo = @ \ {e}, !.made[e[2].name] = NewId,
                                      !.acted = TRUE]
              \/ UNCHANGED work
        BY <1>13 DEF Creating
  <2>2. NewId \in Ids /\ pools'[NewId].name = e[2].name
        BY <1>13, <2>1 DEF Creating, TypeOK
  <2>3. InWork'
    <3>1. ASSUME NEW n \in Names PROVE WillBe(work'.made[n], n)
      <4>1. work'.made[n] = work.made[n] \/ (n = e[2].name /\ work'.made[n] = NewId)
        <5>1. work.made \in [Names -> Ids \cup {None}] /\ e[2].name \in Names
              BY <2>1 DEF TypeOK, Work, Pool
        <5>2. /\ work' = work \/ work'.made = [work.made EXCEPT ![e[2].name] = NewId]
              BY <2>1 DEF TypeOK, Work
        <5>   QED
              BY <5>1, <5>2
      <4>2. CASE work'.made[n] = work.made[n]
        <5>1. NameIs(work.made[n], n) /\ work.made[n] \in Ids \cup {None}
              BY <1>0 DEF NamesMatch
        <5>   QED
              BY <4>2, <5>1, NamesStay
      <4>3. CASE n = e[2].name /\ work'.made[n] = NewId
            BY <2>2, <4>3 DEF WillBe
      <4>   QED
            BY <4>1, <4>2, <4>3
    <3>   QED
          BY <3>1 DEF NameIs, WillBe
  <2>   QED
        BY <1>1, <1>2, <1>4, <1>6, <1>13, <2>3 DEF Creating, Held, Before
<1>14. CASE Announcing
  <2>1. InMade'
        BY <1>0, <1>14, NamesStay DEF Announcing, NamesMatch, NameIs, WillBe
  <2>   QED
        BY <1>1, <1>3, <1>5, <1>6, <1>14, <2>1 DEF Announcing
<1>   QED
      BY <1>7, <1>8, <1>9, <1>10, <1>11, <1>12, <1>13, <1>14 DEF PoolStep

LEMMA NamesKept == Spec => []NameInv
<1>1. Init => NameInv
  <2> SUFFICES ASSUME Init PROVE NamesMatch
      BY DEF NameInv
  <2>1. /\ \A k \in DOMAIN obj.pools : obj.pools[k].id = None
        /\ \A n \in Names : obj.made[n] = None /\ work.made[n] = None
        /\ pc \notin Held
        BY DEF Init, Created, NoIds, NoWork, Held, Before, Comparing
  <2>   QED
        BY <2>1 DEF NamesMatch, NameIs
<1>2. TypeOK /\ CopiesAgree /\ ListInv /\ NameInv /\ [Next]_vars => NameInv'
  <2> SUFFICES ASSUME TypeOK, CopiesAgree, ListInv, NameInv, [Next]_vars, "rename" \notin did'
               PROVE  NamesMatch'
      BY DEF NameInv, Untouched
  <2>1. PoolStep
        BY EveryStep
  <2>2. NamesMatch
        BY <2>1, DidGrows DEF NameInv, Untouched
  <2>   QED
        BY <2>1, <2>2, NamesMatchStep
<1>   QED
      BY <1>1, <1>2, TypeCorrect, CopiesTracked, ListTrue, PTL DEF Spec

(* Unless users declare a name twice or rename a pool, an object from which *)
(* a validated copy was taken has no name twice, and keeps that.            *)
DistinctPools ==
    /\ Distinct(cache.pools) => Distinct(obj.pools)
    /\ pc = "check" /\ Distinct(local.pools) => Distinct(obj.pools)
    /\ pc \in Checked \cup Held => Distinct(obj.pools)
    /\ pc \in Held => Distinct(local.pools)

DistinctInv == Untouched({"duplicate", "rename"}) => DistinctPools

LEMMA SpecStaysDistinct ==
    ASSUME TypeOK, PoolStep, did' \cap {"duplicate", "rename"} = {}, Distinct(obj.pools)
    PROVE  Distinct(obj'.pools)
<1>1. CASE obj'.pools = obj.pools
      BY <1>1
<1>2. CASE Editing
      BY <1>2, EditedPools
<1>3. CASE Adopting
      BY <1>3, AdoptedPools DEF Distinct
<1>   QED
      BY <1>1, <1>2, <1>3
      DEF PoolStep, Resting, Aside, Turning, Fetching, Listing, Moving, Starting, Updating,
          Matching, Creating, Leaving, Announcing, Deleting, SameSpec

LEMMA DistinctStep ==
    ASSUME TypeOK, PoolStep, DistinctPools, did' \cap {"duplicate", "rename"} = {}
    PROVE  DistinctPools'
<1>1. Distinct(obj.pools) => Distinct(obj'.pools)
      BY SpecStaysDistinct
<1>2. cache' \in {cache, obj}
      BY DEF PoolStep, Resting, Aside, Turning, Editing, Adopting, Fetching, Listing, Moving,
             Starting, Updating, Matching, Creating, Leaving, Announcing, Deleting, CacheStep
<1>3. Distinct(cache'.pools) => Distinct(obj'.pools)
      BY <1>1, <1>2 DEF DistinctPools
<1>4. CASE Resting
      BY <1>1, <1>3, <1>4 DEF Resting, DistinctPools, Valid, Distinct, Checked
<1>5. CASE Aside \/ Turning \/ Editing \/ Adopting
      BY <1>1, <1>3, <1>5 DEF Aside, Turning, Editing, Adopting, DistinctPools
<1>6. CASE Fetching
      BY <1>1, <1>3, <1>6 DEF Fetching, DistinctPools, Checked
<1>7. CASE \/ Listing \/ Moving \/ Starting \/ Updating \/ Matching \/ Creating
           \/ Leaving \/ Announcing \/ Deleting
  <2>1. /\ pc \in Held /\ pc' \notin {"check"} \cup Checked
        /\ local'.pools \in {local.pools, obj'.pools}
        BY <1>7
        DEF Listing, Moving, Starting, Updating, Matching, Creating, Leaving, Announcing,
            Deleting, Held, Before, Comparing, Checked
  <2>   QED
        BY <1>1, <1>3, <2>1 DEF DistinctPools
<1>   QED
      BY <1>4, <1>5, <1>6, <1>7 DEF PoolStep

LEMMA DistinctKept == Spec => []DistinctInv
<1>1. Init => DistinctInv
      BY DEF Init, DistinctInv, DistinctPools, Checked, Held, Before, Comparing
<1>2. TypeOK /\ CopiesAgree /\ DistinctInv /\ [Next]_vars => DistinctInv'
  <2> SUFFICES ASSUME TypeOK, CopiesAgree, DistinctInv, [Next]_vars,
                      did' \cap {"duplicate", "rename"} = {}
               PROVE  DistinctPools'
      BY DEF DistinctInv, Untouched
  <2>1. PoolStep
        BY EveryStep
  <2>2. DistinctPools
        BY <2>1, DidGrows DEF DistinctInv, Untouched
  <2>   QED
        BY <2>1, <2>2, DistinctStep
<1>   QED
      BY <1>1, <1>2, TypeCorrect, CopiesTracked, PTL DEF Spec

(* The worker knows the name of every pool there is: from the list, or      *)
(* because it has made the pool itself; and it makes none it has made.      *)
Seen(i) == [name |-> pools[i].name, id |-> i] \in work.listed

NamesKnown ==
    /\ \A i, j \in Existing : pools[i].name = pools[j].name => i = j
    /\ pc \in Comparing => \A i \in Existing : Seen(i)
    /\ pc = "create" =>
          /\ \A i \in Existing : Seen(i) \/ work.made[pools[i].name] = i
          /\ \A e \in work.todo : work.made[e[2].name] = None

OneNameInv == Untouched({"duplicate", "rename"}) => NamesKnown

LEMMA NamesKnownKept ==
    ASSUME TypeOK, ListInv, NamesMatch, NamesKnown, PoolStep, ~Creating
    PROVE  /\ \A i, j \in Existing' : pools'[i].name = pools'[j].name => i = j
           /\ work'.listed = work.listed => \A i \in Existing' : Seen(i) => Seen(i)'
           /\ \A i \in Existing' : i \in Existing /\ pools'[i].name = pools[i].name
<1>1. \A i \in Existing' : i \in Existing /\ pools'[i].name = pools[i].name
      BY PoolsStep, NamesStay DEF Existing, Here
<1>   QED
      BY <1>1 DEF NamesKnown, Seen

LEMMA NamesKnownStep ==
    ASSUME TypeOK, ListInv, NamesMatch, NamesKnown, DistinctPools, PoolStep
    PROVE  NamesKnown'
<1>1. CASE Creating
  <2>1. PICK e \in work.todo :
           /\ pools' = [pools EXCEPT ![NewId] = [name |-> e[2].name, state |-> "settling"]]
           /\ \/ /\ work' = [work EXCEPT !.todo = @ \ {e}, !.made[e[2].name] = NewId,
                                         !.acted = TRUE]
                 /\ pc' = pc
              \/ pc' = "report"
        BY <1>1 DEF Creating
  <2> DEFINE n == e[2].name
  <2>2. /\ pc = "create" /\ NewId \in Ids /\ NewId \notin Existing /\ UNCHANGED local
        /\ pools'[NewId].name = n /\ \A i \in Ids \ {NewId} : pools'[i] = pools[i]
        BY <1>1, <2>1 DEF Creating, TypeOK, Existing, Here
  <2>3. Existing' \subseteq Existing \cup {NewId}
        BY <2>2 DEF Existing
  <2>4. n \in Names /\ work.made \in [Names -> Ids \cup {None}] /\ Existing \subseteq Ids
        BY <2>1 DEF TypeOK, Work, Pool, Existing
  <2>5. work.made[n] = None /\ Missing(e[2])
        BY <2>1, <2>2 DEF NamesKnown, ListInv, ListedThere
  <2>6. ASSUME NEW i \in Existing PROVE pools[i].name # n
    <3>1. CASE Seen(i)
          BY <2>5, <3>1 DEF Seen, Missing
    <3>2. CASE work.made[pools[i].name] = i
          BY <2>4, <2>5, <3>2, NoneAssumption
    <3>   QED
          BY <2>2, <3>1, <3>2 DEF NamesKnown
  <2>7. \A i, j \in Existing' : pools'[i].name = pools'[j].name => i = j
        BY <2>2, <2>3, <2>4, <2>6 DEF NamesKnown
  <2>8. CASE pc' = "report"
        BY <2>7, <2>8 DEF NamesKnown, Comparing
  <2>9. ASSUME pc' = pc,
               work' = [work EXCEPT !.todo = @ \ {e}, !.made[n] = NewId, !.acted = TRUE]
        PROVE  NamesKnown'
    <3>1. /\ work'.listed = work.listed /\ work'.todo = work.todo \ {e}
          /\ work'.made[n] = NewId /\ \A m \in Names \ {n} : work'.made[m] = work.made[m]
          BY <2>4, <2>9 DEF TypeOK, Work
    <3>2. ASSUME NEW i \in Existing' PROVE Seen(i)' \/ work'.made[pools'[i].name] = i
      <4>1. CASE i = NewId
            BY <2>2, <3>1, <4>1
      <4>2. CASE i # NewId
        <5>1. i \in Existing /\ pools'[i] = pools[i] /\ pools[i].name \in Names \ {n}
              BY <2>2, <2>3, <2>4, <2>6, <4>2, ExistingNamed
        <5>2. Seen(i) \/ work.made[pools[i].name] = i
              BY <2>2, <5>1 DEF NamesKnown
        <5>   QED
              BY <3>1, <5>1, <5>2 DEF Seen
      <4>   QED
            BY <4>1, <4>2
    <3>3. ASSUME NEW d \in work'.todo PROVE work'.made[d[2].name] = None
      <4>1. d \in work.todo /\ d # e /\ d[2].name \in Names
            BY <3>1 DEF TypeOK, Work, Pool
      <4>2. d \in Entries /\ e \in Entries
            BY <2>1, <2>2, <4>1 DEF ListInv, ListedThere
      <4>3. d[2].name # n
            BY <2>2, <4>1, <4>2 DEF Entries, DistinctPools, Distinct, Held, Before
      <4>   QED
            BY <2>2, <3>1, <4>1, <4>3 DEF NamesKnown
    <3>   QED
          BY <2>2, <2>7, <2>9, <3>2, <3>3 DEF NamesKnown, Comparing
  <2>   QED
        BY <2>1, <2>8, <2>9
<1>2. CASE ~Creating /\ pc' \notin Comparing \cup {"create"}
      BY <1>2, NamesKnownKept DEF NamesKnown
<1>3. CASE Aside \/ Turning \/ Editing \/ Adopting
  <2>1. ~Creating /\ UNCHANGED <<pc, work>>
        BY <1>3, AsideNotCreating DEF Aside, Turning, Editing, Adopting
  <2>   QED
        BY <2>1, NamesKnownKept DEF NamesKnown
<1>4. CASE Listing
  <2>1. work'.listed = {[name |-> pools[i].name, id |-> i] : i \in Existing}
        BY <1>4 DEF Listing, TypeOK, Work
  <2>2. UNCHANGED pools /\ pc' = "group" /\ Existing' = Existing
        BY <1>4 DEF Listing, Existing
  <2>   QED
        BY <2>1, <2>2 DEF NamesKnown, Seen
<1>5. CASE Moving \/ Starting \/ Updating
  <2>1. pc \in Comparing /\ pc' # "create" /\ work'.listed = work.listed
        BY <1>5 DEF Moving, Starting, Updating, Comparing, TypeOK, Work
  <2>2. ~Creating
        BY <2>1 DEF Creating, Comparing
  <2>   QED
        BY <2>1, <2>2, NamesKnownKept DEF NamesKnown
<1>6. CASE Matching
  <2>1. pc = "pools" /\ pc' = "create" /\ work'.listed = work.listed /\ work'.made = NoIds
        BY <1>6 DEF Matching, TypeOK, Work, ListInv, NothingDone, Acting
  <2>2. work'.todo \subseteq Entries
        BY <1>6 DEF Matching, TypeOK, Work
  <2>3. \A e \in Entries : e[2].name \in Names
        BY EntriesType DEF Pool
  <2>4. ~Creating
        BY <2>1 DEF Creating
  <2>   QED
        BY <2>1, <2>2, <2>3, <2>4, NamesKnownKept DEF NamesKnown, Comparing, NoIds
<1>   QED
      BY <1>1, <1>2, <1>3, <1>4, <1>5, <1>6
      DEF PoolStep, Resting, Fetching, Leaving, Announcing, Deleting, Held, Before,
          Comparing, Creating

LEMMA NamesKnownAlways == Spec => []OneNameInv
<1>1. Init => OneNameInv
      BY DEF Init, OneNameInv, NamesKnown, Existing, Here, Comparing
<1>2. /\ TypeOK /\ CopiesAgree /\ ListInv /\ NameInv /\ DistinctInv /\ OneNameInv
      /\ [Next]_vars
      => OneNameInv'
  <2> SUFFICES ASSUME TypeOK, CopiesAgree, ListInv, NameInv, DistinctInv, OneNameInv,
                      [Next]_vars, did' \cap {"duplicate", "rename"} = {}
               PROVE  NamesKnown'
      BY DEF OneNameInv, Untouched
  <2>1. PoolStep
        BY EveryStep
  <2>2. NamesMatch /\ DistinctPools /\ NamesKnown
        BY <2>1, DidGrows DEF NameInv, DistinctInv, OneNameInv, Untouched
  <2>   QED
        BY <2>1, <2>2, NamesKnownStep
<1>   QED
      BY <1>1, <1>2, TypeCorrect, CopiesTracked, ListTrue, NamesKept, DistinctKept, PTL DEF Spec

(* No pool is made twice, although the record of a new pool may be lost     *)
(* between its creation and its announcement: the next sync finds its name. *)
THEOREM OnePool == Spec => []OnePoolPerName
<1>1. OneNameInv => OnePoolPerName
      BY DEF OneNameInv, NamesKnown, OnePoolPerName
<1>   QED
      BY <1>1, NamesKnownAlways, PTL

-----------------------------------------------------------------------------
(* "active" is earned, and the operator rests only when it is.             *)

Still == \A i \in Ids : pools[i].state # "deleting"

(* As long as the sync has changed nothing, the list is what there is, and  *)
(* what is not right is on one of the lists of what is still to be done.    *)
ListHolds ==
    /\ pc \in Comparing \cup Acting =>
          /\ \A q \in work.listed : q.id \in Existing /\ pools[q.id].name = q.name
          /\ Existing \subseteq ListedIds
          /\ Still
    /\ pc = "create" => \A e \in Entries : Missing(e[2]) => e \in work.todo
    /\ pc \in {"create", "delete", "finish"} =>
          Unknown \subseteq work.drop /\ \A e \in Entries : e[2].id \in ListedIds \cup {None}
    /\ pc \in {"delete", "finish"} => \A e \in Entries : ~Missing(e[2])
    /\ pc = "finish" => work.drop = {}

CalmInv == Untouched({"console", "rename"}) /\ ~work.acted => ListHolds

(* A calm sync has found the cluster as it is wanted, and has announced     *)
(* nothing.                                                                 *)
AsWanted ==
    /\ pc \in {"cluster", "pools"} \cup Acting => local.want = work.seen
    /\ pc \in Held => obj.made = NoIds

WantInv == ~work.acted => AsWanted

LEMMA WantStep == ASSUME TypeOK, ListInv, WantInv, PoolStep PROVE WantInv'
<1>   SUFFICES ASSUME ~work'.acted PROVE AsWanted'
      BY DEF WantInv
<1>1. CASE Resting
      BY <1>1 DEF Resting, AsWanted, Held, Before, Comparing, Acting
<1>2. CASE Aside \/ Turning \/ Editing \/ Adopting
      BY <1>2 DEF Aside, Turning, Editing, Adopting, SameSpec, WantInv, AsWanted
<1>3. CASE Fetching
      BY <1>3 DEF Fetching, AsWanted, Acting
<1>4. CASE Listing \/ Starting \/ Updating \/ Matching
  <2>1. work'.acted = work.acted /\ work'.seen = work.seen
        BY <1>4 DEF Listing, Starting, Updating, Matching, TypeOK, Work
  <2>   QED
        BY <1>4, <2>1 DEF Listing, Starting, Updating, Matching, WantInv, AsWanted, Held, Before,
                          Comparing, Acting
<1>5. CASE Moving \/ Leaving
      BY <1>5 DEF Moving, Leaving, SameSpec, WantInv, AsWanted, Held, Before, Comparing, Acting
<1>6. CASE Announcing
      BY <1>6 DEF Announcing, ListInv, NothingDone
<1>7. CASE Creating \/ Deleting
  <2>1. pc' = "report"
        BY <1>7 DEF Creating, Deleting, TypeOK, Work
  <2>   QED
        BY <2>1 DEF AsWanted, Held, Before, Comparing, Acting
<1>   QED
      BY <1>1, <1>2, <1>3, <1>4, <1>5, <1>6, <1>7 DEF PoolStep

(* Nothing but an acting worker or the console changes what there is. *)
LEMMA ListStays ==
    ASSUME TypeOK, ListInv, NamesMatch, Still, PoolStep, ~Creating, ~Deleting,
           "console" \notin did'
    PROVE  /\ Existing' = Existing /\ Still'
           /\ \A i \in Existing : pools'[i].name = pools[i].name
<1>1. \A i \in Existing : pools'[i].name = pools[i].name
      BY NamesStay DEF Existing, Here
<1>2. Existing' = Existing /\ Still'
  <2>1. CASE UNCHANGED pools
        BY <2>1 DEF Existing, Still
  <2>2. CASE Turning
    <3>1. PICK i \in Ids, state \in Here \cup {"gone"} :
             /\ pools' = [pools EXCEPT ![i].state = state]
             /\ pools[i].state \in Here /\ state \in Here \ {"deleting"}
          BY <2>2 DEF Turning, Become, Still, Here
    <3>   QED
          BY <3>1 DEF TypeOK, NodePool, Existing, Still
  <2>3. CASE Updating
    <3>1. PICK e \in work.todo :
             /\ e[2].id \in Existing
             /\ pools' = [pools EXCEPT ![e[2].id].name = e[2].name]
          BY <2>3 DEF Updating
    <3>   QED
          BY <3>1 DEF TypeOK, NodePool, Existing, Still
  <2>   QED
        BY <2>1, <2>2, <2>3
        DEF PoolStep, Resting, Aside, Editing, Adopting, Fetching, Listing, Moving, Starting,
            Matching, Leaving, Announcing
<1>   QED
      BY <1>1, <1>2

(* Steps that leave the worker with its lists. *)
LEMMA HoldsKept ==
    ASSUME TypeOK, ListInv, NamesMatch, ListHolds, PoolStep, ~Creating, ~Deleting,
           "console" \notin did', pc \in Comparing \cup Acting, local'.pools = local.pools,
           work'.listed = work.listed
    PROVE  /\ \A q \in work'.listed : q.id \in Existing' /\ pools'[q.id].name = q.name
           /\ Existing' \subseteq ListedIds' /\ Still'
           /\ Entries' = Entries /\ ListedIds' = ListedIds /\ Unknown' = Unknown
           /\ \A p : Missing(p)' <=> Missing(p)
<1>1. Still
      BY DEF ListHolds
<1>2. Existing' = Existing /\ Still' /\ \A i \in Existing : pools'[i].name = pools[i].name
      BY <1>1, ListStays
<1>3. Entries' = Entries /\ ListedIds' = ListedIds /\ Unknown' = Unknown
      BY DEF Entries, ListedIds, Unknown, IdsOf
<1>4. \A p : Missing(p)' <=> Missing(p)
      BY DEF Missing
<1>   QED
      BY <1>2, <1>3, <1>4 DEF ListHolds

LEMMA HoldsStep ==
    ASSUME TypeOK, ListInv, NamesMatch, CalmInv, PoolStep,
           did' \cap {"console", "rename"} = {}, ~work'.acted
    PROVE  ListHolds'
<1>0. did \cap {"console", "rename"} = {} /\ "console" \notin did'
      BY DidGrows
<1>1. CASE pc' \notin Comparing \cup Acting
      BY <1>1 DEF ListHolds, Acting
<1>2. CASE Listing
  <2>1. work'.listed = {[name |-> pools[i].name, id |-> i] : i \in Existing}
        BY <1>2 DEF Listing, TypeOK, Work
  <2>2. /\ UNCHANGED pools /\ pc' = "group" /\ Existing' = Existing
        /\ \A i \in Existing : pools[i].state = "ready"
        BY <1>2 DEF Listing, Existing
  <2>3. \A q \in work'.listed : q.id \in Existing' /\ pools'[q.id].name = q.name
        BY <2>1, <2>2
  <2>4. Existing' \subseteq ListedIds'
    <3>1. ASSUME NEW i \in Existing PROVE \E q \in work'.listed : q.id = i
      <4>1. [name |-> pools[i].name, id |-> i] \in work'.listed
            BY <2>1
      <4>   QED
            BY <4>1
    <3>   QED
          BY <2>2, <3>1 DEF ListedIds
  <2>5. Still'
        BY <2>2 DEF Still, Existing, Here
  <2>   QED
        BY <2>2, <2>3, <2>4, <2>5 DEF ListHolds, Comparing
<1>3. CASE Creating \/ Deleting
  <2>1. pc' = "report"
        BY <1>3 DEF Creating, Deleting, TypeOK, Work
  <2>   QED
        BY <2>1 DEF ListHolds, Comparing, Acting
<1>4. CASE Aside \/ Turning \/ Editing \/ Adopting
  <2>1. UNCHANGED <<local, pc, work>> /\ ~Creating
        BY <1>4, AsideNotCreating DEF Aside, Turning, Editing, Adopting
  <2>2. CASE Deleting
        BY <1>3, <2>2
  <2>3. CASE ~Deleting /\ pc \in Comparing \cup Acting
    <3>1. ListHolds
          BY <1>0, <2>1 DEF CalmInv, Untouched
    <3>   QED
          BY <1>0, <2>1, <2>3, <3>1, HoldsKept DEF ListHolds
  <2>   QED
        BY <1>1, <2>1, <2>2, <2>3
<1>5. CASE Moving \/ Starting \/ Updating
  <2>1. /\ pc \in Comparing /\ pc' \in Comparing /\ local'.pools = local.pools
        /\ work'.listed = work.listed /\ work'.acted = work.acted
        BY <1>5 DEF Moving, Starting, Updating, Comparing, TypeOK, Work
  <2>2. ListHolds
        BY <1>0, <2>1 DEF CalmInv, Untouched
  <2>3. ~Creating /\ ~Deleting
        BY <2>1 DEF Creating, Deleting, Comparing
  <2>   QED
        BY <1>0, <2>1, <2>2, <2>3, HoldsKept DEF ListHolds, Comparing
<1>6. CASE Matching
  <2>1. /\ pc = "pools" /\ pc' = "create" /\ local' = local
        /\ work'.listed = work.listed /\ work'.acted = work.acted /\ work'.drop = Unknown
        /\ work'.todo = {e \in Entries : Missing(e[2])} /\ work.todo = {}
        BY <1>6 DEF Matching, TypeOK, Work
  <2>2. ListHolds
        BY <1>0, <2>1 DEF CalmInv, Untouched
  <2>3. ~Creating /\ ~Deleting /\ pc \in Comparing
        BY <2>1 DEF Creating, Deleting, Comparing
  <2>4. \A e \in Entries : e[2].id \in ListedIds \cup {None}
        BY <2>1, <2>3 DEF ListInv, ListedThere
  <2>   QED
        BY <1>0, <2>1, <2>2, <2>3, <2>4, HoldsKept DEF ListHolds, Comparing
<1>7. CASE Leaving
  <2>1. /\ UNCHANGED <<local, work>>
        /\ \/ pc = "create" /\ work.todo = {} /\ pc' \in {"announce", "delete"}
           \/ pc = "delete" /\ work.drop = {} /\ pc' = "finish"
        BY <1>7 DEF Leaving
  <2>2. ListHolds
        BY <1>0, <2>1 DEF CalmInv, Untouched
  <2>3. ~Creating /\ ~Deleting
        BY <1>7 DEF Leaving, Creating, Deleting
  <2>4. pc \in Acting
        BY <2>1 DEF Acting
  <2>   QED
        BY <1>0, <2>1, <2>2, <2>3, <2>4, HoldsKept DEF ListHolds, Comparing
<1>8. CASE Announcing
      BY <1>8 DEF Announcing, ListInv, NothingDone
<1>   QED
      BY <1>1, <1>2, <1>3, <1>4, <1>5, <1>6, <1>7, <1>8
      DEF PoolStep, Resting, Fetching, Held, Before, Acting, Comparing

LEMMA CalmSyncs == Spec => [](CalmInv /\ WantInv)
<1>1. Init => CalmInv /\ WantInv
      BY DEF Init, CalmInv, WantInv, ListHolds, AsWanted, Held, Before, Comparing, Acting
<1>2. /\ TypeOK /\ CopiesAgree /\ ListInv /\ NameInv /\ CalmInv /\ WantInv /\ [Next]_vars
      => CalmInv' /\ WantInv'
  <2> SUFFICES ASSUME TypeOK, CopiesAgree, ListInv, NameInv, CalmInv, WantInv, [Next]_vars
               PROVE  CalmInv' /\ WantInv'
      OBVIOUS
  <2>1. PoolStep
        BY EveryStep
  <2>2. ASSUME did' \cap {"console", "rename"} = {}, ~work'.acted PROVE ListHolds'
    <3>1. NamesMatch
          BY <2>1, <2>2, DidGrows DEF NameInv, Untouched
    <3>   QED
          BY <2>1, <2>2, <3>1, HoldsStep
  <2>   QED
        BY <2>1, <2>2, WantStep DEF CalmInv, Untouched
<1>   QED
      BY <1>1, <1>2, TypeCorrect, CopiesTracked, ListTrue, NamesKept, PTL DEF Spec

(* At the end of a calm sync there is nothing left to do. *)
LEMMA CalmEnd ==
    ASSUME TypeOK, Steady, NameInv, CalmInv, WantInv, pc = "finish", ~work.acted,
           local = obj, Valid(obj), Untouched({"console", "rename"})
    PROVE  AsDeclared /\ Still
<1>1. ListHolds /\ AsWanted /\ NamesMatch
      BY DEF CalmInv, WantInv, NameInv, Untouched
<1>2. cluster.status = "available" /\ cluster.is = obj.want
      BY <1>1 DEF Steady, SteadySteps, AsWanted, Acting
<1>3. /\ \A q \in work.listed : q.id \in Existing /\ pools[q.id].name = q.name
      /\ Existing \subseteq ListedIds /\ Still
      /\ Unknown \subseteq work.drop /\ work.drop = {}
      /\ \A e \in Entries : e[2].id \in ListedIds \cup {None} /\ ~Missing(e[2])
      BY <1>1 DEF ListHolds, Acting
<1>4. ListedIds \subseteq Existing
      BY <1>3 DEF ListedIds
<1>5. ListedIds \subseteq IdsOf(obj.pools)
      BY <1>3 DEF Unknown, ListedIds
<1>6. ASSUME NEW k \in DOMAIN obj.pools PROVE obj.pools[k].id \in Existing
  <2> DEFINE e == <<k, obj.pools[k]>>
  <2>1. e \in Entries /\ e[2] = obj.pools[k]
        BY DEF Entries
  <2>2. obj.pools[k].id \in ListedIds \cup {None} /\ ~Missing(obj.pools[k])
        BY <1>3, <2>1
  <2>3. CASE obj.pools[k].id = None
    <3>1. PICK q \in work.listed : q.id = None \/ q.name = obj.pools[k].name
          BY <2>2, <2>3 DEF Missing
    <3>2. q.id \in Ids /\ q.id # None
          BY NoneAssumption DEF TypeOK, Work
    <3>3. PICK j \in DOMAIN obj.pools : obj.pools[j].id = q.id
          BY <1>5 DEF ListedIds, IdsOf
    <3>4. pools[q.id].name = obj.pools[j].name /\ pools[q.id].name = q.name
          BY <1>1, <1>3, <3>2, <3>3 DEF NamesMatch, NameIs
    <3>5. j = k
          BY <3>1, <3>2, <3>4 DEF Valid
    <3>   QED
          BY <2>3, <3>2, <3>3, <3>5
  <2>   QED
        BY <1>4, <2>2, <2>3
<1>7. Existing = IdsOf(obj.pools)
  <2>1. None \notin Existing
        BY NoneAssumption DEF Existing
  <2>   QED
        BY <1>3, <1>5, <1>6, <2>1 DEF IdsOf
<1>   QED
      BY <1>2, <1>3, <1>6, <1>7 DEF AsDeclared

(* Only the end of a calm sync writes "active", and only over the object    *)
(* the sync has worked on.                                                  *)
LEMMA PhaseField ==
    ASSUME TypeOK, NEW o \in {obj, local}
    PROVE  /\ \A t : [o EXCEPT !.task = t].phase = o.phase
           /\ \A m : [o EXCEPT !.made = m].phase = o.phase
           /\ [o EXCEPT !.phase = "updating"].phase = "updating"
           /\ [o EXCEPT !.noted = TRUE].phase = o.phase
           /\ [o EXCEPT !.group = TRUE].phase = o.phase
BY DEF TypeOK, Object

LEMMA ActiveWritten ==
    ASSUME TypeOK, CopiesAgree, [Next]_vars, obj.phase = "updating", obj'.phase = "active"
    PROVE  pc = "finish" /\ ~work.acted /\ local = obj
<1> DEFINE Kept == obj'.phase \in {"updating", obj.phase}
<1>0. ~Kept
      OBVIOUS
<1>1. CASE Dispatching
  <2>1. CASE OnCCEConfigChanged \/ CheckCluster \/ GetConfig \/ ListNodePools
        BY <2>1 DEF OnCCEConfigChanged, CheckCluster, GetConfig, ListNodePools, Go, store
  <2>2. CASE RejectUpdate
    <3>1. [local EXCEPT !.phase = "updating"].phase = "updating"
          BY PhaseField
    <3>2. UpdateCopy([local EXCEPT !.phase = "updating"], "report", FALSE) => Kept
          BY <3>1 DEF UpdateCopy, Store, GiveUp, CopiesAgree
    <3>   QED
          BY <2>2, <3>2 DEF RejectUpdate
  <2>3. CASE CheckTask
    <3>1. [local EXCEPT !.task = 0].phase = local.phase
          BY PhaseField
    <3>2. UpdateCopy([local EXCEPT !.task = 0], "report", FALSE) => Kept
          BY <3>1 DEF UpdateCopy, Store, GiveUp, CopiesAgree
    <3>   QED
          BY <2>3, <3>2 DEF CheckTask, Abandon, Requeue, store
  <2>4. CASE WaitForCloud
    <3>1. [local EXCEPT !.phase = "updating"].phase = "updating"
          BY PhaseField
    <3>2. UpdateCopy([local EXCEPT !.phase = "updating"], "report", TRUE) => Kept
          BY <3>1 DEF UpdateCopy, Store, GiveUp, CopiesAgree
    <3>   QED
          BY <2>4, <3>2 DEF WaitForCloud, Requeue, store
  <2>5. CASE NoteCluster
    <3>1. [local EXCEPT !.noted = TRUE].phase = local.phase
          BY PhaseField
    <3>2. UpdateCopy([local EXCEPT !.noted = TRUE], "get", FALSE) => Kept
          BY <3>1 DEF UpdateCopy, Store, GiveUp, CopiesAgree
    <3>   QED
          BY <2>5, <3>2 DEF NoteCluster, Go, store
  <2>   QED
        BY <1>0, <1>1, <2>1, <2>2, <2>3, <2>4, <2>5 DEF Dispatching
<1>2. CASE Reshaping
  <2>1. CASE UpgradeCluster \/ ResizeCluster \/ RefuseDowngrade \/ KeepShape
        BY <2>1 DEF UpgradeCluster, ResizeCluster, RefuseDowngrade, KeepShape, Begin, Go,
                    Abandon, store
  <2>2. CASE RecordGroup
    <3>1. [local EXCEPT !.group = TRUE].phase = local.phase
          BY PhaseField
    <3>2. UpdateCopy([local EXCEPT !.group = TRUE], "version", FALSE) => Kept
          BY <3>1 DEF UpdateCopy, Store, GiveUp, CopiesAgree
    <3>   QED
          BY <2>2, <3>2 DEF RecordGroup, Go, store
  <2>3. CASE RecordTask
        BY <2>3, PhaseField DEF RecordTask, Store, Requeue, store
  <2>4. CASE RecordJob
        BY <2>4, PhaseField DEF RecordJob, Store, Requeue, store
  <2>5. CASE EnqueueUpdate
        BY <2>5, PhaseField DEF EnqueueUpdate, Store, Requeue, store
  <2>   QED
        BY <1>0, <1>2, <2>1, <2>2, <2>3, <2>4, <2>5 DEF Reshaping
<1>3. CASE Pooling
  <2>1. CASE Finish
    <3>1. CASE Requeue \/ Go("report")
          BY <3>1 DEF Requeue, Go, store
    <3>2. CASE Store([obj EXCEPT !.phase = "updating"], "report")
          BY <3>2, PhaseField DEF Store
    <3>3. CASE ~work.acted /\ UpdateCopy([local EXCEPT !.phase = "active"], "report", FALSE)
          BY <2>1, <3>3 DEF Finish, UpdateCopy, GiveUp, CopiesAgree
    <3>   QED
          BY <2>1, <3>1, <3>2, <3>3 DEF Finish
  <2>2. CASE Announce
        BY <2>2, PhaseField DEF Announce, Store
  <2>3. CASE UpdateNodePool \/ CreateNodePool \/ DeleteNodePool
        BY <2>3 DEF UpdateNodePool, CreateNodePool, DeleteNodePool, Abandon, store
  <2>4. CASE UpdateCluster \/ CompareNodePools \/ CreatedAll \/ DeletedAll
        BY <2>4 DEF UpdateCluster, CompareNodePools, CreatedAll, DeletedAll, Go, store
  <2>   QED
        BY <1>0, <1>3, <2>1, <2>2, <2>3, <2>4 DEF Pooling
<1>4. CASE CallFails \/ WriteFails \/ Inform \/ Crash
      BY <1>4 DEF CallFails, WriteFails, Inform, Crash, Abandon, GiveUp, store
<1>5. CASE RecordError
  <2>1. Reported(err).phase \in {"updating", local.phase}
        BY DEF Reported, TypeOK, Object
  <2>   QED
        BY <1>5, <2>1 DEF RecordError, CopiesAgree
<1>6. CASE Users \/ RancherAdopts
  <2>0. \A ps : [obj EXCEPT !.pools = ps].phase = obj.phase
        BY DEF TypeOK, Object
  <2>1. CASE UserDeclares \/ UserDuplicates \/ UserUndeclares \/ UserRenames
    <3>1. \E ps : obj' = [obj EXCEPT !.pools = ps]
          BY <2>1 DEF UserDeclares, UserDuplicates, UserUndeclares, UserRenames, Declare, Write
    <3>   QED
          BY <2>0, <3>1
  <2>2. CASE UserReshapes \/ UserEdits
        BY <2>2 DEF UserReshapes, UserEdits, Write, TypeOK, Object
  <2>3. CASE RancherAdopts
    <3>1. obj' = [obj EXCEPT !.made = NoIds, !.pools = [k \in DOMAIN @ |-> Adopted(@[k])]]
          BY <2>3 DEF RancherAdopts, Write
    <3>   QED
          BY <3>1 DEF TypeOK, Object
  <2>   QED
        BY <1>0, <1>6, <2>1, <2>2, <2>3 DEF Users
<1>7. CASE PoolSettles \/ PoolChanges \/ ClusterSettles \/ UNCHANGED vars
      BY <1>7 DEF PoolSettles, PoolChanges, ClusterSettles, store, vars
<1>   QED
      BY <1>1, <1>2, <1>3, <1>4, <1>5, <1>6, <1>7
      DEF Next, Worker, Dispatching, Reshaping, Pooling

(* When the operator writes "active", the cluster and its pools are what    *)
(* Spec says at that moment, however long ago it has read them.             *)
THEOREM ActiveMeant == Spec => ActiveEarned
<1> DEFINE Earned == obj.phase = "updating" /\ obj'.phase = "active"
                       /\ Valid(obj) /\ Untouched({"console", "rename"}) => AsDeclared
<1>1. TypeOK /\ CopiesAgree /\ Steady /\ NameInv /\ CalmInv /\ WantInv /\ [Next]_vars
      => [Earned]_vars
      BY ActiveWritten, CalmEnd
<1>   QED
      BY <1>1, TypeCorrect, CopiesTracked, ClusterSteady, NamesKept, CalmSyncs, PTL
      DEF Spec, ActiveEarned

(* With no key in the queue and a current copy at the informer, nobody has  *)
(* written since the worker took its copy, and every step since then has    *)
(* found what it wants.                                                     *)
Alone == ~queued /\ "cache" \in current

Clear == {"note", "get"} \cup Held

AllDone == /\ obj.phase = "active" /\ obj.task = 0 /\ obj.made = NoIds
           /\ AsDeclared /\ Still

Undisturbed ==
    /\ pc # "idle" => "local" \in current
    /\ pc \notin {"idle", "check", "reject", "report"} => Valid(local)
    /\ pc \in Clear => local.task = 0
    /\ Untouched({"console", "rename"}) /\ (pc = "idle" \/ (pc = "report" /\ ~err)) => AllDone

RestInv == Alone => Undisturbed

(* Each of these ends with a key in the queue or without a current copy.   *)
LEMMA NotAlone ==
    /\ \A o, next : Store(o, next) => ~Alone'
    /\ GiveUp => ~Alone'
    /\ Requeue => ~Alone'
    /\ \A o : Write(o) => ~Alone'
BY DEF Store, GiveUp, Requeue, Write, Alone

LEMMA CopyNotAlone == ASSUME NEW o, NEW next, NEW requeue, UpdateCopy(o, next, requeue) PROVE ~Alone'
BY NotAlone DEF UpdateCopy

LEMMA AbandonRest == ASSUME RestInv, Abandon, pc # "idle" PROVE RestInv'
BY DEF RestInv, Alone, Undisturbed, Abandon, store, Clear, Held, Before, Comparing

(* A step of the worker that only moves on. *)
LEMMA OnwardRest ==
    ASSUME RestInv, UNCHANGED <<store, local, queued>>, pc' \notin {"idle", "report"},
           pc # "idle",
           pc \in {"check", "reject", "report"} => pc' \in {"check", "reject"} \/ Valid(local),
           pc' \in Clear => pc \in Clear \/ local.task = 0
    PROVE  RestInv'
BY DEF RestInv, Alone, Undisturbed, store, Valid

LEMMA DispatchingRest == ASSUME CopiesAgree, RestInv, Dispatching PROVE RestInv'
<1>1. CASE OnCCEConfigChanged
      BY <1>1 DEF OnCCEConfigChanged, RestInv, Alone, Undisturbed, Clear, Held, Before, Comparing
<1>2. CASE CheckCluster
  <2>1. CASE ~Valid(local)
        BY <1>2, <2>1, OnwardRest
        DEF CheckCluster, store, Clear, Held, Before, Comparing
  <2>2. CASE Valid(local)
    <3>1. /\ pc = "check" /\ pc' \in {"task", "wait", "note"}
          /\ pc' = "note" => local.task = 0
          /\ UNCHANGED <<store, local, queued>>
          BY <1>2, <2>2 DEF CheckCluster, Go, store
    <3>   QED
          BY <2>2, <3>1, OnwardRest DEF Clear, Held, Before, Comparing
  <2>   QED
        BY <2>1, <2>2
<1>3. CASE RejectUpdate
      BY <1>3, CopyNotAlone DEF RejectUpdate, RestInv
<1>4. CASE CheckTask
      BY <1>4, CopyNotAlone, NotAlone, AbandonRest DEF CheckTask, RestInv
<1>5. CASE WaitForCloud
      BY <1>5, CopyNotAlone, NotAlone DEF WaitForCloud, RestInv
<1>6. CASE NoteCluster
  <2>1. CASE Go("get")
        BY <1>6, <2>1, OnwardRest DEF NoteCluster, Go, store, Clear, Held, Before, Comparing
  <2>2. CASE UpdateCopy([local EXCEPT !.noted = TRUE], "get", FALSE)
        BY <2>2, CopyNotAlone DEF RestInv
  <2>   QED
        BY <1>6, <2>1, <2>2 DEF NoteCluster
<1>7. CASE GetConfig
  <2>1. CASE queued'
        BY <2>1 DEF RestInv, Alone
  <2>2. CASE pc' = "list" /\ UNCHANGED queued
    <3>1. pc = "get" /\ local' = obj /\ current' = current \cup {"local"} /\ UNCHANGED obj
          BY <1>7 DEF GetConfig
    <3>2. SUFFICES ASSUME Alone' PROVE Undisturbed'
          BY DEF RestInv
    <3>3. Alone
          BY <2>2, <3>1, <3>2 DEF Alone
    <3>4. local = obj /\ Valid(local) /\ local.task = 0
          BY <3>1, <3>3 DEF RestInv, Undisturbed, CopiesAgree, Clear
    <3>   QED
          BY <2>2, <3>1, <3>4 DEF Undisturbed, Valid
  <2>   QED
        BY <1>7, <2>1, <2>2 DEF GetConfig
<1>8. CASE ListNodePools
      BY <1>8, OnwardRest DEF ListNodePools, Go, store, Clear, Held, Before, Comparing
<1>   QED
      BY <1>1, <1>2, <1>3, <1>4, <1>5, <1>6, <1>7, <1>8 DEF Dispatching

LEMMA ReshapingRest == ASSUME RestInv, Reshaping PROVE RestInv'
<1>1. CASE RecordGroup
  <2>1. CASE Go("version")
        BY <1>1, <2>1, OnwardRest DEF RecordGroup, Go, store, Clear, Held, Before, Comparing
  <2>2. CASE UpdateCopy([local EXCEPT !.group = TRUE], "version", FALSE)
        BY <2>2, CopyNotAlone DEF RestInv
  <2>   QED
        BY <1>1, <2>1, <2>2 DEF RecordGroup
<1>2. CASE UpgradeCluster \/ ResizeCluster \/ RefuseDowngrade
  <2>1. pc = "version"
        BY <1>2 DEF UpgradeCluster, ResizeCluster, RefuseDowngrade
  <2>2. Abandon \/ Go("taskRecord") \/ Go("jobRecord")
        BY <1>2 DEF UpgradeCluster, ResizeCluster, RefuseDowngrade, Begin
  <2>   QED
        BY <2>1, <2>2, AbandonRest, OnwardRest DEF Go, store, Clear, Held, Before, Comparing
<1>3. CASE KeepShape
      BY <1>3, OnwardRest DEF KeepShape, Go, store, Clear, Held, Before, Comparing
<1>4. CASE RecordTask \/ RecordJob \/ EnqueueUpdate
      BY <1>4, NotAlone DEF RecordTask, RecordJob, EnqueueUpdate, RestInv
<1>   QED
      BY <1>1, <1>2, <1>3, <1>4 DEF Reshaping

(* A sync that has nothing to report leaves everything done. *)
LEMMA FinishRest ==
    ASSUME TypeOK, CopiesAgree, Steady, ListInv, NameInv, CalmInv, WantInv, RestInv, Finish
    PROVE  RestInv'
<1>1. CASE Requeue \/ Store([obj EXCEPT !.phase = "updating"], "report")
      BY <1>1, NotAlone DEF RestInv
<1>2. CASE UpdateCopy([local EXCEPT !.phase = "active"], "report", FALSE)
      BY <1>2, CopyNotAlone DEF RestInv
<1>3. CASE ~work.acted /\ local.phase = "active" /\ Go("report")
  <2>1. SUFFICES ASSUME Alone' PROVE Undisturbed'
        BY DEF RestInv
  <2>2. /\ Alone /\ pc = "finish" /\ pc' = "report"
        /\ UNCHANGED <<obj, cluster, pools, did, current>>
        BY <1>3, <2>1 DEF Finish, Go, store, Alone, QuietCloud, fabric
  <2>3. "local" \in current /\ local = obj /\ Valid(local) /\ local.task = 0
        BY <2>2 DEF RestInv, Undisturbed, CopiesAgree, Clear, Held
  <2>4. obj.made = NoIds
        BY <1>3, <2>2 DEF WantInv, AsWanted, Held
  <2>5. Untouched({"console", "rename"}) => AllDone
        BY <1>3, <2>2, <2>3, <2>4, CalmEnd DEF AllDone
  <2>6. AllDone' <=> AllDone
        BY <2>2 DEF AllDone, AsDeclared, Existing, Still
  <2>   QED
        BY <2>2, <2>3, <2>5, <2>6 DEF Undisturbed, Untouched, Clear, Held, Before, Comparing
<1>   QED
      BY <1>1, <1>2, <1>3 DEF Finish

LEMMA PoolingRest ==
    ASSUME TypeOK, CopiesAgree, Steady, ListInv, NameInv, CalmInv, WantInv, RestInv, Pooling
    PROVE  RestInv'
<1>1. CASE UpdateCluster \/ CompareNodePools \/ CreatedAll \/ DeletedAll
      BY <1>1, OnwardRest
      DEF UpdateCluster, CompareNodePools, CreatedAll, DeletedAll, Go, store, Clear, Held, Before,
          Comparing
<1>2. CASE UpdateNodePool \/ CreateNodePool \/ DeleteNodePool
      BY <1>2, AbandonRest, OnwardRest
      DEF UpdateNodePool, CreateNodePool, DeleteNodePool, store, Clear, Held, Before, Comparing
<1>3. CASE Announce
      BY <1>3, NotAlone DEF Announce, RestInv
<1>   QED
      BY <1>1, <1>2, <1>3, FinishRest DEF Pooling

LEMMA AroundRest ==
    ASSUME RestInv, CallFails \/ WriteFails \/ RecordError \/ Inform \/ Crash PROVE RestInv'
<1>1. CASE CallFails
      BY <1>1, AbandonRest DEF CallFails
<1>2. CASE WriteFails
      BY <1>2, NotAlone DEF WriteFails, RestInv
<1>3. CASE Inform \/ Crash
      BY <1>3 DEF Inform, Crash, RestInv, Alone
<1>4. CASE RecordError
  <2>1. SUFFICES ASSUME Alone' PROVE Undisturbed'
        BY DEF RestInv
  <2>2. ~EndSync({})
        BY <2>1 DEF EndSync, Alone
  <2>3. EndSync(current) /\ UNCHANGED <<obj, cluster, pools, did>>
        BY <1>4, <2>2 DEF RecordError, fabric
  <2>4. Alone /\ ~err /\ pc = "report"
        BY <1>4, <2>1, <2>3 DEF RecordError, EndSync, Alone
  <2>5. AllDone' <=> AllDone
        BY <2>3 DEF AllDone, AsDeclared, Existing, Still
  <2>   QED
        BY <2>3, <2>4, <2>5
        DEF RestInv, Undisturbed, Untouched, EndSync, Clear, Held, Before, Comparing
<1>   QED
      BY <1>1, <1>2, <1>3, <1>4

(* What the cloud does by itself cannot undo what is done. *)
LEMMA CloudRest ==
    ASSUME TypeOK, RestInv, PoolSettles \/ PoolChanges \/ ClusterSettles PROVE RestInv'
<1>1. /\ UNCHANGED <<obj, local, pc, err, queued, current>> /\ did \subseteq did'
      BY DEF PoolSettles, PoolChanges, ClusterSettles, store, worker, Edit
<1>2. ASSUME AllDone, "console" \notin did' PROVE AllDone'
  <2>1. CASE ClusterSettles
        BY <1>2, <2>1 DEF ClusterSettles, AllDone, AsDeclared
  <2>2. CASE PoolSettles \/ PoolChanges
    <3>1. PICK i \in Ids, state \in Here \ {"deleting"} :
             /\ pools[i].state \in Here
             /\ pools' = [pools EXCEPT ![i].state = state]
          BY <1>2, <2>2 DEF PoolSettles, PoolChanges, Become, Edit, AllDone, Still, Here
    <3>2. Existing' = Existing /\ Still'
          BY <1>2, <3>1 DEF TypeOK, NodePool, Existing, AllDone, Still
    <3>3. UNCHANGED <<obj, cluster>>
          BY <1>1, <2>2 DEF PoolSettles, PoolChanges
    <3>   QED
          BY <1>2, <3>2, <3>3 DEF AllDone, AsDeclared
  <2>   QED
        BY <2>1, <2>2
<1>   QED
      BY <1>1, <1>2 DEF RestInv, Alone, Undisturbed, Untouched, Valid

LEMMA OutsideRest == ASSUME RestInv, Users \/ RancherAdopts \/ UNCHANGED vars PROVE RestInv'
<1>1. CASE Users \/ RancherAdopts
  <2>1. current' = {}
        BY <1>1 DEF Users, RancherAdopts, UserDeclares, UserDuplicates, UserUndeclares,
                    UserRenames, UserReshapes, UserEdits, Declare, Write
  <2>   QED
        BY <2>1 DEF RestInv, Alone
<1>2. CASE UNCHANGED vars
  <2>1. UNCHANGED <<obj, local, pc, err, queued, current, cluster, pools, did>>
        BY <1>2 DEF vars, store, worker, fabric
  <2>2. AllDone' <=> AllDone
        BY <2>1 DEF AllDone, AsDeclared, Existing, Still
  <2>   QED
        BY <2>1, <2>2 DEF RestInv, Alone, Undisturbed, Untouched, Valid
<1>   QED
      BY <1>1, <1>2

LEMMA RestKnown == Spec => []RestInv
<1>1. Init => RestInv
      BY DEF Init, RestInv, Alone
<1>2. /\ TypeOK /\ CopiesAgree /\ Steady /\ ListInv /\ NameInv /\ CalmInv /\ WantInv
      /\ RestInv /\ [Next]_vars
      => RestInv'
  <2> SUFFICES ASSUME TypeOK, CopiesAgree, Steady, ListInv, NameInv, CalmInv, WantInv, RestInv,
                      [Next]_vars
               PROVE  RestInv'
      OBVIOUS
  <2>1. CASE Dispatching \/ Reshaping \/ Pooling
        BY <2>1, DispatchingRest, ReshapingRest, PoolingRest
  <2>2. CASE CallFails \/ WriteFails \/ RecordError \/ Inform \/ Crash
        BY <2>2, AroundRest
  <2>3. CASE \/ Users \/ RancherAdopts \/ PoolSettles \/ PoolChanges \/ ClusterSettles
             \/ UNCHANGED vars
        BY <2>3, OutsideRest, CloudRest
  <2>   QED
        BY <2>1, <2>2, <2>3 DEF Next, Worker, Dispatching, Reshaping, Pooling
<1>   QED
      BY <1>1, <1>2, TypeCorrect, CopiesTracked, ClusterSteady, ListTrue, NamesKept, CalmSyncs,
         PTL DEF Spec

(* The operator does not come to rest before its work is done: no error,    *)
(* wait, conflict or lost write ends a sync without a key in the queue or   *)
(* an event on its way.                                                     *)
THEOREM RestEarned == Spec => []QuietMeansDone
<1>1. RestInv => QuietMeansDone
      BY DEF RestInv, Alone, Undisturbed, AllDone, QuietMeansDone, Quiet
<1>   QED
      BY <1>1, RestKnown, PTL
=============================================================================
