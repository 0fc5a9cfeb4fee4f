----------------------------- MODULE LedgerProofs -----------------------------
(* Proof that Provision implements Ledger, and of what that rests on.       *)
EXTENDS ProvisionProofs

(* The informer's copy tells running from new, though it may be behind, so  *)
(* nothing is made for a configuration that is ready.                       *)
PhaseKnown ==
    /\ cache.phase # "" => obj.phase # ""
    /\ obj.phase = "running" => cache.phase # ""
    /\ pc \in {"wait", "setRunning"} => cache.phase # ""
    /\ pc \in CreateSteps \cup {"validate"} => obj.phase # "running"

PhaseEarned == pc \in {"adopt", "phaseRecord"} => obj.made["cluster"] # None

FinalizerFirst == obj.deleting => obj.finalizer

(* Nothing is made for a configuration that has departed. *)
Alive == pc \in CreateSteps => ~Removed

DeletedByUs == \A i \in Ids : cloud[<<"cluster", i>>] = "deleting" => obj.deleting

(* What a write is about to record is there. *)
Handed ==
    /\ \A k \in Kinds : held[k] # None => cloud[<<k, held[k]>>] \in {"creating", "live", "failed"}
    /\ pc = "eipRecord" => held["eip"] # None
    /\ pc \in {"netStatus", "netSpec"} => held["subnet"] # None
    /\ pc = "snatEipRecord" => held["snatEip"] # None
    /\ pc = "snatRecord" => held["snat"] # None
    /\ pc = "clusterRecord" => held["cluster"] # None

ReadyCluster ==
    pc = "setRunning" => /\ local.made["cluster"] # None
                         /\ cloud[<<"cluster", local.made["cluster"]>>] = "live"

(* The removal looks a rule up by its gateway: the recorded rule is one of  *)
(* the recorded gateway's.                                                  *)
InGateway(i) ==
    Exists(<<"snat", i>>) => <<<<"snat", i>>, <<"nat", obj.made["nat"]>>>> \in uses

RuleInGateway ==
    /\ InGateway(obj.made["snat"]) /\ InGateway(held["snat"])
    /\ pc = "natRecord" => obj.made["nat"] = None

(* What holds at every step, and the steps that need no more than that. *)
Core ==
    /\ cache.phase # "" => obj.phase # ""
    /\ obj.phase = "running" => cache.phase # ""
    /\ CreatingHasCluster /\ FinalizerFirst /\ DeletedByUs
    /\ InGateway(obj.made["snat"])

LedgerInv ==
    /\ PhaseKnown /\ PhaseEarned /\ CreatingHasCluster
    /\ FinalizerFirst /\ Alive /\ DeletedByUs
    /\ Handed /\ ReadyCluster /\ RuleInGateway

PlainSteps == Steps \ (CreateSteps \cup {"setRunning"})

Entering ==
    /\ pc = "wait" => cache.phase # ""
    /\ pc = "validate" => obj.phase # "running"

Facts == TypeOK /\ Tracked /\ InHand /\ RemovalInv

(* A step of the ledger, or none; and the phases go forward only. *)
BookStep == [Book!Next]_<<Stage, Named, Owned>>

Forward ==
    /\ obj.phase = "running" => obj'.phase = "running"
    /\ obj.phase = "creating" => obj'.phase # ""

-----------------------------------------------------------------------------
LEMMA InvCore == ASSUME LedgerInv PROVE Core
BY DEF LedgerInv, Core, PhaseKnown, RuleInGateway

LEMMA PlainLedger ==
    ASSUME TypeOK', InHand', Core', Entering', pc' \in PlainSteps PROVE LedgerInv'
<1>1. held' = [k \in Kinds |-> None]
      BY DEF InHand, HeldByStep, TypeOK, PlainSteps, CreateSteps, RecordSteps, Kinds
<1>2. \A k \in Kinds : held'[k] = None
      BY <1>1
<1>3. held'["snat"] = None
      BY <1>2 DEF Kinds
<1>4. Handed'
      BY <1>2 DEF Handed, PlainSteps, CreateSteps, RecordSteps
<1>5. InGateway(held["snat"])'
      BY <1>3, IdsAssumption DEF InGateway, Exists, Res
<1>6. RuleInGateway'
      BY <1>5 DEF RuleInGateway, Core, PlainSteps, CreateSteps, RecordSteps
<1>   QED
      BY <1>4, <1>6 DEF LedgerInv, Core, Entering, PhaseKnown, PhaseEarned, Alive, ReadyCluster, PlainSteps,
                        CreateSteps, RecordSteps

(* The object is as before in what the ledger is about. *)
SameEntry ==
    /\ obj'.made = obj.made /\ obj'.phase = obj.phase
    /\ obj'.exists = obj.exists /\ obj'.deleting = obj.deleting
    /\ obj'.finalizer = obj.finalizer \/ (obj'.finalizer /\ obj.exists)

LEMMA EntryStill ==
    ASSUME TypeOK, TypeOK', SameEntry, UNCHANGED cloud
    PROVE  BookStep /\ Forward
<1>1. Stage' = Stage
      BY DEF SameEntry, Stage
<1>2. Named' = Named /\ Owned' = Owned
      BY DEF SameEntry, Named, Owned
<1>3. Forward
      BY DEF SameEntry, Forward
<1>   QED
      BY <1>1, <1>2, <1>3 DEF BookStep

LEMMA CoreStill ==
    ASSUME Core, SameEntry, UNCHANGED <<cloud, uses>>,
           cache' = cache \/ (cache' = obj /\ obj' = obj)
    PROVE  Core'
BY DEF Core, SameEntry, CreatingHasCluster, FinalizerFirst, DeletedByUs, InGateway, Exists

-----------------------------------------------------------------------------
(* The ledger, entry by entry.                                             *)

LEMMA NamedAt ==
    ASSUME TypeOK
    PROVE  /\ \A k \in Kinds, i \in Ids \cup {None} :
                 <<k, i>> \in Named <=> i = obj.made[k] /\ i # None
           /\ \A r \in Named : r = <<r[1], r[2]>> /\ r[1] \in Kinds /\ r[2] \in Ids
BY IdsAssumption DEF Named, TypeOK, Object

LEMMA OwnedAt ==
    ASSUME TypeOK
    PROVE  /\ \A k \in Kinds, i \in Ids : <<k, i>> \in Owned <=> cloud[<<k, i>>] \in Here
           /\ \A r \in Owned : r = <<r[1], r[2]>> /\ r[1] \in Kinds /\ r[2] \in Ids
BY IdsAssumption DEF Owned, Res

LEMMA RequestMakes ==
    ASSUME TypeOK, NEW k \in Kinds, NEW state \in {"creating", "live"}, NEW parents, NEW next,
           Request(k, state, parents, next),
           Stage \in {"wanted", "ending", "dropped"}, SameEntry
    PROVE  BookStep /\ Forward
<1> DEFINE i == NewId(k)
<1>1. i \in Ids /\ cloud[<<k, i>>] = "none"
      BY NewIdFresh DEF Request
<1>2. cloud' = [cloud EXCEPT ![<<k, i>>] = state]
      BY DEF Request
<1>3. <<k, i>> \in Res /\ <<k, i>>[2] # User
      BY <1>1, IdsAssumption DEF Res
<1> HIDE DEF i
<1>4. cloud' = [r \in Res |-> IF r = <<k, i>> THEN state ELSE cloud[r]]
      BY <1>2, <1>3 DEF TypeOK
<1>5. state \in Here /\ "none" \notin Here
      BY DEF Here
<1>6. Owned' = Owned \cup {<<k, i>>} /\ <<k, i>> \notin Owned
      BY <1>1, <1>3, <1>4, <1>5 DEF Owned
<1>7. Stage' = Stage /\ Named' = Named
      BY DEF SameEntry, Stage, Named
<1>8. <<k, i>> \in Book!Things \ Owned
      BY <1>1, <1>6 DEF Book!Things
<1>9. Book!Make
      BY <1>6, <1>7, <1>8 DEF Book!Make
<1>   QED
      BY <1>9 DEF BookStep, Book!Next, SameEntry, Forward

(* A write that names things which are there, instead of what it named for *)
(* their kinds.                                                            *)
LEMMA RecordEnters ==
    ASSUME TypeOK, TypeOK', UNCHANGED cloud, Stage \in {"wanted", "ending"}, Stage' = Stage, Forward,
           \A k \in Kinds : \/ obj'.made[k] = obj.made[k]
                            \/ obj'.made[k] \in Ids /\ cloud[<<k, obj'.made[k]>>] \in Here
    PROVE  BookStep /\ Forward
<1>1. Owned' = Owned
      BY DEF Owned
<1>2. \A r \in Named' : r = <<r[1], r[2]>> /\ r[1] \in Kinds /\ r[2] \in Ids /\ r[2] = obj'.made[r[1]]
      BY IdsAssumption DEF Named, TypeOK, Object
<1>3. Named' \subseteq Named \cup Owned
  <2> SUFFICES ASSUME NEW r \in Named' PROVE r \in Named \cup Owned
      OBVIOUS
  <2> DEFINE k == r[1]
             i == r[2]
  <2>1. r = <<k, i>> /\ k \in Kinds /\ i \in Ids /\ i = obj'.made[k] /\ i # None
        BY <1>2, IdsAssumption
  <2> HIDE DEF k, i
  <2>2. CASE obj'.made[k] = obj.made[k]
        BY <2>1, <2>2, NamedAt
  <2>3. CASE cloud[<<k, obj'.made[k]>>] \in Here
        BY <2>1, <2>3, OwnedAt
  <2>   QED
        BY <2>1, <2>2, <2>3
<1>4. ASSUME NEW r \in Named \ Named'
      PROVE  \E s \in Named' \ Named : s[1] = r[1]
  <2> DEFINE k == r[1]
             i == r[2]
             s == <<k, obj'.made[k]>>
  <2>1. r = <<k, i>> /\ k \in Kinds /\ i \in Ids /\ i = obj.made[k]
        BY <1>4, NamedAt
  <2>2. \A j \in Ids \cup {None} : <<k, j>> \in Named' <=> j = obj'.made[k] /\ j # None
        BY <2>1, IdsAssumption DEF Named, TypeOK, Object
  <2> HIDE DEF k, i
  <2>3. i # obj'.made[k]
        BY <1>4, <2>1, <2>2, IdsAssumption
  <2>4. obj'.made[k] \in Ids
        BY <2>1, <2>3
  <2>5. s \in Named' /\ s \notin Named
        BY <2>1, <2>2, <2>3, <2>4, NamedAt, IdsAssumption
  <2>   QED
        BY <2>5 DEF k
<1>5. Book!Enter
      BY <1>1, <1>3, <1>4 DEF Book!Enter
<1>   QED
      BY <1>5 DEF BookStep, Book!Next

-----------------------------------------------------------------------------
(* One lemma per group of actions.                                         *)

LEMMA StillGood ==
    ASSUME Facts, Facts', LedgerInv, SameEntry, UNCHANGED <<cloud, uses>>,
           cache' = cache \/ (cache' = obj /\ obj' = obj),
           Entering', pc' \in PlainSteps
    PROVE  LedgerInv' /\ BookStep /\ Forward
BY EntryStill, InvCore, CoreStill, PlainLedger DEF Facts

LEMMA LocalStored ==
    ASSUME Facts, "local" \in current PROVE local = obj /\ obj.exists
BY DEF Facts, Tracked, CopiesAgree, RemovalInv, GoneForGood

LEMMA SyncLedger ==
    ASSUME Facts, Facts', LedgerInv,
           \/ OnCCEConfigChanged \/ RecordError \/ SyncEndFails
           \/ AddFinalizer \/ RemoveAtOnce
    PROVE  LedgerInv' /\ BookStep /\ Forward
<1> USE DEF PlainSteps, CreateSteps, RecordSteps
<1>1. UNCHANGED <<cloud, uses, cache>>
      BY DEF OnCCEConfigChanged, RecordError, SyncEndFails, AddFinalizer, RemoveAtOnce,
             SaveMessage, Stay, Store, Quiet, fabric
<1>2. CASE OnCCEConfigChanged
  <2>1. obj' = obj /\ pc' = Dispatch(cache)
        BY <1>2 DEF OnCCEConfigChanged, Proceed
  <2>2. cache \in Object
        BY DEF Facts, TypeOK
  <2>3. /\ Dispatch(cache) \in {"idle", "clear", "validate", "wait", "report"}
        /\ Dispatch(cache) = "wait" => cache.phase # ""
        /\ Dispatch(cache) = "validate" => cache.phase = ""
        BY <2>2 DEF Dispatch, Object, Phases
  <2>4. Entering'
        BY <1>1, <2>1, <2>3 DEF Entering, LedgerInv, PhaseKnown
  <2>5. SameEntry /\ pc' \in PlainSteps
        BY <2>1, <2>3 DEF SameEntry, Steps, RemoveSteps
  <2>   QED
        BY <1>1, <2>4, <2>5, StillGood
<1>3. ASSUME NEW e \in BOOLEAN, NEW next, NEW fallback, SaveMessage(e, next, fallback)
      PROVE  SameEntry /\ pc' \in {next, fallback}
  <2>1. CASE "local" \in current /\ Store([local EXCEPT !.failed = e], next)
    <3>1. local = obj /\ local \in Object
          BY <2>1, LocalStored DEF Facts, TypeOK
    <3>2. obj' = [obj EXCEPT !.failed = e] /\ pc' = next
          BY <2>1, <3>1 DEF Store, Proceed
    <3>   QED
          BY <3>1, <3>2 DEF SameEntry, Object
  <2>2. CASE Stay(next) \/ Stay(fallback)
        BY <2>2 DEF Stay, Proceed, SameEntry
  <2>   QED
        BY <1>3, <2>1, <2>2 DEF SaveMessage
<1>4. CASE RecordError
  <2>1. err \in BOOLEAN
        BY DEF Facts, TypeOK
  <2>2. CASE pc = "report" /\ SaveMessage(err, "finalizer", "lost")
    <3>1. SameEntry /\ pc' \in {"finalizer", "lost"}
          BY <1>3, <2>1, <2>2
    <3>   QED
          BY <1>1, <3>1, StillGood DEF Entering, Steps
  <2>3. CASE /\ pc = "clear"
             /\ LET next == IF local.finalizer THEN "ensure" ELSE "idle"
                IN  SaveMessage(FALSE, next, next)
    <3>1. PICK next \in {"ensure", "idle"} : SaveMessage(FALSE, next, next)
          BY <2>3
    <3>2. SameEntry /\ pc' \in {"ensure", "idle"}
          BY <1>3, <3>1
    <3>   QED
          BY <1>1, <3>2, StillGood DEF Entering, Steps, RemoveSteps
  <2>   QED
        BY <1>4, <2>2, <2>3 DEF RecordError
<1>5. CASE SyncEndFails \/ RemoveAtOnce
  <2>1. obj' = obj /\ pc' \in {"lost", "idle", "ensure"}
        BY <1>5 DEF SyncEndFails, RemoveAtOnce, Stay, Proceed
  <2>   QED
        BY <1>1, <2>1, StillGood DEF Entering, SameEntry, Steps, RemoveSteps
<1>6. CASE AddFinalizer
  <2>1. pc' = "idle"
        BY <1>6 DEF AddFinalizer, Store, Stay, Proceed
  <2>2. SameEntry
    <3>1. CASE Stay("idle")
          BY <3>1 DEF Stay, SameEntry
    <3>2. CASE /\ \E copy \in {"given", "local"} : copy \in current
               /\ Store([obj EXCEPT !.finalizer = TRUE], "idle")
      <4>1. obj.exists /\ obj \in Object
            BY <3>2 DEF Facts, RemovalInv, GoneForGood, TypeOK
      <4>2. obj' = [obj EXCEPT !.finalizer = TRUE]
            BY <3>2 DEF Store
      <4>   QED
            BY <4>1, <4>2 DEF SameEntry, Object
    <3>   QED
          BY <1>6, <3>1, <3>2 DEF AddFinalizer
  <2>   QED
        BY <1>1, <2>1, <2>2, StillGood DEF Entering, Steps
<1>   QED
      BY <1>2, <1>4, <1>5, <1>6

(* Steps that leave the worker alone. *)
LEMMA AsideLedger ==
    ASSUME LedgerInv, Core', UNCHANGED <<pc, local, held>>,
           cache'.phase # "" \/ cache'.phase = cache.phase,
           obj'.made = obj.made, obj'.phase = obj.phase, Removed' => Removed,
           \A i \in Ids : \A k \in Kinds :
               cloud[<<k, i>>] \in {"creating", "live", "failed"} =>
                   cloud'[<<k, i>>] \in {"creating", "live", "failed"},
           \A i \in Ids : cloud[<<"cluster", i>>] = "live" => cloud'[<<"cluster", i>>] = "live",
           InGateway(held["snat"])', TypeOK, TypeOK'
    PROVE  LedgerInv'
<1>1. held \in [Kinds -> Ids \cup {None}] /\ local.made \in [Kinds -> Ids \cup {None}]
      BY DEF TypeOK, Object
<1>2. Handed'
      BY <1>1, IdsAssumption DEF LedgerInv, Handed
<1>3. ReadyCluster'
      BY <1>1 DEF LedgerInv, ReadyCluster, Kinds
<1>   QED
      BY <1>2, <1>3 DEF LedgerInv, Core, PhaseKnown, PhaseEarned, Alive, RuleInGateway

LEMMA EndingStage == ASSUME LedgerInv, TypeOK, obj.deleting PROVE Stage \in {"ending", "gone"}
BY DEF LedgerInv, FinalizerFirst, Stage

(* Things leave the cloud for good. *)
LEMMA VanishLeaves ==
    ASSUME TypeOK, TypeOK', LedgerInv, obj.deleting, SameEntry, NEW R, Vanish(R)
    PROVE  BookStep /\ Forward
<1>1. Owned' \subseteq Owned
      BY DEF Vanish, Owned, Here
<1>2. Stage' = Stage /\ Named' = Named
      BY DEF SameEntry, Stage, Named
<1>3. Book!Leave
      BY <1>1, <1>2, EndingStage DEF Book!Leave
<1>   QED
      BY <1>3 DEF BookStep, Book!Next, SameEntry, Forward

LEMMA EnvironmentLedger ==
    ASSUME Facts, Facts', LedgerInv, Environment
    PROVE  LedgerInv' /\ BookStep /\ Forward
<1>1. TypeOK /\ TypeOK' /\ Core
      BY InvCore DEF Facts
<1>2. CASE Inform \/ UserEdits \/ NodesChange \/ NodesSettle
  <2>1. /\ obj' = obj /\ UNCHANGED <<pc, local, held, cloud, uses>>
        /\ cache' = cache \/ cache' = obj
        BY <1>2 DEF Inform, UserEdits, NodesChange, NodesSettle, store, worker, fabric
  <2>2. SameEntry
        BY <2>1 DEF SameEntry
  <2>3. Core'
        BY <1>1, <2>1, <2>2, CoreStill
  <2>4. cache'.phase # "" \/ cache'.phase = cache.phase
        BY <2>1 DEF LedgerInv, PhaseKnown
  <2>5. InGateway(held["snat"])'
        BY <2>1 DEF LedgerInv, RuleInGateway, InGateway, Exists
  <2>6. LedgerInv'
        BY <1>1, <2>1, <2>3, <2>4, <2>5, AsideLedger DEF Removed
  <2>   QED
        BY <1>1, <2>1, <2>2, <2>6, EntryStill
<1>3. CASE UserDeletes
  <2>1. /\ obj.exists /\ ~obj.deleting
        /\ obj'.made = obj.made /\ obj'.phase = obj.phase /\ obj'.finalizer = obj.finalizer
        /\ IF obj.finalizer THEN obj'.deleting /\ obj'.exists ELSE ~obj'.exists /\ ~obj'.deleting
        /\ UNCHANGED <<cache, pc, local, held, cloud, uses>>
        BY <1>1, <1>3 DEF UserDeletes, worker, fabric, TypeOK, Object
  <2>2. Core'
        BY <1>1, <2>1 DEF Core, CreatingHasCluster, FinalizerFirst, DeletedByUs, InGateway, Exists
  <2>3. InGateway(held["snat"])'
        BY <2>1 DEF LedgerInv, RuleInGateway, InGateway, Exists
  <2>4. LedgerInv'
        BY <1>1, <2>1, <2>2, <2>3, AsideLedger DEF Removed
  <2>5. Named' = Named /\ Owned' = Owned
        BY <2>1 DEF Named, Owned
  <2>6. Stage \in {"wanted", "ready"} /\ Stage' \in {"ending", "dropped"}
        BY <2>1 DEF Stage
  <2>7. Book!End
        BY <2>5, <2>6 DEF Book!End
  <2>   QED
        BY <2>1, <2>4, <2>7 DEF BookStep, Book!Next, Forward
<1>4. CASE ClusterSettles
  <2>1. PICK i \in Ids, s \in {"live", "failed"} :
             /\ cloud[<<"cluster", i>>] = "creating"
             /\ cloud' = [cloud EXCEPT ![<<"cluster", i>>] = s]
        BY <1>4 DEF ClusterSettles
  <2>2. cloud' = [r \in Res |-> IF r = <<"cluster", i>> THEN s ELSE cloud[r]]
        BY <1>1, <2>1 DEF TypeOK
  <2>3. UNCHANGED <<obj, cache, pc, local, held, uses>>
        BY <1>4 DEF ClusterSettles, store, worker
  <2>4. \A r \in Res : /\ cloud'[r] \in Here <=> cloud[r] \in Here
                       /\ cloud'[r] = "deleting" => cloud[r] = "deleting"
        BY <2>1, <2>2 DEF Here
  <2>5. Core' /\ InGateway(held["snat"])'
    <3>1. DeletedByUs'
          BY <1>1, <2>3, <2>4 DEF Core, DeletedByUs, Res, Kinds
    <3>   QED
          BY <1>1, <2>3, <2>4, <3>1 DEF Core, CreatingHasCluster, FinalizerFirst, InGateway, Exists,
                                        LedgerInv, RuleInGateway
  <2>6. \A j \in Ids, k \in Kinds : <<k, j>> \in Res
        BY DEF Res
  <2>7. LedgerInv'
    <3>1. \A j \in Ids : \A k \in Kinds :
              cloud[<<k, j>>] \in {"creating", "live", "failed"} =>
                  cloud'[<<k, j>>] \in {"creating", "live", "failed"}
          BY <2>1, <2>2, <2>6
    <3>2. \A j \in Ids : cloud[<<"cluster", j>>] = "live" => cloud'[<<"cluster", j>>] = "live"
          BY <2>1, <2>2, <2>6 DEF Kinds
    <3>   QED
          BY <1>1, <2>3, <2>5, <3>1, <3>2, AsideLedger DEF Removed
  <2>8. Owned' = Owned /\ Named' = Named /\ Stage' = Stage
        BY <2>3, <2>4 DEF Owned, Named, Stage
  <2>   QED
        BY <2>3, <2>7, <2>8 DEF BookStep, Forward
<1>5. CASE ClusterVanishes
  <2>1. PICK i \in Ids : cloud[<<"cluster", i>>] = "deleting" /\ Vanish({<<"cluster", i>>})
        BY <1>5 DEF ClusterVanishes
  <2>2. /\ cloud' = [r \in Res |-> IF r = <<"cluster", i>> THEN "gone" ELSE cloud[r]]
        /\ uses' = {u \in uses : u[1] # <<"cluster", i>>}
        BY <2>1 DEF Vanish
  <2>3. UNCHANGED <<obj, cache, pc, local, held>> /\ obj.deleting
        BY <1>5, <2>1 DEF ClusterVanishes, store, worker, LedgerInv, DeletedByUs
  <2>4. \A j \in Ids, k \in Kinds : <<k, j>> \in Res
        BY DEF Res
  <2>5. \A j : InGateway(j) => InGateway(j)'
        BY <2>2, <2>3 DEF InGateway, Exists, Here
  <2>6. Core' /\ InGateway(held["snat"])'
        BY <1>1, <2>3, <2>5 DEF Core, CreatingHasCluster, FinalizerFirst, DeletedByUs,
                                LedgerInv, RuleInGateway
  <2>7. LedgerInv'
    <3>1. \A j \in Ids : \A k \in Kinds :
              cloud[<<k, j>>] \in {"creating", "live", "failed"} =>
                  cloud'[<<k, j>>] \in {"creating", "live", "failed"}
          BY <2>1, <2>2, <2>4
    <3>2. \A j \in Ids : cloud[<<"cluster", j>>] = "live" => cloud'[<<"cluster", j>>] = "live"
          BY <2>1, <2>2, <2>4 DEF Kinds
    <3>   QED
          BY <1>1, <2>3, <2>6, <3>1, <3>2, AsideLedger DEF Removed
  <2>8. SameEntry
        BY <2>3 DEF SameEntry
  <2>   QED
        BY <1>1, <2>1, <2>3, <2>7, <2>8, VanishLeaves
<1>6. CASE Crash
  <2>1. obj' = obj /\ cache' = obj /\ pc' = "idle" /\ UNCHANGED <<cloud, uses>>
        BY <1>6 DEF Crash, Proceed, fabric
  <2>   QED
        BY <2>1, StillGood DEF SameEntry, Entering, PlainSteps, Steps, CreateSteps, RecordSteps
<1>   QED
      BY <1>2, <1>3, <1>4, <1>5, <1>6 DEF Environment

-----------------------------------------------------------------------------
(* The removal.                                                            *)

LEMMA GatewayKept == ASSUME NEW R, Vanish(R), obj' = obj, NEW i, InGateway(i) PROVE InGateway(i)'
BY DEF Vanish, InGateway, Exists, Here

(* Entries whose things have left the cloud are struck out. *)
LEMMA StrikeGood ==
    ASSUME Facts, Facts', LedgerInv, UNCHANGED <<cloud, uses, cache>>, pc' \in PlainSteps, Entering',
           obj.exists, obj.deleting, obj'.exists, obj'.deleting,
           obj'.phase = obj.phase, obj'.finalizer = obj.finalizer,
           \A k \in Kinds : \/ obj'.made[k] = obj.made[k]
                            \/ obj'.made[k] = None /\ ~Exists(<<k, obj.made[k]>>),
           obj'.made["nat"] = obj.made["nat"] \/ obj'.made["snat"] = None
    PROVE  LedgerInv' /\ BookStep /\ Forward
<1>1. TypeOK /\ TypeOK' /\ Core
      BY InvCore DEF Facts
<1>2. Owned' = Owned
      BY DEF Owned
<1>3. \A r \in Named' : r \in Named
  <2> SUFFICES ASSUME NEW r \in Named' PROVE r \in Named
      OBVIOUS
  <2>1. PICK k \in Kinds : r = <<k, obj'.made[k]>> /\ obj'.made[k] # None
        BY DEF Named
  <2>2. obj'.made[k] = obj.made[k] /\ obj.made[k] \in Ids \cup {None}
        BY <1>1, <2>1 DEF TypeOK, Object
  <2>   QED
        BY <2>1, <2>2 DEF Named
<1>4. \A r \in Named \ Named' : r \notin Owned
  <2> SUFFICES ASSUME NEW r \in Named \ Named' PROVE r \notin Owned
      OBVIOUS
  <2>1. PICK k \in Kinds : r = <<k, obj.made[k]>> /\ obj.made[k] # None
        BY DEF Named
  <2>2. obj'.made[k] # obj.made[k]
        BY <2>1 DEF Named
  <2>   QED
        BY <2>1, <2>2 DEF Owned, Exists
<1>5. Stage = "ending" /\ Stage' = "ending"
      BY DEF Stage
<1>6. Book!StrikeOut
      BY <1>2, <1>3, <1>4, <1>5 DEF Book!StrikeOut
<1>7. InGateway(obj.made["snat"])'
  <2>1. CASE obj'.made["snat"] = None
        BY <2>1, IdsAssumption DEF InGateway, Exists, Res
  <2>2. CASE obj'.made["snat"] # None
    <3>1. obj'.made["snat"] = obj.made["snat"] /\ obj'.made["nat"] = obj.made["nat"]
          BY <2>2 DEF Kinds
    <3>   QED
          BY <1>1, <3>1 DEF Core, InGateway, Exists
  <2>   QED
        BY <2>1, <2>2
<1>8. Core'
      BY <1>1, <1>7 DEF Core, CreatingHasCluster, FinalizerFirst, DeletedByUs
<1>   QED
      BY <1>6, <1>8, PlainLedger DEF BookStep, Book!Next, Forward, Facts

(* A write of the removal is about the stored object, or there is none. *)
LEMMA UpdateStored ==
    ASSUME Facts, NEW o, NEW next, UpdateOrGiveUp(o, next)
    PROVE  /\ UNCHANGED cache
           /\ \/ local = obj /\ obj.exists /\ obj' = o /\ pc' = next
              \/ obj' = obj /\ pc' = "idle"
<1>1. CASE "local" \in current /\ Store(o, next)
      BY <1>1, LocalStored DEF Store, Proceed
<1>2. CASE GiveUp
      BY <1>2 DEF GiveUp, Stay, Proceed
<1>   QED
      BY <1>1, <1>2 DEF UpdateOrGiveUp

LEMMA RemovingLedger ==
    ASSUME Facts, Facts', LedgerInv, Removing
    PROVE  LedgerInv' /\ BookStep /\ Forward
<1>1. TypeOK /\ TypeOK' /\ Core
      BY InvCore DEF Facts
<1>2. pc \in RemoveSteps /\ pc' \in RemoveSteps \cup {"idle"}
      BY DEF Removing, EnsureDeletable, DeleteCCECluster, ClearExternalIP, DeleteSnatRules,
             DeleteEndpointService, DeleteNetworkResource, ForgetNetworkResource, CleanupDone,
             RemoveFinalizer, RemoveFails, UpdateOrGiveUp, GiveUp, Store, Stay, Proceed, RemoveSteps
<1>3. pc' \in PlainSteps /\ Entering'
      BY <1>2 DEF PlainSteps, Steps, CreateSteps, RecordSteps, RemoveSteps, Entering
<1>4. obj.deleting
      BY <1>2 DEF Facts, Tracked, DeletionKept
<1>5. /\ obj \in Object /\ obj.made \in [Kinds -> Ids \cup {None}]
      /\ Kinds = {"eip", "vpc", "subnet", "nat", "snatEip", "snat", "cluster"}
      BY <1>1 DEF TypeOK, Object, Kinds
<1>6. ASSUME obj' = obj, cache' = cache, UNCHANGED <<cloud, uses>>
      PROVE  LedgerInv' /\ BookStep /\ Forward
      BY <1>3, <1>6, StillGood DEF SameEntry
<1>7. ASSUME NEW R, Vanish(R), obj' = obj, cache' = cache
      PROVE  LedgerInv' /\ BookStep /\ Forward
  <2>1. InGateway(obj.made["snat"])'
    <3>1. InGateway(obj.made["snat"])
          BY <1>1 DEF Core
    <3>   QED
          BY <1>7, <3>1, GatewayKept
  <2>2. Core'
        BY <1>1, <1>4, <1>7, <2>1 DEF Core, CreatingHasCluster, FinalizerFirst, DeletedByUs
  <2>   QED
        BY <1>1, <1>3, <1>4, <1>7, <2>2, PlainLedger, VanishLeaves DEF Facts, SameEntry
<1>8. CASE EnsureDeletable \/ CleanupDone \/ DeleteEndpointService \/ RemoveFails
  <2>1. obj' = obj /\ cache' = cache /\ UNCHANGED <<cloud, uses>>
        BY <1>8 DEF EnsureDeletable, CleanupDone, DeleteEndpointService, RemoveFails, GiveUp, Stay,
                    store, fabric
  <2>   QED
        BY <1>6, <2>1
<1>9. CASE DeleteCCECluster
  <2>1. uses' = uses
        BY <1>9 DEF DeleteCCECluster
  <2>2. CASE UNCHANGED <<store, cloud>>
        BY <1>6, <2>1, <2>2 DEF store
  <2>3. CASE /\ ~Exists(MyCluster) /\ UNCHANGED cloud
             /\ UpdateOrGiveUp([local EXCEPT !.made["cluster"] = None], "clearExt")
    <3>1. /\ UNCHANGED cache
          /\ \/ local = obj /\ obj.exists /\ obj' = [local EXCEPT !.made["cluster"] = None]
             \/ obj' = obj
          BY <2>3, UpdateStored
    <3>2. CASE local = obj /\ obj.exists /\ obj' = [local EXCEPT !.made["cluster"] = None]
      <4>1. /\ obj'.exists /\ obj'.deleting
            /\ obj'.phase = obj.phase /\ obj'.finalizer = obj.finalizer
            /\ obj'.made = [obj.made EXCEPT !["cluster"] = None]
            BY <1>4, <1>5, <3>2 DEF Object
      <4>2. \A k \in Kinds : \/ obj'.made[k] = obj.made[k]
                             \/ obj'.made[k] = None /\ ~Exists(<<k, obj.made[k]>>)
            BY <1>5, <2>3, <3>2, <4>1 DEF MyCluster
      <4>3. obj'.made["nat"] = obj.made["nat"]
            BY <1>5, <4>1
      <4>   QED
            BY <1>3, <1>4, <2>1, <2>3, <3>1, <3>2, <4>1, <4>2, <4>3, StrikeGood
    <3>   QED
          BY <1>6, <2>1, <2>3, <3>1, <3>2
  <2>4. CASE /\ cloud[MyCluster] \in {"live", "failed"} /\ Exists(MyCluster)
             /\ cloud' = [cloud EXCEPT ![MyCluster] = "deleting"]
             /\ UNCHANGED <<pc, store, local>>
    <3>1. cloud' = [r \in Res |-> IF r = MyCluster THEN "deleting" ELSE cloud[r]]
          BY <1>1, <2>4 DEF TypeOK
    <3>2. \A r \in Res : cloud'[r] \in Here <=> cloud[r] \in Here
          BY <2>4, <3>1 DEF Here
    <3>3. obj' = obj /\ cache' = cache
          BY <2>4 DEF store
    <3>4. Owned' = Owned /\ Named' = Named /\ Stage' = Stage
          BY <3>2, <3>3 DEF Owned, Named, Stage
    <3>5. Core'
          BY <1>1, <1>4, <2>1, <3>2, <3>3
          DEF Core, CreatingHasCluster, FinalizerFirst, DeletedByUs, InGateway, Exists
    <3>   QED
          BY <1>3, <3>3, <3>4, <3>5, PlainLedger DEF Facts, BookStep, Forward
  <2>   QED
        BY <1>9, <2>2, <2>3, <2>4 DEF DeleteCCECluster
<1>10. CASE ClearExternalIP
  <2>1. UNCHANGED <<cloud, uses>>
        BY <1>10 DEF ClearExternalIP, fabric
  <2>2. UNCHANGED cache /\ (obj' = obj \/ (local = obj /\ obj' = [local EXCEPT !.ext = FALSE]))
        BY <1>10, UpdateStored DEF ClearExternalIP
  <2>3. SameEntry
        BY <1>5, <2>2 DEF SameEntry, Object
  <2>   QED
        BY <1>3, <2>1, <2>2, <2>3, StillGood
<1>11. CASE DeleteSnatRules
      BY <1>7, <1>11 DEF DeleteSnatRules, store
<1>12. CASE DeleteNetworkResource
  <2>1. PICK k \in Networks : \/ Vanish({Mine(k)}) /\ UNCHANGED store
                              \/ GiveUp /\ UNCHANGED <<cloud, uses>>
        BY <1>12 DEF DeleteNetworkResource
  <2>2. CASE Vanish({Mine(k)}) /\ UNCHANGED store
        BY <1>7, <2>2 DEF store
  <2>3. CASE GiveUp /\ UNCHANGED <<cloud, uses>>
        BY <1>6, <2>3 DEF GiveUp, Stay
  <2>   QED
        BY <2>1, <2>2, <2>3
<1>13. CASE ForgetNetworkResource
  <2>1. PICK k \in Networks :
             /\ Turn(k) /\ Cleared(k) /\ ~Exists(Mine(k))
             /\ UpdateOrGiveUp([local EXCEPT !.made = Without(Forgotten(k))], "cleanup")
        BY <1>13 DEF ForgetNetworkResource
  <2>2. UNCHANGED <<cloud, uses>>
        BY <1>13 DEF ForgetNetworkResource, fabric
  <2>3. /\ UNCHANGED cache
        /\ \/ local = obj /\ obj.exists /\ obj' = [local EXCEPT !.made = Without(Forgotten(k))]
           \/ obj' = obj
        BY <2>1, UpdateStored
  <2>4. CASE local = obj /\ obj.exists /\ obj' = [local EXCEPT !.made = Without(Forgotten(k))]
    <3>1. /\ obj'.exists /\ obj'.deleting
          /\ obj'.phase = obj.phase /\ obj'.finalizer = obj.finalizer
          /\ obj'.made = Without(Forgotten(k))
          BY <1>4, <1>5, <2>4 DEF Object
    <3>2. \A j \in Kinds : obj'.made[j] = IF j \in Forgotten(k) THEN None ELSE obj.made[j]
          BY <2>4, <3>1 DEF Without
    <3>3. k # "snat" /\ k \in Kinds
          BY DEF Networks, Before, Kinds
    <3>4. ~Exists(<<k, obj.made[k]>>)
          BY <2>1, <2>4 DEF Mine, Target
    <3>5. k = "nat" => ~Exists(<<"snat", obj.made["snat"]>>)
      <4> SUFFICES ASSUME k = "nat", Exists(<<"snat", obj.made["snat"]>>) PROVE FALSE
          OBVIOUS
      <4> DEFINE r == <<"snat", obj.made["snat"]>>
      <4>1. Rules = {}
            BY <2>1 DEF Cleared
      <4>2. <<r, <<"nat", obj.made["nat"]>>>> \in uses
            BY <1>1 DEF Core, InGateway
      <4>3. <<r, Mine("nat")>> \in uses /\ r \in Res /\ r[1] = "snat"
            BY <2>4, <4>2 DEF Mine, Target, Exists
      <4>   QED
            BY <4>1, <4>3 DEF Rules
    <3>6. \A j \in Kinds : \/ obj'.made[j] = obj.made[j]
                           \/ obj'.made[j] = None /\ ~Exists(<<j, obj.made[j]>>)
          BY <3>2, <3>4, <3>5 DEF Forgotten
    <3>7. obj'.made["nat"] = obj.made["nat"] \/ obj'.made["snat"] = None
          BY <1>5, <3>2 DEF Forgotten
    <3>   QED
          BY <1>3, <1>4, <2>2, <2>3, <2>4, <3>1, <3>6, <3>7, StrikeGood
  <2>   QED
        BY <1>6, <2>2, <2>3, <2>4
<1>14. CASE RemoveFinalizer
  <2>1. UNCHANGED <<cloud, uses>>
        BY <1>14 DEF RemoveFinalizer, fabric
  <2>2. /\ UNCHANGED cache
        /\ \/ local = obj /\ obj.exists /\ obj' = [local EXCEPT !.exists = FALSE]
           \/ obj' = obj
        BY <1>14, UpdateStored DEF RemoveFinalizer
  <2>3. CASE local = obj /\ obj.exists /\ obj' = [local EXCEPT !.exists = FALSE]
    <3>1. /\ obj'.made = obj.made /\ obj'.phase = obj.phase /\ obj'.finalizer = obj.finalizer
          /\ obj'.deleting /\ ~obj'.exists /\ obj.finalizer
          BY <1>1, <1>4, <1>5, <2>3 DEF Object, Core, FinalizerFirst
    <3>2. Core'
          BY <1>1, <1>4, <2>1, <2>2, <3>1
          DEF Core, CreatingHasCluster, FinalizerFirst, DeletedByUs, InGateway, Exists
    <3>3. obj.made = Nothing
          BY <3>1 DEF Facts, RemovalInv, NothingRecorded, Removed
    <3>4. Named = {} /\ Named' = Named /\ Owned' = Owned
          BY <2>1, <3>1, <3>3 DEF Named, Nothing, Owned
    <3>5. Stage = "ending" /\ Stage' = "gone"
          BY <1>4, <2>3, <3>1 DEF Stage
    <3>6. Book!Depart
          BY <3>4, <3>5 DEF Book!Depart
    <3>   QED
          BY <1>3, <3>1, <3>2, <3>6, PlainLedger DEF Facts, BookStep, Book!Next, Forward
  <2>   QED
        BY <1>6, <2>1, <2>2, <2>3
<1>   QED
      BY <1>8, <1>9, <1>10, <1>11, <1>12, <1>13, <1>14 DEF Removing

-----------------------------------------------------------------------------
(* The creation.                                                           *)

LEMMA CreateLedger ==
    ASSUME Core', pc' \in CreateSteps, obj'.phase # "running", ~Removed',
           Handed', InGateway(held["snat"])',
           pc' = "natRecord" => obj'.made["nat"] = None,
           pc' \in {"adopt", "phaseRecord"} => obj'.made["cluster"] # None
    PROVE  LedgerInv'
BY DEF Core, LedgerInv, PhaseKnown, PhaseEarned, Alive, ReadyCluster, RuleInGateway,
       CreateSteps, RecordSteps

LEMMA CreatingStage ==
    ASSUME LedgerInv, TypeOK, pc \in CreateSteps PROVE Stage \in {"wanted", "ending", "dropped"}
BY DEF LedgerInv, PhaseKnown, Alive, Removed, Stage

MakeSteps == {<<"eip", "eipRecord">>, <<"vpc", "subnet">>, <<"subnet", "netStatus">>,
              <<"nat", "natRecord">>, <<"snatEip", "snatEipRecord">>, <<"snat", "snatRecord">>,
              <<"cluster", "clusterRecord">>}

(* A request that creates something. *)
LEMMA RequestGood ==
    ASSUME Facts, Facts', LedgerInv, NEW k \in Kinds, NEW state \in {"creating", "live"},
           NEW parents, NEW next, <<k, next>> \in MakeSteps,
           pc \in CreateSteps, UNCHANGED <<obj, cache>>, Request(k, state, parents, next),
           k = "nat" => obj.made["nat"] = None,
           k = "snat" => obj.made["snat"] = None /\ <<"nat", obj.made["nat"]>> \in parents
    PROVE  LedgerInv' /\ BookStep /\ Forward
<1> DEFINE i == NewId(k)
<1>1. TypeOK /\ TypeOK' /\ Core /\ SameEntry
      BY InvCore DEF Facts, SameEntry
<1>2. i \in Ids /\ cloud[<<k, i>>] = "none" /\ <<k, i>> \in Res
      BY NewIdFresh DEF Request, Res
<1>3. /\ cloud' = [cloud EXCEPT ![<<k, i>>] = state]
      /\ uses' = uses \cup ({<<k, i>>} \X parents)
      /\ \/ held' = [held EXCEPT ![k] = i] /\ pc' = next
         \/ pc' = "report"
      BY DEF Request, Abandon
<1> HIDE DEF i
<1>4. cloud' = [r \in Res |-> IF r = <<k, i>> THEN state ELSE cloud[r]]
      BY <1>1, <1>2, <1>3 DEF TypeOK
<1>5. BookStep /\ Forward
      BY <1>1, CreatingStage, RequestMakes
<1>6. InGateway(obj.made["snat"])'
  <2>1. CASE k = "snat"
        BY <2>1, IdsAssumption DEF InGateway, Exists, Res
  <2>2. CASE k # "snat"
    <3>1. Exists(<<"snat", obj.made["snat"]>>)' => Exists(<<"snat", obj.made["snat"]>>)
          BY <1>4, <2>2 DEF Exists
    <3>   QED
          BY <1>1, <1>3, <3>1 DEF Core, InGateway
  <2>   QED
        BY <2>1, <2>2
<1>7. DeletedByUs'
  <2>1. \A j \in Ids : <<"cluster", j>> \in Res
        BY DEF Res, Kinds
  <2>   QED
        BY <1>1, <1>4, <2>1 DEF Core, DeletedByUs
<1>8. Core'
      BY <1>1, <1>6, <1>7 DEF Core, CreatingHasCluster, FinalizerFirst
<1>9. CASE pc' = "report"
      BY <1>5, <1>8, <1>9, PlainLedger
      DEF Facts, PlainSteps, Steps, CreateSteps, RecordSteps, Entering
<1>10. CASE held' = [held EXCEPT ![k] = i] /\ pc' = next
  <2>1. \A j \in Kinds : held[j] \in Ids \cup {None} /\ held'[j] = IF j = k THEN i ELSE held[j]
        BY <1>1, <1>10 DEF TypeOK
  <2>2. held'[k] = i /\ i # None
        BY <1>2, <2>1, IdsAssumption
  <2>3. next \in {"eipRecord", "subnet", "netStatus", "natRecord", "snatEipRecord", "snatRecord",
                  "clusterRecord"}
        BY DEF MakeSteps
  <2>4. \A j \in Kinds : held'[j] # None =>
            cloud'[<<j, held'[j]>>] \in {"creating", "live", "failed"}
    <3> SUFFICES ASSUME NEW j \in Kinds, held'[j] # None
                 PROVE  cloud'[<<j, held'[j]>>] \in {"creating", "live", "failed"}
        OBVIOUS
    <3>1. <<j, held'[j]>> \in Res
          BY <1>2, <2>1 DEF Res
    <3>2. CASE j = k
          BY <1>4, <2>2, <3>1, <3>2
    <3>3. CASE j # k
          BY <1>4, <2>1, <3>1, <3>3 DEF LedgerInv, Handed
    <3>   QED
          BY <3>2, <3>3
  <2>5. Handed'
        BY <1>10, <2>2, <2>3, <2>4 DEF Handed, MakeSteps
  <2>6. InGateway(held["snat"])'
    <3>1. CASE k = "snat"
      <4>1. <<<<"snat", held'["snat"]>>, <<"nat", obj.made["nat"]>>>> \in uses'
            BY <1>3, <2>2, <3>1
      <4>   QED
            BY <4>1 DEF InGateway
    <3>2. CASE k # "snat"
      <4>1. pc' # "snatRecord"
            BY <1>10, <3>2 DEF MakeSteps
      <4>2. held'["snat"] = None
            BY <4>1 DEF Facts, InHand, HeldByStep
      <4>   QED
            BY <4>2, IdsAssumption DEF InGateway, Exists, Res
    <3>   QED
          BY <3>1, <3>2
  <2>7. obj'.phase # "running" /\ ~Removed'
        BY DEF LedgerInv, PhaseKnown, Alive, Removed
  <2>8. pc' = "natRecord" => obj'.made["nat"] = None
        BY <1>10 DEF MakeSteps
  <2>9. pc' \in CreateSteps \ {"adopt", "phaseRecord"}
        BY <1>10, <2>3 DEF CreateSteps, RecordSteps
  <2>   QED
        BY <1>5, <1>8, <2>5, <2>6, <2>7, <2>8, <2>9, CreateLedger
<1>   QED
      BY <1>3, <1>9, <1>10

(* Steps within create() that ask for nothing. *)
LEMMA SkipGood ==
    ASSUME Facts, Facts', LedgerInv, pc \in CreateSteps \cup {"validate"},
           UNCHANGED <<obj, cache, held, cloud, uses>>, ~Removed,
           pc' \in {"eip", "extRecord", "network", "subnet", "nat", "snat", "cluster", "newCluster",
                   "adopt"},
           pc' = "adopt" => obj.made["cluster"] # None
    PROVE  LedgerInv' /\ BookStep /\ Forward
<1>1. SameEntry /\ Core /\ TypeOK /\ TypeOK'
      BY InvCore DEF SameEntry, Facts
<1>2. BookStep /\ Forward /\ Core'
      BY <1>1, EntryStill, CoreStill
<1>3. Handed' /\ InGateway(held["snat"])'
      BY DEF LedgerInv, Handed, RuleInGateway, InGateway, Exists
<1>4. obj'.phase # "running" /\ ~Removed' /\ pc' \in CreateSteps
      BY DEF LedgerInv, PhaseKnown, Removed, CreateSteps, RecordSteps
<1>   QED
      BY <1>2, <1>3, <1>4, CreateLedger

(* A write that records what the worker holds. *)
LEMMA RecordGood ==
    ASSUME Facts, Facts', LedgerInv, NEW at \in RecordSteps, NEW o, NEW done, NEW next,
           Record(at, o, done, next),
           next \in {"network", "netSpec", "nat", "snat", "cluster", "phaseRecord"},
           o.exists = obj.exists, o.deleting = obj.deleting,
           o.finalizer = obj.finalizer, o.phase = obj.phase,
           \A k \in Kinds : o.made[k] = obj.made[k] \/ (o.made[k] = held[k] /\ held[k] # None),
           o.made["nat"] = obj.made["nat"] \/ o.made["snat"] = None,
           next = "netSpec" => held["subnet"] # None /\ "subnet" \notin done,
           next = "phaseRecord" => o.made["cluster"] # None
    PROVE  LedgerInv' /\ BookStep /\ Forward
<1>1. /\ TypeOK /\ TypeOK' /\ Core /\ pc \in CreateSteps /\ obj.exists
      /\ obj' = o /\ cache' = cache /\ UNCHANGED <<cloud, uses>> /\ pc' = next
      /\ held' = [k \in Kinds |-> IF k \in done THEN None ELSE held[k]]
      BY InvCore DEF Facts, Record, Store, Proceed, Quiet, fabric, CreateSteps
<1>2. \A k \in Kinds : held[k] \in Ids \cup {None} /\ held'[k] \in {held[k], None}
      BY <1>1 DEF TypeOK
<1>3. \A k \in Kinds : held[k] # None => cloud[<<k, held[k]>>] \in {"creating", "live", "failed"}
      BY DEF LedgerInv, Handed
<1>4. Stage \in {"wanted", "ending"} /\ Stage' = Stage /\ Forward
      BY <1>1 DEF LedgerInv, PhaseKnown, Stage, Forward
<1>5. \A k \in Kinds : \/ obj'.made[k] = obj.made[k]
                       \/ obj'.made[k] \in Ids /\ cloud[<<k, obj'.made[k]>>] \in Here
      BY <1>1, <1>2, <1>3 DEF Here
<1>6. BookStep
      BY <1>1, <1>4, <1>5, RecordEnters
<1>7. InGateway(obj.made["snat"])'
  <2>1. CASE o.made["snat"] = None
        BY <1>1, <2>1, IdsAssumption DEF InGateway, Exists, Res
  <2>2. CASE o.made["snat"] # None
    <3>1. o.made["nat"] = obj.made["nat"] /\ o.made["snat"] \in {obj.made["snat"], held["snat"]}
          BY <2>2 DEF Kinds
    <3>2. InGateway(obj.made["snat"]) /\ InGateway(held["snat"])
          BY DEF LedgerInv, RuleInGateway
    <3>   QED
          BY <1>1, <3>1, <3>2 DEF InGateway, Exists
  <2>   QED
        BY <2>1, <2>2
<1>8. CreatingHasCluster'
  <2>1. o.made["cluster"] = obj.made["cluster"] \/ o.made["cluster"] # None
        BY DEF Kinds
  <2>   QED
        BY <1>1, <2>1 DEF Core, CreatingHasCluster
<1>9. Core'
      BY <1>1, <1>7, <1>8 DEF Core, FinalizerFirst, DeletedByUs
<1>10. Handed'
  <2>1. \A k \in Kinds : held'[k] # None =>
            cloud'[<<k, held'[k]>>] \in {"creating", "live", "failed"}
        BY <1>1, <1>2, <1>3
  <2>2. pc' = "netSpec" => held'["subnet"] # None
        BY <1>1 DEF Kinds
  <2>   QED
        BY <1>1, <2>1, <2>2 DEF Handed
<1>11. InGateway(held["snat"])'
  <2>1. held'["snat"] = None
        BY <1>1 DEF Facts, InHand, HeldByStep
  <2>   QED
        BY <2>1, IdsAssumption DEF InGateway, Exists, Res
<1>12. obj'.phase # "running" /\ ~Removed' /\ pc' \in CreateSteps
      BY <1>1 DEF LedgerInv, PhaseKnown, Removed, CreateSteps, RecordSteps
<1>   QED
      BY <1>1, <1>4, <1>6, <1>9, <1>10, <1>11, <1>12, CreateLedger

LEMMA RequestsLedger ==
    ASSUME Facts, Facts', LedgerInv,
           \/ CreateClusterEIP \/ CreateVPC \/ CreateSubnet
           \/ CreateNatGateway \/ CreateSnatRule \/ FindCluster \/ CreateCluster
    PROVE  LedgerInv' /\ BookStep /\ Forward
<1>1. pc \in CreateSteps /\ UNCHANGED <<obj, cache>> /\ ~Removed
      BY DEF CreateClusterEIP, CreateVPC, CreateSubnet, CreateNatGateway, CreateSnatRule,
             FindCluster, CreateCluster, QuietCreate, store, CreateSteps, RecordSteps,
             LedgerInv, Alive
<1>2. local.made = obj.made
      BY <1>1 DEF Facts, InHand, LocalKnown
<1>3. "eip" \in Kinds /\ "vpc" \in Kinds /\ "subnet" \in Kinds /\ "nat" \in Kinds
      /\ "snatEip" \in Kinds /\ "snat" \in Kinds /\ "cluster" \in Kinds
      BY DEF Kinds
<1>4. ASSUME NEW next \in {"extRecord", "network", "subnet", "nat", "snat", "cluster",
                           "newCluster", "adopt"},
             pc' = next, UNCHANGED <<held, cloud, uses>>,
             next = "adopt" => obj.made["cluster"] # None
      PROVE  LedgerInv' /\ BookStep /\ Forward
      BY <1>1, <1>4, SkipGood
<1>5. ASSUME NEW k \in Kinds, NEW state \in {"creating", "live"}, NEW parents, NEW next,
             <<k, next>> \in MakeSteps, Request(k, state, parents, next),
             k = "nat" => obj.made["nat"] = None,
             k = "snat" => obj.made["snat"] = None /\ <<"nat", obj.made["nat"]>> \in parents
      PROVE  LedgerInv' /\ BookStep /\ Forward
      BY <1>1, <1>5, RequestGood
<1>6. CASE CreateClusterEIP
  <2>1. CASE Request("eip", "live", {}, "eipRecord")
        BY <1>3, <1>5, <2>1 DEF MakeSteps
  <2>2. CASE Skip(IF NeedAddress THEN "extRecord" ELSE "network")
        BY <1>4, <2>2 DEF Skip
  <2>   QED
        BY <1>6, <2>1, <2>2 DEF CreateClusterEIP
<1>7. CASE CreateVPC
  <2>1. CASE Request("vpc", "live", {}, "subnet")
        BY <1>3, <1>5, <2>1 DEF MakeSteps
  <2>2. CASE Skip(IF local.subnet = None THEN "subnet" ELSE "nat")
        BY <1>4, <2>2 DEF Skip
  <2>   QED
        BY <1>7, <2>1, <2>2 DEF CreateVPC
<1>8. CASE CreateSubnet
  <2>1. Request("subnet", "live", {<<"vpc", SubnetVPC>>}, "netStatus")
        BY <1>8 DEF CreateSubnet
  <2>   QED
        BY <1>3, <1>5, <2>1 DEF MakeSteps
<1>9. CASE CreateNatGateway
  <2>1. CASE NeedNat /\ Request("nat", "live", {<<"subnet", local.subnet>>}, "natRecord")
    <3>1. obj.made["nat"] = None
          BY <1>2, <2>1 DEF NeedNat
    <3>   QED
          BY <1>3, <1>5, <2>1, <3>1 DEF MakeSteps
  <2>2. CASE Skip("snat")
        BY <1>4, <2>2 DEF Skip
  <2>   QED
        BY <1>9, <2>1, <2>2 DEF CreateNatGateway
<1>10. CASE CreateSnatRule
  <2>1. CASE Request("snatEip", "live", {}, "snatEipRecord")
        BY <1>3, <1>5, <2>1 DEF MakeSteps
  <2>2. CASE NeedSnat /\ Request("snat", "live", SnatParents, "snatRecord")
    <3>1. obj.made["snat"] = None /\ <<"nat", obj.made["nat"]>> \in SnatParents
          BY <1>2, <2>2 DEF NeedSnat, SnatParents
    <3>   QED
          BY <1>3, <1>5, <2>2, <3>1 DEF MakeSteps
  <2>3. CASE Skip("cluster")
        BY <1>4, <2>3 DEF Skip
  <2>   QED
        BY <1>10, <2>1, <2>2, <2>3 DEF CreateSnatRule
<1>11. CASE FindCluster
  <2>1. CASE local.made["cluster"] # None /\ Skip("adopt")
        BY <1>2, <1>4, <2>1 DEF Skip
  <2>2. CASE pc' = "newCluster" /\ UNCHANGED <<held, cloud, uses>>
        BY <1>4, <2>2
  <2>   QED
        BY <1>11, <2>1, <2>2 DEF FindCluster, Skip
<1>12. CASE CreateCluster
  <2>1. Request("cluster", "creating", ClusterParents, "clusterRecord")
        BY <1>12 DEF CreateCluster
  <2>   QED
        BY <1>3, <1>5, <2>1 DEF MakeSteps
<1>   QED
      BY <1>6, <1>7, <1>8, <1>9, <1>10, <1>11, <1>12

LEMMA RecordsLedger ==
    ASSUME Facts, Facts', LedgerInv,
           \/ RecordClusterEIP \/ RecordAddress \/ RecordNetworkStatus \/ RecordNetworkSpec
           \/ RecordNat \/ RecordSnatEIP \/ RecordSnat \/ RecordCluster
    PROVE  LedgerInv' /\ BookStep /\ Forward
<1>1. obj \in Object /\ obj.made \in [Kinds -> Ids \cup {None}]
      BY DEF Facts, TypeOK, Object
<1>2. Kinds = {"eip", "vpc", "subnet", "nat", "snatEip", "snat", "cluster"}
      BY DEF Kinds
<1>3. ASSUME NEW at \in RecordSteps, NEW o, NEW done, NEW next, NEW m,
             m \in [Kinds -> Ids \cup {None}],
             Record(at, o, done, next),
             next \in {"network", "netSpec", "nat", "snat", "cluster", "phaseRecord"},
             o.exists = obj.exists, o.deleting = obj.deleting,
             o.finalizer = obj.finalizer, o.phase = obj.phase, o.made = m,
             \A k \in Kinds : m[k] = obj.made[k] \/ (m[k] = held[k] /\ held[k] # None),
             m["nat"] = obj.made["nat"] \/ m["snat"] = None,
             next = "netSpec" => held["subnet"] # None /\ "subnet" \notin done,
             next = "phaseRecord" => m["cluster"] # None
      PROVE  LedgerInv' /\ BookStep /\ Forward
      BY <1>3, RecordGood
<1>4. ASSUME NEW k \in Kinds, held[k] # None
      PROVE  /\ Name(k) \in [Kinds -> Ids \cup {None}]
             /\ Name(k)[k] = held[k]
             /\ \A j \in Kinds : j # k => Name(k)[j] = obj.made[j]
      BY <1>1, <1>4 DEF Name, Facts, TypeOK
<1>5. CASE RecordClusterEIP
  <2> DEFINE o == [obj EXCEPT !.made = Name("eip"), !.ext = TRUE]
  <2>1. pc = "eipRecord" /\ Record("eipRecord", o, {"eip"}, "network")
        BY <1>5 DEF RecordClusterEIP, Record
  <2>2. held["eip"] # None
        BY <2>1 DEF LedgerInv, Handed
  <2>3. /\ o.exists = obj.exists /\ o.deleting = obj.deleting
        /\ o.finalizer = obj.finalizer /\ o.phase = obj.phase /\ o.made = Name("eip")
        BY <1>1 DEF Object
  <2> HIDE DEF o
  <2>   QED
        BY <1>2, <1>3, <1>4, <2>1, <2>2, <2>3 DEF RecordSteps
<1>6. CASE RecordAddress
  <2> DEFINE o == [obj EXCEPT !.ext = TRUE]
  <2>1. Record("extRecord", o, {}, "network")
        BY <1>6 DEF RecordAddress
  <2>2. /\ o.exists = obj.exists /\ o.deleting = obj.deleting
        /\ o.finalizer = obj.finalizer /\ o.phase = obj.phase /\ o.made = obj.made
        BY <1>1 DEF Object
  <2> HIDE DEF o
  <2>   QED
        BY <1>1, <1>3, <2>1, <2>2 DEF RecordSteps
<1>7. CASE RecordNetworkStatus
  <2> DEFINE o == [obj EXCEPT !.made = NetworkStatus]
  <2>1. pc = "netStatus" /\ Record("netStatus", o, {}, "netSpec")
        BY <1>7 DEF RecordNetworkStatus, Record
  <2>2. held["subnet"] # None
        BY <2>1 DEF LedgerInv, Handed
  <2>3. /\ o.exists = obj.exists /\ o.deleting = obj.deleting
        /\ o.finalizer = obj.finalizer /\ o.phase = obj.phase /\ o.made = NetworkStatus
        BY <1>1 DEF Object
  <2>4. /\ NetworkStatus \in [Kinds -> Ids \cup {None}]
        /\ \A k \in Kinds : \/ NetworkStatus[k] = obj.made[k]
                            \/ NetworkStatus[k] = held[k] /\ held[k] # None
        /\ NetworkStatus["nat"] = obj.made["nat"]
        BY <1>1, <1>2, <2>2 DEF NetworkStatus, Facts, TypeOK
  <2> HIDE DEF o
  <2>   QED
        BY <1>3, <2>1, <2>2, <2>3, <2>4 DEF RecordSteps
<1>8. CASE RecordNetworkSpec
  <2> DEFINE o == [obj EXCEPT !.subnet = held["subnet"],
                              !.vpc = IF held["vpc"] # None THEN held["vpc"] ELSE @]
  <2>1. Record("netSpec", o, {"vpc", "subnet"}, "nat")
        BY <1>8 DEF RecordNetworkSpec
  <2>2. /\ o.exists = obj.exists /\ o.deleting = obj.deleting
        /\ o.finalizer = obj.finalizer /\ o.phase = obj.phase /\ o.made = obj.made
        BY <1>1 DEF Object
  <2> HIDE DEF o
  <2>   QED
        BY <1>1, <1>3, <2>1, <2>2 DEF RecordSteps
<1>9. CASE RecordNat
  <2> DEFINE o == [obj EXCEPT !.made = Name("nat")]
  <2>1. pc = "natRecord" /\ Record("natRecord", o, {"nat"}, "snat")
        BY <1>9 DEF RecordNat, Record
  <2>2. held["nat"] # None /\ obj.made["nat"] = None
        BY <2>1 DEF Facts, RemovalInv, GatewayFirst, LedgerInv, RuleInGateway
  <2>3. obj.made["snat"] = None
        BY <2>2 DEF Facts, RemovalInv, GatewayFirst, RuleHasGateway
  <2>4. /\ o.exists = obj.exists /\ o.deleting = obj.deleting
        /\ o.finalizer = obj.finalizer /\ o.phase = obj.phase /\ o.made = Name("nat")
        BY <1>1 DEF Object
  <2> HIDE DEF o
  <2>   QED
        BY <1>2, <1>3, <1>4, <2>1, <2>2, <2>3, <2>4 DEF RecordSteps
<1>10. CASE RecordSnatEIP
  <2> DEFINE o == [obj EXCEPT !.made = Name("snatEip")]
  <2>1. pc = "snatEipRecord" /\ Record("snatEipRecord", o, {"snatEip"}, "snat")
        BY <1>10 DEF RecordSnatEIP, Record
  <2>2. held["snatEip"] # None
        BY <2>1 DEF LedgerInv, Handed
  <2>3. /\ o.exists = obj.exists /\ o.deleting = obj.deleting
        /\ o.finalizer = obj.finalizer /\ o.phase = obj.phase /\ o.made = Name("snatEip")
        BY <1>1 DEF Object
  <2> HIDE DEF o
  <2>   QED
        BY <1>2, <1>3, <1>4, <2>1, <2>2, <2>3 DEF RecordSteps
<1>11. CASE RecordSnat
  <2> DEFINE o == [obj EXCEPT !.made = Name("snat")]
  <2>1. pc = "snatRecord" /\ Record("snatRecord", o, {"snat"}, "cluster")
        BY <1>11 DEF RecordSnat, Record
  <2>2. held["snat"] # None
        BY <2>1 DEF LedgerInv, Handed
  <2>3. /\ o.exists = obj.exists /\ o.deleting = obj.deleting
        /\ o.finalizer = obj.finalizer /\ o.phase = obj.phase /\ o.made = Name("snat")
        BY <1>1 DEF Object
  <2> HIDE DEF o
  <2>   QED
        BY <1>2, <1>3, <1>4, <2>1, <2>2, <2>3 DEF RecordSteps
<1>12. CASE RecordCluster
  <2> DEFINE o == [obj EXCEPT !.made = Name("cluster")]
  <2>1. pc = "clusterRecord" /\ Record("clusterRecord", o, {"cluster"}, "phaseRecord")
        BY <1>12 DEF RecordCluster, Record
  <2>2. held["cluster"] # None
        BY <2>1 DEF LedgerInv, Handed
  <2>3. /\ o.exists = obj.exists /\ o.deleting = obj.deleting
        /\ o.finalizer = obj.finalizer /\ o.phase = obj.phase /\ o.made = Name("cluster")
        BY <1>1 DEF Object
  <2> HIDE DEF o
  <2>   QED
        BY <1>2, <1>3, <1>4, <2>1, <2>2, <2>3 DEF RecordSteps
<1>   QED
      BY <1>5, <1>6, <1>7, <1>8, <1>9, <1>10, <1>11, <1>12

(* The phase of the entry. *)
PhaseSteps ==
    RecordPhase \/ AdoptCluster \/ WaitForCreationComplete \/ SetRunning

LEMMA ReadyGood ==
    ASSUME Facts, LedgerInv, pc = "setRunning", local = obj, obj.exists,
           UNCHANGED <<cloud, uses>>, obj' = [obj EXCEPT !.phase = "running"]
    PROVE  BookStep
<1> DEFINE i == obj.made["cluster"]
<1>1. /\ obj'.made = obj.made /\ obj'.phase = "running"
      /\ obj'.exists = obj.exists /\ obj'.deleting = obj.deleting
      /\ obj'.finalizer = obj.finalizer
      BY DEF Facts, TypeOK, Object
<1>2. Named' = Named /\ Owned' = Owned
      BY <1>1 DEF Named, Owned
<1>3. CASE obj.deleting \/ obj.phase = "running"
      BY <1>1, <1>2, <1>3 DEF Stage, BookStep
<1>4. CASE ~obj.deleting /\ obj.phase # "running"
  <2>1. Stage = "wanted" /\ Stage' = "ready"
        BY <1>1, <1>4 DEF Stage
  <2>2. i # None /\ cloud[<<"cluster", i>>] = "live" /\ "cluster" \in Kinds
        BY DEF LedgerInv, ReadyCluster, Kinds
  <2>3. i \in Ids
        BY <2>2 DEF Facts, TypeOK, Object
  <2>4. <<"cluster", i>> \in Named /\ <<"cluster", i>> \in Owned
        BY <2>2, <2>3, NamedAt, OwnedAt DEF Facts, Here
  <2>5. \E r \in Named \cap Owned : r[1] = "cluster"
        BY <2>4
  <2>6. Book!GetReady
        BY <1>2, <2>1, <2>5 DEF Book!GetReady
  <2>   QED
        BY <2>6 DEF BookStep, Book!Next
<1>   QED
      BY <1>3, <1>4

LEMMA PhaseLedger ==
    ASSUME Facts, Facts', LedgerInv, PhaseSteps
    PROVE  LedgerInv' /\ BookStep /\ Forward
<1>1. TypeOK /\ TypeOK' /\ Core /\ obj \in Object /\ "report" \in PlainSteps /\ "lost" \in PlainSteps
      BY InvCore DEF Facts, TypeOK, PlainSteps, Steps, CreateSteps, RecordSteps
<1>2. /\ pc \in {"phaseRecord", "adopt", "wait", "setRunning"}
      /\ UNCHANGED <<cloud, uses, cache>>
      BY DEF PhaseSteps, RecordPhase, Record, AdoptCluster, WaitForCreationComplete, SetRunning,
             UpdateCopy, Store, Quiet, store, fabric
<1>3. CASE pc' \in {"report", "lost"} /\ obj' = obj
      BY <1>1, <1>2, <1>3, StillGood DEF SameEntry, Entering
<1>4. ASSUME pc \in {"phaseRecord", "adopt"}, pc' = "report", obj.exists,
             obj' = [obj EXCEPT !.phase = "creating", !.failed = obj'.failed]
      PROVE  LedgerInv' /\ BookStep /\ Forward
  <2>1. /\ obj'.made = obj.made /\ obj'.phase = "creating"
        /\ obj'.exists = obj.exists /\ obj'.deleting = obj.deleting
        /\ obj'.finalizer = obj.finalizer
        BY <1>1, <1>4 DEF Object
  <2>2. obj.phase # "running" /\ obj.made["cluster"] # None
        BY <1>4 DEF LedgerInv, PhaseKnown, PhaseEarned, CreateSteps, RecordSteps
  <2>3. Stage' = Stage /\ Named' = Named /\ Owned' = Owned
        BY <1>2, <2>1, <2>2 DEF Stage, Named, Owned
  <2>4. Core'
        BY <1>1, <1>2, <2>1, <2>2
        DEF Core, CreatingHasCluster, FinalizerFirst, DeletedByUs, InGateway, Exists
  <2>   QED
        BY <1>1, <1>4, <2>1, <2>2, <2>3, <2>4, PlainLedger
        DEF Facts, Entering, BookStep, Forward
<1>5. CASE RecordPhase
      BY <1>4, <1>5 DEF RecordPhase, Record, Store, Proceed
<1>6. CASE AdoptCluster
  <2>1. CASE "local" \in current /\ Store([local EXCEPT !.phase = "creating"], "report")
    <3>1. local = obj /\ obj.exists
          BY <2>1, LocalStored
    <3>   QED
          BY <1>1, <1>4, <1>6, <2>1, <3>1 DEF AdoptCluster, Store, Proceed, Object
  <2>2. CASE pc' = "lost" /\ UNCHANGED store
        BY <1>3, <2>2 DEF store
  <2>   QED
        BY <1>6, <2>1, <2>2 DEF AdoptCluster, UpdateCopy
<1>7. CASE WaitForCreationComplete
  <2> DEFINE c == local.made["cluster"]
  <2>1. obj' = obj /\ local' = local
        BY <1>7 DEF WaitForCreationComplete, store
  <2>2. CASE pc' = "report"
        BY <1>3, <2>1, <2>2
  <2>3. CASE Exists(<<"cluster", c>>) /\ cloud[<<"cluster", c>>] = "live" /\ pc' = "setRunning"
    <3>1. Core'
          BY <1>1, <1>2, <2>1 DEF Core, CreatingHasCluster, FinalizerFirst, DeletedByUs, InGateway,
                                  Exists
    <3>2. cache'.phase # ""
          BY <1>2, <1>7 DEF WaitForCreationComplete, LedgerInv, PhaseKnown
    <3>3. \A k \in Kinds : held'[k] = None
          BY <2>3 DEF Facts, InHand, HeldByStep, Kinds
    <3>4. Handed' /\ InGateway(held["snat"])'
          BY <2>3, <3>3, IdsAssumption DEF Handed, InGateway, Exists, Res, Kinds
    <3>5. c # None
          BY <2>3, IdsAssumption DEF Exists, Res
    <3>6. ReadyCluster'
          BY <1>2, <2>1, <2>3, <3>5 DEF ReadyCluster
    <3>7. LedgerInv'
          BY <2>3, <3>1, <3>2, <3>4, <3>6
          DEF Core, LedgerInv, PhaseKnown, PhaseEarned, Alive, RuleInGateway, CreateSteps, RecordSteps
    <3>   QED
          BY <1>1, <1>2, <2>1, <3>7, EntryStill DEF SameEntry
  <2>   QED
        BY <1>7, <2>2, <2>3 DEF WaitForCreationComplete, Abandon
<1>8. CASE SetRunning
  <2>1. CASE "local" \in current /\ Store([local EXCEPT !.phase = "running"], "report")
    <3>1. local = obj /\ obj.exists /\ pc = "setRunning"
          BY <1>8, <2>1, LocalStored DEF SetRunning
    <3>2. obj' = [obj EXCEPT !.phase = "running"] /\ pc' = "report"
          BY <2>1, <3>1 DEF Store, Proceed
    <3>3. BookStep
          BY <1>2, <3>1, <3>2, ReadyGood
    <3>4. /\ obj'.made = obj.made /\ obj'.phase = "running"
          /\ obj'.exists = obj.exists /\ obj'.deleting = obj.deleting
          /\ obj'.finalizer = obj.finalizer
          BY <1>1, <3>2 DEF Object
    <3>5. cache.phase # "" /\ obj.made["cluster"] # None
          BY <3>1 DEF LedgerInv, PhaseKnown, ReadyCluster
    <3>6. Core'
          BY <1>1, <1>2, <3>4, <3>5
          DEF Core, CreatingHasCluster, FinalizerFirst, DeletedByUs, InGateway, Exists
    <3>   QED
          BY <1>1, <1>2, <3>2, <3>3, <3>4, <3>5, <3>6, PlainLedger DEF Facts, Entering, Forward
  <2>2. CASE pc' = "lost" /\ UNCHANGED store
        BY <1>3, <2>2 DEF store
  <2>   QED
        BY <1>8, <2>1, <2>2 DEF SetRunning, UpdateCopy
<1>   QED
      BY <1>5, <1>6, <1>7, <1>8 DEF PhaseSteps

LEMMA CreatingLedger ==
    ASSUME Facts, Facts', LedgerInv, Creating
    PROVE  LedgerInv' /\ BookStep /\ Forward
<1>1. ASSUME pc' \in {"report", "lost"}, UNCHANGED <<obj, cache, cloud, uses>>
      PROVE  LedgerInv' /\ BookStep /\ Forward
      BY <1>1, StillGood DEF SameEntry, Entering, PlainSteps, Steps, CreateSteps, RecordSteps
<1>2. CASE ValidateCreate
  <2>1. pc = "validate" /\ obj.exists /\ UNCHANGED <<obj, cache, cloud, uses>>
        BY <1>2 DEF ValidateCreate, fabric
  <2>2. CASE pc' = "eip" /\ UNCHANGED held
        BY <2>1, <2>2, SkipGood DEF Removed
  <2>3. CASE pc' = "report"
        BY <1>1, <2>1, <2>3
  <2>   QED
        BY <1>2, <2>2, <2>3 DEF ValidateCreate, Abandon
<1>3. CASE CallFails \/ WriteFails
      BY <1>1, <1>3 DEF CallFails, WriteFails, Abandon, store, fabric
<1>   QED
      BY <1>2, <1>3, RequestsLedger, RecordsLedger, PhaseLedger DEF Creating, PhaseSteps

-----------------------------------------------------------------------------
LEMMA NextLedger ==
    ASSUME Facts, Facts', LedgerInv, [Next]_vars
    PROVE  LedgerInv' /\ BookStep /\ Forward
<1>1. CASE Next
      BY <1>1, SyncLedger, CreatingLedger, RemovingLedger, EnvironmentLedger
      DEF Next, Worker, Environment
<1>2. CASE UNCHANGED vars
  <2>1. /\ UNCHANGED <<obj, cache, pc, local, held, cloud, uses>>
        BY <1>2 DEF vars, store, worker, fabric
  <2>2. Handed' /\ DeletedByUs' /\ ReadyCluster'
        BY <2>1 DEF LedgerInv, Handed, DeletedByUs, ReadyCluster
  <2>3. RuleInGateway'
        BY <2>1 DEF LedgerInv, RuleInGateway, InGateway, Exists
  <2>4. PhaseKnown' /\ PhaseEarned' /\ CreatingHasCluster' /\ FinalizerFirst' /\ Alive'
        BY <2>1 DEF LedgerInv, PhaseKnown, PhaseEarned, CreatingHasCluster, FinalizerFirst, Alive, Removed
  <2>5. LedgerInv'
        BY <2>2, <2>3, <2>4 DEF LedgerInv
  <2>   QED
        BY <2>1, <2>5, EntryStill DEF SameEntry, Facts
<1>   QED
      BY <1>1, <1>2

LEMMA InitLedger == ASSUME Init PROVE LedgerInv /\ Book!Init
<1>1. /\ obj = Submitted(want) /\ cache = obj /\ pc = "idle" /\ held = Nothing
      /\ cloud = [r \in Res |-> IF r \in {<<"vpc", User>>, <<"subnet", User>>} THEN "live"
                                                                               ELSE "none"]
      BY DEF Init
<1>2. /\ obj.phase = "" /\ obj.exists /\ ~obj.deleting /\ ~obj.finalizer /\ obj.made = Nothing
      BY <1>1 DEF Submitted
<1>3. \A k \in Kinds : obj.made[k] = None /\ held[k] = None
      BY <1>1, <1>2 DEF Nothing
<1>4. Owned = {}
      BY <1>1 DEF Owned, Here
<1>5. Named = {}
      BY <1>3 DEF Named
<1>6. Stage = "wanted"
      BY <1>2 DEF Stage
<1>7. DeletedByUs
      BY <1>1 DEF DeletedByUs, Res, Kinds
<1>8. Handed /\ RuleInGateway
      BY <1>1, <1>3, IdsAssumption DEF Handed, RuleInGateway, InGateway, Exists, Res, Kinds
<1>9. LedgerInv
      BY <1>1, <1>2, <1>7, <1>8
      DEF LedgerInv, PhaseKnown, PhaseEarned, CreatingHasCluster, FinalizerFirst, Alive, Removed,
          ReadyCluster, CreateSteps, RecordSteps
<1>   QED
      BY <1>4, <1>5, <1>6, <1>9 DEF Book!Init

LEMMA LedgerKept == Spec => []LedgerInv
<1>1. Init => LedgerInv
      BY InitLedger
<1>2. Facts /\ Facts' /\ LedgerInv /\ [Next]_vars => LedgerInv'
      BY NextLedger
<1>   QED
      BY <1>1, <1>2, TypeCorrect, CopiesTracked, HandsTracked, RemovalKept, PTL DEF Spec, Facts

(* Whatever is called, lost, refused or repeated, every step of the worker, *)
(* the users, the informer and the cloud is a step of Ledger or none at     *)
(* all: create() and OnCCEConfigRemoved enter what is there, strike out     *)
(* what has left, and end with nothing entered.                             *)
THEOREM LedgerImplemented == Spec => KeepsLedger
<1>1. Init => Book!Init
      BY InitLedger
<1>2. Facts /\ Facts' /\ LedgerInv /\ [Next]_vars => [Book!Next]_(Book!vars)
      BY NextLedger DEF BookStep, Book!vars
<1>   QED
      BY <1>1, <1>2, LedgerKept, TypeCorrect, CopiesTracked, HandsTracked, RemovalKept, PTL
      DEF Spec, KeepsLedger, Book!Spec, Facts

LEMMA StruckOut ==
    ASSUME Facts, Facts', BookStep, NEW k \in Kinds, obj.made[k] # None, obj'.made[k] = None
    PROVE  ~Exists(<<k, obj.made[k]>>)
<1> DEFINE i == obj.made[k]
<1>1. i \in Ids /\ <<k, i>> \in Named
      BY NamedAt DEF Facts, TypeOK, Object
<1>2. \A j : <<k, j>> \notin Named'
      BY DEF Named
<1>3. \A s \in Named' : s[1] # k
      BY <1>2 DEF Named
<1>4. <<k, i>> \in Named \ Named' /\ <<k, i>>[1] = k
      BY <1>1, <1>2
<1>5. ~Book!Enter /\ Named' # Named
      BY <1>3, <1>4 DEF Book!Enter
<1>6. Book!StrikeOut
      BY <1>5 DEF BookStep, Book!Next, Book!Make, Book!GetReady, Book!End, Book!Leave, Book!Depart
<1>7. <<k, i>> \notin Owned
      BY <1>4, <1>6 DEF Book!StrikeOut
<1>   QED
      BY <1>1, <1>7, OwnedAt DEF Facts, Exists

(* A resource is struck off the object only when the cloud has deleted it,  *)
(* by whatever copy the removal handler or create() wrote the object.       *)
THEOREM RecordsKept == Spec => RecordKept
<1>1. Facts /\ Facts' /\ LedgerInv /\ [Next]_vars =>
          [\A k \in Kinds : obj.made[k] # None /\ obj'.made[k] = None =>
              ~Exists(<<k, obj.made[k]>>)]_vars
      BY NextLedger, StruckOut
<1>   QED
      BY <1>1, LedgerKept, TypeCorrect, CopiesTracked, HandsTracked, RemovalKept, PTL
      DEF Spec, RecordKept, Facts

(* The writes of the phase, by create(), waitForCreationComplete and the    *)
(* stale copies between them, only ever take it forward.                    *)
THEOREM PhasesForward == Spec => PhaseForward
<1>1. Facts /\ Facts' /\ LedgerInv /\ [Next]_vars =>
          [/\ obj.phase = "running" => obj'.phase = "running"
           /\ obj.phase = "creating" => obj'.phase # ""]_vars
      BY NextLedger DEF Forward
<1>   QED
      BY <1>1, LedgerKept, TypeCorrect, CopiesTracked, HandsTracked, RemovalKept, PTL
      DEF Spec, PhaseForward, Facts

(* waitForCreationComplete and checkAndUpdate always find a ClusterID.      *)
THEOREM ClusterKnown == Spec => []CreatingHasCluster
<1>1. LedgerInv => CreatingHasCluster
      BY DEF LedgerInv
<1>   QED
      BY <1>1, LedgerKept, PTL
=============================================================================
