----------------------------- MODULE DriverProofs -----------------------------
(* Proofs about Drivers: its types, whose client a worker uses, that it     *)
(* uses one that is there, and that it makes one cluster of a name; for any *)
(* number of workers, configurations, regions and secrets.                  *)
EXTENDS Drivers, TLAPS

-----------------------------------------------------------------------------
(* Types.                                                                  *)

LEMMA NoClientTyped == NoClient \in Clients
BY DEF Clients

LEMMA IdleTyped ==
    ASSUME TypeOK, NEW c \in Configs
    PROVE  Unborn(c) \in Object /\ Idle(c) \in Sync
<1>1. want[c].secret \in Secrets
      BY WantsAssumption DEF TypeOK, Want
<1>2. Unborn(c) \in Object
      BY <1>1 DEF Unborn, Object
<1>   QED
      BY <1>2, NoClientTyped DEF Idle, Sync

LEMMA EndedTyped ==
    ASSUME TypeOK, NEW c \in Configs, NEW failed \in BOOLEAN, NEW current \in BOOLEAN
    PROVE  Ended(c, failed, current) \in Sync
BY IdleTyped DEF Ended, Sync

LEMMA DispatchTyped ==
    ASSUME NEW o \in Object PROVE Dispatch(o) \in {"remove", "take", "wait", "check"}
BY DEF Dispatch, Object

LEMMA AuthTyped ==
    ASSUME TypeOK, NEW c \in Configs PROVE NewHuaweiClientAuth(c) \in Clients
BY WantsAssumption DEF TypeOK, NewHuaweiClientAuth, Clients, Client, Object, Want

LEMMA StoreTyped ==
    ASSUME TypeOK, NEW c \in Configs, NEW o \in Object, Store(c, o, "finish")
    PROVE  /\ obj' \in [Configs -> Object] /\ queued' \subseteq Configs
           /\ sync' \in [Configs -> Sync]
BY EndedTyped DEF TypeOK, Store

LEMMA StoreOnTyped ==
    ASSUME TypeOK, NEW c \in Configs, NEW o \in Object, NEW step \in {"phase", "unfinalize"},
           Store(c, o, step)
    PROVE  /\ obj' \in [Configs -> Object] /\ queued' \subseteq Configs
           /\ sync' \in [Configs -> Sync]
<1>1. [Idle(c) EXCEPT !.at = step, !.copy = o, !.current = TRUE] \in Sync
      BY IdleTyped DEF Sync
<1>   QED
      BY <1>1 DEF TypeOK, Store

LEMMA FailTyped ==
    ASSUME TypeOK, NEW c \in Configs, Fail(c) \/ Nil(c) PROVE sync' \in [Configs -> Sync]
<1>1. sync[c].current \in BOOLEAN
      BY DEF TypeOK, Sync
<1>2. Ended(c, TRUE, sync[c].current) \in Sync
      BY <1>1, EndedTyped
<1>3. [Idle(c) EXCEPT !.at = "panic"] \in Sync
      BY IdleTyped DEF Sync
<1>   QED
      BY <1>2, <1>3 DEF Fail, End, Nil, TypeOK

LEMMA MovedTyped ==
    ASSUME TypeOK, NEW c \in Configs, NEW x \in Sync, sync' = [sync EXCEPT ![c] = x]
    PROVE  sync' \in [Configs -> Sync]
BY DEF TypeOK

LEMMA GoTyped ==
    ASSUME TypeOK, NEW c \in Configs,
           NEW step \in {"phase", "make", "unfinalize", "strike"}, Go(c, step)
    PROVE  sync' \in [Configs -> Sync]
<1>1. sync[c] \in Sync
      BY DEF TypeOK
<1>2. [sync[c] EXCEPT !.at = step] \in Sync
      BY <1>1 DEF Sync
<1>3. sync' = [sync EXCEPT ![c] = [sync[c] EXCEPT !.at = step]]
      BY DEF Go
<1>   QED
      BY <1>2, <1>3, MovedTyped

LEMMA FreshTyped == ASSUME TypeOK, Fresh # {} PROVE NewId \in Ids /\ cloud[NewId] = NoCluster
<1>1. NewId \in Fresh
      BY DEF NewId
<1>   QED
      BY <1>1 DEF Fresh

LEMMA WorkerTyped == ASSUME TypeOK, NEW c \in Configs, Worker(c) PROVE TypeOK'
<1>1. /\ obj[c] \in Object /\ sync[c] \in Sync /\ sync[c].copy \in Object
      /\ sync[c].current \in BOOLEAN /\ obj[c].secret \in Secrets
      /\ sync[c].copy.secret \in Secrets /\ sync[c].made \in Ids \cup {None}
      BY DEF TypeOK, Sync, Object
<1>2. \A s \in Secrets : drivers[s] \in Clients
      BY DEF TypeOK
<1>3. \A failed, current \in BOOLEAN : Ended(c, failed, current) \in Sync
      BY EndedTyped
<1>4. CASE StartSync(c)
  <2> DEFINE start(step) == [Idle(c) EXCEPT !.at = step, !.copy = obj[c], !.current = TRUE]
  <2>1. \A step \in {"writing", "remove", "take", "wait", "check"} : start(step) \in Sync
        BY <1>1, IdleTyped DEF Sync
  <2>2. start(Dispatch(obj[c])) \in Sync
        BY <1>1, <2>1, DispatchTyped
  <2> HIDE DEF start
  <2>3. [start("writing") EXCEPT !.auth = NewHuaweiClientAuth(c)] \in Sync
        BY <2>1, AuthTyped DEF Sync
  <2>4. sync' \in [Configs -> Sync]
        BY <1>3, <1>4, <2>2, <2>3 DEF StartSync, start, TypeOK
  <2>   QED
        BY <1>4, <2>4 DEF StartSync, TypeOK, Around
<1>5. CASE WriteDriver(c)
  <2> DEFINE x == [sync[c] EXCEPT !.at = Dispatch(sync[c].copy), !.auth = NoClient]
  <2>1. sync' \in [Configs -> Sync]
    <3>1. Dispatch(sync[c].copy) \in {"remove", "take", "wait", "check"}
          BY <1>1, DispatchTyped
    <3>2. x \in Sync
          BY <1>1, <3>1, NoClientTyped DEF Sync
    <3>3. sync' = [sync EXCEPT ![c] = x]
          BY <1>5 DEF WriteDriver
    <3>   QED
          BY <3>2, <3>3, MovedTyped
  <2>2. drivers' \in [Secrets -> Clients]
        BY <1>1, <1>5 DEF WriteDriver, TypeOK, Sync
  <2>   QED
        BY <1>5, <2>1, <2>2 DEF WriteDriver, TypeOK, QuietObject, Around
<1>6. CASE TakeDriver(c)
  <2>1. sync' \in [Configs -> Sync]
    <3>1. CASE Fail(c)
          BY <3>1, FailTyped
    <3>2. CASE sync' = [sync EXCEPT ![c] = Ended(c, TRUE, TRUE)]
          BY <1>3, <3>2 DEF TypeOK
    <3>3. CASE sync' = [sync EXCEPT
                ![c].at = IF obj[c].cluster # None THEN "find" ELSE "clusters",
                ![c].copy = obj[c], ![c].current = TRUE,
                ![c].driver = Named(c),
                ![c].again = IF obj[c].cluster # None THEN NoClient
                             ELSE drivers[obj[c].secret]]
      <4>1. Named(c) \in Clients /\ drivers[obj[c].secret] \in Clients
            BY <1>1, <1>2 DEF Named
      <4> DEFINE at == IF obj[c].cluster # None THEN "find" ELSE "clusters"
                 again == IF obj[c].cluster # None THEN NoClient ELSE drivers[obj[c].secret]
                 x == [sync[c] EXCEPT !.at = at, !.copy = obj[c], !.current = TRUE,
                                      !.driver = Named(c), !.again = again]
      <4>2. at \in {"find", "clusters"} /\ again \in Clients
            BY <4>1, NoClientTyped
      <4>3. sync' = [sync EXCEPT ![c] = x]
            BY <3>3
      <4> HIDE DEF at, again
      <4>4. x \in Sync
            BY <1>1, <4>1, <4>2 DEF Sync
      <4>   QED
            BY <4>3, <4>4, MovedTyped
    <3>   QED
          BY <1>6, <3>1, <3>2, <3>3 DEF TakeDriver
  <2>   QED
        BY <1>6, <2>1 DEF TakeDriver, TypeOK, QuietWorld, Around
<1>7. CASE CheckClusters(c) \/ FindCluster(c) \/ CheckAndUpdate(c)
  <2>1. sync' \in [Configs -> Sync]
    <3>1. CASE Fail(c) \/ Nil(c)
          BY <3>1, FailTyped
    <3>2. CASE sync' = [sync EXCEPT ![c].at = "make", ![c].again = NoClient]
      <4>1. [sync[c] EXCEPT !.at = "make", !.again = NoClient] \in Sync
            BY <1>1, NoClientTyped DEF Sync
      <4>2. sync' = [sync EXCEPT ![c] = [sync[c] EXCEPT !.at = "make", !.again = NoClient]]
            BY <3>2
      <4>   QED
            BY <4>1, <4>2, MovedTyped
    <3>3. CASE Go(c, "phase") \/ Go(c, "make")
          BY <3>3, GoTyped
    <3>4. CASE \E failed \in BOOLEAN : sync' = [sync EXCEPT ![c] = Ended(c, failed, TRUE)]
          BY <1>3, <3>4 DEF TypeOK
    <3>   QED
          BY <1>7, <3>1, <3>2, <3>3, <3>4 DEF CheckClusters, FindCluster, CheckAndUpdate
  <2>   QED
        BY <1>7, <2>1
        DEF CheckClusters, FindCluster, CheckAndUpdate, TypeOK, QuietWorld, Around
<1>8. CASE MakeCluster(c)
  <2>1. CASE /\ Valid(sync[c].driver) /\ Fresh # {}
             /\ cloud' = [cloud EXCEPT ![NewId] =
                   [state |-> "live", region |-> sync[c].driver.region,
                    name |-> want[c].name, by |-> c]]
             /\ sync' = [sync EXCEPT ![c].at = "record", ![c].made = NewId,
                                     ![c].driver = NoClient]
    <3>1. sync[c].driver \in Client
          BY <1>1, <2>1 DEF Valid, Sync, Clients
    <3>2. [state |-> "live", region |-> sync[c].driver.region,
           name |-> want[c].name, by |-> c] \in Cluster
          BY <3>1, WantsAssumption DEF Client, Cluster, TypeOK, Want
    <3>3. cloud' \in [Ids -> Cluster \cup {NoCluster, Gone}]
          BY <2>1, <3>2 DEF TypeOK
    <3>4. sync' \in [Configs -> Sync]
      <4> DEFINE x == [sync[c] EXCEPT !.at = "record", !.made = NewId, !.driver = NoClient]
      <4>1. x \in Sync
            BY <1>1, <2>1, NoClientTyped, FreshTyped DEF Sync
      <4>2. sync' = [sync EXCEPT ![c] = x]
            BY <2>1
      <4>   QED
            BY <4>1, <4>2, MovedTyped
    <3>   QED
          BY <1>8, <3>3, <3>4 DEF MakeCluster, TypeOK, QuietObject, Around
  <2>2. CASE (Fail(c) \/ Nil(c)) /\ UNCHANGED cloud
        BY <1>8, <2>2, FailTyped DEF MakeCluster, TypeOK, QuietObject, Around
  <2>   QED
        BY <1>8, <2>1, <2>2 DEF MakeCluster
<1>9. CASE RecordCluster(c) \/ RecordPhase(c)
  <2>1. CASE Store(c, [obj[c] EXCEPT !.cluster = sync[c].made], "phase")
    <3>1. [obj[c] EXCEPT !.cluster = sync[c].made] \in Object
          BY <1>1 DEF Object
    <3>   QED
          BY <1>9, <2>1, <3>1, StoreOnTyped DEF RecordCluster, RecordPhase, TypeOK, Around
  <2>2. CASE Store(c, [obj[c] EXCEPT !.phase = "creating"], "finish")
    <3>1. [obj[c] EXCEPT !.phase = "creating"] \in Object
          BY <1>1 DEF Object
    <3>   QED
          BY <1>9, <2>2, <3>1, StoreTyped DEF RecordCluster, RecordPhase, TypeOK, Around
  <2>3. CASE Fail(c) /\ QuietObject
        BY <1>9, <2>3, FailTyped DEF RecordCluster, RecordPhase, TypeOK, QuietObject, Around
  <2>   QED
        BY <1>9, <2>1, <2>2, <2>3 DEF RecordCluster, RecordPhase
<1>10. CASE WaitForCreationComplete(c) \/ StrikeOff(c)
  <2>1. CASE Store(c, [sync[c].copy EXCEPT !.phase = "running"], "finish")
    <3>1. [sync[c].copy EXCEPT !.phase = "running"] \in Object
          BY <1>1 DEF Object
    <3>   QED
          BY <1>10, <2>1, <3>1, StoreTyped DEF WaitForCreationComplete, StrikeOff, TypeOK, Around
  <2>2. CASE Store(c, [sync[c].copy EXCEPT !.cluster = None], "unfinalize")
    <3>1. [sync[c].copy EXCEPT !.cluster = None] \in Object
          BY <1>1 DEF Object
    <3>   QED
          BY <1>10, <2>2, <3>1, StoreOnTyped DEF WaitForCreationComplete, StrikeOff, TypeOK, Around
  <2>3. CASE (Fail(c) \/ Nil(c)) /\ QuietObject
        BY <1>10, <2>3, FailTyped
        DEF WaitForCreationComplete, StrikeOff, TypeOK, QuietObject, Around
  <2>   QED
        BY <1>10, <2>1, <2>2, <2>3 DEF WaitForCreationComplete, StrikeOff, UpdateCopy
<1>11. CASE DeleteCCECluster(c)
  <2>1. sync' \in [Configs -> Sync]
    <3>1. CASE Fail(c) \/ Nil(c)
          BY <3>1, FailTyped
    <3>2. CASE Go(c, "unfinalize") \/ Go(c, "strike")
          BY <3>2, GoTyped
    <3>3. CASE UNCHANGED sync
          BY <3>3 DEF TypeOK
    <3>   QED
          BY <1>11, <3>1, <3>2, <3>3 DEF DeleteCCECluster
  <2>2. cloud' \in [Ids -> Cluster \cup {NoCluster, Gone}]
    <3>1. cloud' = cloud \/ \E i : cloud' = [cloud EXCEPT ![i] = Gone]
          BY <1>11 DEF DeleteCCECluster
    <3>   QED
          BY <3>1 DEF TypeOK
  <2>   QED
        BY <1>11, <2>1, <2>2 DEF DeleteCCECluster, TypeOK, QuietObject, Around
<1>12. CASE RemoveFinalizer(c)
  <2>1. CASE /\ obj' = [obj EXCEPT ![c].state = "removed"]
             /\ sync' = [sync EXCEPT ![c] = Idle(c)]
             /\ UNCHANGED queued
    <3>1. [obj[c] EXCEPT !.state = "removed"] \in Object
          BY <1>1 DEF Object
    <3>2. obj' \in [Configs -> Object]
          BY <2>1, <3>1 DEF TypeOK
    <3>   QED
          BY <1>12, <2>1, <3>2, IdleTyped DEF RemoveFinalizer, TypeOK, Around
  <2>2. CASE Fail(c) /\ QuietObject
        BY <1>12, <2>2, FailTyped DEF RemoveFinalizer, TypeOK, QuietObject, Around
  <2>   QED
        BY <1>12, <2>1, <2>2 DEF RemoveFinalizer
<1>13. CASE FinishSync(c)
  <2>1. obj' \in [Configs -> Object]
    <3>1. PICK add \in BOOLEAN : obj' = [obj EXCEPT ![c].finalizer = @ \/ add]
          BY <1>13 DEF FinishSync
    <3>2. [obj[c] EXCEPT !.finalizer = @ \/ add] \in Object
          BY <1>1 DEF Object
    <3>   QED
          BY <3>1, <3>2 DEF TypeOK
  <2>2. sync' \in [Configs -> Sync] /\ queued' \subseteq Configs
        BY <1>13, IdleTyped DEF FinishSync, TypeOK
  <2>   QED
        BY <1>13, <2>1, <2>2 DEF FinishSync, TypeOK, Around
<1>14. CASE Panic(c)
  <2>1. sync' \in [Configs -> Sync] /\ drivers' \in [Secrets -> Clients] /\ queued' \subseteq Configs
        BY <1>14, IdleTyped, NoClientTyped DEF Panic, Die, Stored
  <2>   QED
        BY <1>14, <2>1 DEF Panic, Die, TypeOK, Around
<1>   QED
      BY <1>4, <1>5, <1>6, <1>7, <1>8, <1>9, <1>10, <1>11, <1>12, <1>13, <1>14 DEF Worker

OthersStep == Crash \/ UserRotates \/ \E c \in Configs : User(c)

LEMMA TouchTyped ==
    ASSUME TypeOK, NEW c \in Configs, NEW o \in Object, Touch(c, o)
    PROVE  /\ want' \in Wants /\ obj' \in [Configs -> Object] /\ queued' \subseteq Configs
           /\ sync' \in [Configs -> Sync] /\ UNCHANGED <<drivers, creds, cloud, crashes>>
<1>1. sync' \in [Configs -> Sync]
  <2> sync[c] \in Sync
      BY DEF TypeOK
  <2>1. [sync[c] EXCEPT !.current = FALSE] \in Sync
        BY DEF Sync
  <2>2. sync' = [sync EXCEPT ![c] = [sync[c] EXCEPT !.current = FALSE]]
        BY DEF Touch
  <2>   QED
        BY <2>1, <2>2, MovedTyped
<1>   QED
      BY <1>1 DEF Touch, TypeOK

LEMMA OthersTyped == ASSUME TypeOK, OthersStep PROVE TypeOK'
<1>1. CASE Crash
  <2>1. sync' \in [Configs -> Sync] /\ drivers' \in [Secrets -> Clients] /\ queued' \subseteq Configs
        BY <1>1, IdleTyped, NoClientTyped DEF Crash, Die, Stored
  <2>2. crashes' \in 0 .. MaxCrashes
        BY <1>1, BoundsAssumption DEF Crash, TypeOK
  <2>   QED
        BY <1>1, <2>1, <2>2 DEF Crash, Die, TypeOK, Around
<1>2. \A kind : Edit(kind) => edits' \in 0 .. MaxEdits
      BY BoundsAssumption DEF Edit, TypeOK
<1>3. CASE UserRotates
  <2>1. PICK s \in {obj[c].secret : c \in Stored \cap Edited} :
        \/ Edit("rotate") /\ creds[s].there /\ creds' = [creds EXCEPT ![s].key = @ + 1]
        \/ Edit("revoke") /\ creds[s].there /\ creds' = [creds EXCEPT ![s].there = FALSE]
        \/ ~creds[s].there /\ creds' = [creds EXCEPT ![s].there = TRUE] /\ UNCHANGED edits
        BY <1>3 DEF UserRotates
  <2>2. s \in Secrets
        BY DEF Stored, TypeOK, Object
  <2>3. creds' \in [Secrets -> [there : BOOLEAN, key : Nat]]
    <3>1. creds[s] \in [there : BOOLEAN, key : Nat]
          BY <2>2 DEF TypeOK
    <3>2. PICK x \in [there : BOOLEAN, key : Nat] : creds' = [creds EXCEPT ![s] = x]
      <4>1. /\ [creds[s] EXCEPT !.key = @ + 1] \in [there : BOOLEAN, key : Nat]
            /\ \A b \in BOOLEAN : [creds[s] EXCEPT !.there = b] \in [there : BOOLEAN, key : Nat]
            BY <3>1
      <4>   QED
            BY <2>1, <4>1
    <3>   QED
          BY <3>2 DEF TypeOK
  <2>4. edits' \in 0 .. MaxEdits
        BY <1>2, <2>1 DEF TypeOK
  <2>   QED
        BY <1>3, <2>3, <2>4 DEF UserRotates, TypeOK
<1>4. ASSUME NEW c \in Configs, User(c) PROVE TypeOK'
  <2>1. obj[c] \in Object
        BY DEF TypeOK
  <2>2. CASE UserCreates(c)
    <3>1. [obj[c] EXCEPT !.state = "live"] \in Object
          BY <2>1 DEF Object
    <3>   QED
          BY <2>2, <3>1, TouchTyped DEF UserCreates, TypeOK
  <2>3. CASE UserDeletes(c)
    <3>1. [obj[c] EXCEPT !.state = IF obj[c].finalizer THEN "deleting" ELSE "dropped"] \in Object
          BY <2>1 DEF Object
    <3>   QED
          BY <2>3, <3>1, TouchTyped DEF UserDeletes, TypeOK
  <2>4. CASE UserEditsSecret(c)
    <3>1. PICK s \in Secrets : /\ Touch(c, [obj[c] EXCEPT !.secret = s])
                               /\ had' = [had EXCEPT ![c] = @ \cup {s}]
          BY <2>4 DEF UserEditsSecret
    <3>2. [obj[c] EXCEPT !.secret = s] \in Object
          BY <2>1 DEF Object
    <3>3. had' \in [Configs -> SUBSET Secrets]
          BY <3>1 DEF TypeOK
    <3>4. edits' \in 0 .. MaxEdits
          BY <1>2, <2>4 DEF UserEditsSecret
    <3>   QED
          BY <3>1, <3>2, <3>3, <3>4, TouchTyped DEF TypeOK
  <2>   QED
        BY <1>4, <2>2, <2>3, <2>4 DEF User
<1>   QED
      BY <1>1, <1>3, <1>4 DEF OthersStep

(* Every variable keeps its type: only stored configurations are queued,    *)
(* and what the map holds is a client or nothing.                           *)
THEOREM TypeCorrect == Spec => []TypeOK
<1>1. Init => TypeOK
  <2> SUFFICES ASSUME Init PROVE TypeOK
      OBVIOUS
  <2>1. \A c \in Configs : want[c].secret \in Secrets
        BY WantsAssumption DEF Init, Want
  <2>2. obj \in [Configs -> Object]
        BY <2>1 DEF Init, Unborn, Object
  <2>3. sync \in [Configs -> Sync]
        BY <2>1, NoClientTyped DEF Init, Idle, Unborn, Object, Sync
  <2>4. drivers \in [Secrets -> Clients] /\ creds \in [Secrets -> [there : BOOLEAN, key : Nat]]
        BY NoClientTyped DEF Init
  <2>5. had \in [Configs -> SUBSET Secrets] /\ queued \subseteq Configs
        BY <2>1, WantsAssumption DEF Init
  <2>   QED
        BY <2>2, <2>3, <2>4, <2>5, BoundsAssumption DEF Init, TypeOK
<1>2. TypeOK /\ [Next]_vars => TypeOK'
  <2>1. CASE UNCHANGED vars
        BY <2>1 DEF vars, TypeOK
  <2>   QED
        BY <2>1, WorkerTyped, OthersTyped DEF Next, OthersStep
<1>   QED
      BY <1>1, <1>2, PTL DEF Spec

-----------------------------------------------------------------------------
(* Whose clients there are, and whose clusters.                            *)

Home(c, d) == d = NoClient \/ d.region = want[c].region \/ Mixed(c)

(* A client in the map was made for a configuration that has named the     *)
(* secret it is under.                                                     *)
MapKnown ==
    \A s \in Secrets :
        \/ drivers[s] = NoClient
        \/ \E c \in Configs : s \in had[c] /\ drivers[s].region = want[c].region

(* An identifier configuration c knows stands for a cluster it has made.   *)
OwnCluster(c, i) ==
    i = None \/ (cloud[i] # NoCluster /\ (i \in Existing => cloud[i].by = c))

SyncKnown(c) ==
    /\ want[c].secret \in had[c] /\ obj[c].secret \in had[c] /\ sync[c].copy.secret \in had[c]
    /\ sync[c].auth = NoClient \/ sync[c].auth.region = want[c].region
    /\ Home(c, sync[c].driver) /\ Home(c, sync[c].again)
    /\ sync[c].current /\ ~At(c, "finish") => sync[c].copy = obj[c]
    /\ OwnCluster(c, obj[c].cluster) /\ OwnCluster(c, sync[c].copy.cluster)
    /\ OwnCluster(c, sync[c].made)
    /\ At(c, "strike") => sync[c].copy.cluster \notin Existing \/ Mixed(c)
    /\ At(c, "record") => sync[c].made # None

ClientInv == MapKnown /\ HomeRegion /\ \A c \in Configs : SyncKnown(c)

(* Clusters come from nothing and go for good. *)
CloudKept == \A i \in Ids : cloud'[i] = cloud[i] \/ cloud[i] = NoCluster \/ cloud'[i] = Gone

Struck == \A c \in Configs : obj[c].cluster # None /\ obj'[c].cluster = None =>
              obj[c].cluster \notin Existing \/ Mixed(c)

-----------------------------------------------------------------------------
LEMMA HomeFromMap ==
    ASSUME TypeOK, MapKnown, NEW c \in Configs, NEW s \in Secrets, s \in had[c]
    PROVE  Home(c, drivers[s])
BY DEF MapKnown, Home, Mixed

LEMMA OwnKept ==
    ASSUME TypeOK, CloudKept, NEW c \in Configs, NEW i \in Ids \cup {None}, OwnCluster(c, i)
    PROVE  OwnCluster(c, i)'
BY DEF OwnCluster, CloudKept, Existing, Gone, NoCluster

LEMMA GoneStays ==
    ASSUME CloudKept, NEW i \in Ids, cloud[i] # NoCluster, i \notin Existing
    PROVE  i \notin Existing'
BY DEF CloudKept, Existing, Gone, NoCluster

LEMMA StrikeStays ==
    ASSUME TypeOK, CloudKept, UNCHANGED <<want, had>>, NEW c \in Configs, NEW i \in Ids \cup {None},
           OwnCluster(c, i), i \notin Existing \/ Mixed(c)
    PROVE  (i \notin Existing \/ Mixed(c))'
<1>1. CASE Mixed(c)
      BY <1>1 DEF Mixed
<1>2. CASE i = None
      BY <1>2, NoneAssumption DEF Existing
<1>3. CASE i # None /\ i \notin Existing
      BY <1>3, GoneStays DEF OwnCluster
<1>   QED
      BY <1>1, <1>2, <1>3

LEMMA HomeStays ==
    ASSUME UNCHANGED <<want, had>>, NEW c, NEW d, Home(c, d) PROVE Home(c, d)'
BY DEF Home, Mixed

(* The configurations a step is not about. *)
LEMMA NeighbourKnown ==
    ASSUME TypeOK, CloudKept, UNCHANGED <<want, had>>, NEW d \in Configs, SyncKnown(d),
           obj'[d] = obj[d], sync'[d] = sync[d]
    PROVE  SyncKnown(d)'
<1>1. /\ obj[d].cluster \in Ids \cup {None} /\ sync[d].copy.cluster \in Ids \cup {None}
      /\ sync[d].made \in Ids \cup {None}
      BY DEF TypeOK, Sync, Object
<1>2. /\ OwnCluster(d, obj[d].cluster)' /\ OwnCluster(d, sync[d].copy.cluster)'
      /\ OwnCluster(d, sync[d].made)'
      BY <1>1, OwnKept DEF SyncKnown
<1>3. Home(d, sync[d].driver)' /\ Home(d, sync[d].again)'
      BY HomeStays DEF SyncKnown, Home
<1>4. At(d, "strike")' => (sync[d].copy.cluster \notin Existing \/ Mixed(d))'
      BY <1>1, StrikeStays DEF SyncKnown, At
<1>   QED
      BY <1>2, <1>3, <1>4 DEF SyncKnown, At

(* A sync with nothing in hand. *)
Resting(x, c) ==
    /\ x.at \in {"idle", "finish", "panic"} /\ x.copy = Unborn(c)
    /\ x.auth = NoClient /\ x.driver = NoClient /\ x.again = NoClient /\ x.made = None
    /\ x.current => x.at = "finish"

LEMMA RestingKnown ==
    ASSUME TypeOK, UNCHANGED <<want, had>>, NEW c \in Configs, SyncKnown(c),
           obj'[c].secret = obj[c].secret, OwnCluster(c, obj[c].cluster)',
           Resting(sync'[c], c)
    PROVE  SyncKnown(c)'
<1> DEFINE x == sync'[c]
<1>1. x.copy.secret = want[c].secret /\ x.copy.cluster = None
  <2>1. x.copy = Unborn(c)
        BY DEF Resting
  <2>2. Unborn(c).secret = want[c].secret /\ Unborn(c).cluster = None
        BY DEF Unborn
  <2>   QED
        BY <2>1, <2>2
<1>2. OwnCluster(c, sync[c].copy.cluster)' /\ OwnCluster(c, sync[c].made)'
      BY <1>1 DEF Resting, OwnCluster
<1>3. Home(c, sync[c].driver)' /\ Home(c, sync[c].again)'
      BY DEF Resting, Home
<1>   QED
      BY <1>1, <1>2, <1>3 DEF SyncKnown, Resting, At

LEMMA IdleResting ==
    ASSUME NEW c, NEW failed, NEW current
    PROVE  /\ Resting(Idle(c), c) /\ Resting([Idle(c) EXCEPT !.at = "panic"], c)
           /\ Resting(Ended(c, failed, current), c)
BY DEF Resting, Idle, Ended

-----------------------------------------------------------------------------
(* A step of configuration c: the others keep their objects and syncs.     *)
StepOf(c) ==
    /\ UNCHANGED <<want, had>>
    /\ \A d \in Configs \ {c} : obj'[d] = obj[d] /\ sync'[d] = sync[d]

StruckAt(c) ==
    obj[c].cluster # None /\ obj'[c].cluster = None => obj[c].cluster \notin Existing \/ Mixed(c)

LEMMA StepKnown ==
    ASSUME TypeOK, ClientInv, NEW c \in Configs, StepOf(c), CloudKept, StruckAt(c),
           SyncKnown(c)', MapKnown', HomeRegion'
    PROVE  ClientInv' /\ Struck
<1>1. ASSUME NEW d \in Configs, d # c PROVE SyncKnown(d)'
      BY <1>1, NeighbourKnown DEF StepOf, ClientInv
<1>2. Struck
      BY DEF Struck, StruckAt, StepOf
<1>   QED
      BY <1>1, <1>2 DEF ClientInv

LEMMA QuietCloud ==
    ASSUME TypeOK, HomeRegion, UNCHANGED <<want, had, cloud>> PROVE CloudKept /\ HomeRegion'
BY DEF CloudKept, HomeRegion, Existing, Mixed

LEMMA QuietMap == ASSUME MapKnown, UNCHANGED <<want, had, drivers>> PROVE MapKnown'
BY DEF MapKnown

LEMMA QuietKnown ==
    ASSUME TypeOK, ClientInv, NEW c \in Configs, StepOf(c), UNCHANGED <<cloud, drivers>>,
           StruckAt(c), SyncKnown(c)'
    PROVE  ClientInv' /\ Struck
BY StepKnown, QuietCloud, QuietMap DEF StepOf, ClientInv

(* The sync of c ends, or comes down with the process. *)
LEMMA EndKnown ==
    ASSUME TypeOK, ClientInv, NEW c \in Configs, StepOf(c), UNCHANGED <<cloud, drivers, obj>>,
           Fail(c) \/ Nil(c) \/ \E failed \in BOOLEAN : sync' = [sync EXCEPT ![c] = Ended(c, failed, TRUE)]
    PROVE  ClientInv' /\ Struck
<1>1. Resting(sync'[c], c)
  <2>1. CASE Fail(c)
    <3>1. sync'[c] = Ended(c, TRUE, sync[c].current)
          BY <2>1 DEF Fail, End, TypeOK
    <3>2. Resting(Ended(c, TRUE, sync[c].current), c)
          BY IdleResting
    <3>   QED
          BY <3>1, <3>2
  <2>2. CASE Nil(c)
    <3>1. sync'[c] = [Idle(c) EXCEPT !.at = "panic"]
          BY <2>2 DEF Nil, TypeOK
    <3>   QED
          BY <3>1, IdleResting
  <2>3. CASE \E failed \in BOOLEAN : sync' = [sync EXCEPT ![c] = Ended(c, failed, TRUE)]
    <3>1. PICK failed \in BOOLEAN : sync'[c] = Ended(c, failed, TRUE)
          BY <2>3 DEF TypeOK
    <3>2. Resting(Ended(c, failed, TRUE), c)
          BY IdleResting
    <3>   QED
          BY <3>1, <3>2
  <2>   QED
        BY <2>1, <2>2, <2>3
<1>2. OwnCluster(c, obj[c].cluster)'
      BY DEF ClientInv, SyncKnown, OwnCluster, Existing
<1>3. SyncKnown(c)'
      BY <1>1, <1>2, RestingKnown DEF StepOf, ClientInv
<1>   QED
      BY <1>3, QuietKnown DEF StruckAt

(* A write of the sync. *)
LEMMA StoreKnown ==
    ASSUME TypeOK, ClientInv, NEW c \in Configs, UNCHANGED <<want, had, cloud, drivers>>,
           NEW o \in Object, NEW step \in {"phase", "unfinalize", "finish"}, Store(c, o, step),
           o.secret = obj[c].secret, OwnCluster(c, o.cluster),
           obj[c].cluster # None /\ o.cluster = None =>
               obj[c].cluster \notin Existing \/ Mixed(c)
    PROVE  ClientInv' /\ Struck
<1>1. obj'[c] = o
      BY DEF Store, TypeOK
<1>2. StepOf(c)
      BY DEF StepOf, Store, TypeOK
<1>3. OwnCluster(c, obj[c].cluster)'
      BY <1>1 DEF OwnCluster, Existing
<1>4. CASE step = "finish"
  <2>1. Resting(sync'[c], c)
        BY <1>4, IdleResting DEF Store, TypeOK
  <2>2. SyncKnown(c)'
        BY <1>1, <1>3, <2>1, RestingKnown DEF ClientInv
  <2>   QED
        BY <1>1, <1>2, <2>2, QuietKnown DEF StruckAt
<1>5. CASE step # "finish"
  <2>1. sync'[c] = [Idle(c) EXCEPT !.at = step, !.copy = o, !.current = TRUE]
        BY <1>5 DEF Store, TypeOK
  <2>2. /\ sync'[c].at = step /\ sync'[c].copy = o
        /\ sync'[c].auth = NoClient /\ sync'[c].driver = NoClient /\ sync'[c].again = NoClient
        /\ sync'[c].made = None
        BY <2>1 DEF Idle
  <2>3. SyncKnown(c)'
        BY <1>1, <1>3, <2>2 DEF ClientInv, SyncKnown, At, Home, OwnCluster
  <2>   QED
        BY <1>1, <1>2, <2>3, QuietKnown DEF StruckAt
<1>   QED
      BY <1>4, <1>5

(* A step that only moves on, or takes clients. *)
LEMMA MoveKnown ==
    ASSUME TypeOK, ClientInv, NEW c \in Configs, StepOf(c), UNCHANGED <<cloud, drivers, obj>>,
           sync'[c].at \notin {"strike", "record", "finish"},
           \/ sync'[c].copy = sync[c].copy /\ sync'[c].current = sync[c].current /\ ~At(c, "finish")
           \/ sync'[c].copy = obj[c],
           sync'[c].auth \in {sync[c].auth, NoClient},
           Home(c, sync'[c].driver), Home(c, sync'[c].again),
           sync'[c].made = sync[c].made
    PROVE  ClientInv' /\ Struck
<1>1. Home(c, sync[c].driver)' /\ Home(c, sync[c].again)'
      BY HomeStays DEF StepOf, Home, Mixed
<1>2. /\ OwnCluster(c, obj[c].cluster)' /\ OwnCluster(c, sync[c].copy.cluster)'
      /\ OwnCluster(c, sync[c].made)'
      BY DEF ClientInv, SyncKnown, OwnCluster, Existing
<1>3. sync'[c].copy.secret \in had[c]
      BY DEF ClientInv, SyncKnown
<1>4. sync'[c].current => sync'[c].copy = obj[c]
      BY DEF ClientInv, SyncKnown, At
<1>5. SyncKnown(c)'
      BY <1>1, <1>2, <1>3, <1>4 DEF ClientInv, SyncKnown, At, StepOf
<1>   QED
      BY <1>5, QuietKnown DEF StruckAt

(* Each step of a sync. *)
LEMMA WorkerKnown ==
    ASSUME TypeOK, ClientInv, NEW c \in Configs, Worker(c), ~Panic(c)
    PROVE  ClientInv' /\ Struck
<1>1. /\ obj[c] \in Object /\ sync[c] \in Sync /\ sync[c].copy \in Object
      /\ obj[c].secret \in Secrets /\ sync[c].copy.secret \in Secrets
      /\ sync[c].made \in Ids \cup {None} /\ SyncKnown(c) /\ MapKnown /\ HomeRegion
      BY DEF TypeOK, Sync, Object, ClientInv
<1>2. Home(c, Named(c)) /\ Home(c, drivers[obj[c].secret])
      BY <1>1, HomeFromMap DEF SyncKnown, Named
<1>3. Home(c, sync[c].driver) /\ Home(c, sync[c].again) /\ Home(c, NoClient)
      BY <1>1 DEF SyncKnown, Home
<1>4. CASE StartSync(c)
  <2>1. StepOf(c) /\ UNCHANGED <<cloud, drivers, obj>>
        BY <1>4 DEF StartSync, StepOf, Around, TypeOK
  <2> DEFINE start(step) == [Idle(c) EXCEPT !.at = step, !.copy = obj[c], !.current = TRUE]
  <2>2. Dispatch(obj[c]) \in {"remove", "take", "wait", "check"}
        BY <1>1, DispatchTyped
  <2>3. CASE sync' = [sync EXCEPT ![c] = [start("writing") EXCEPT !.auth = NewHuaweiClientAuth(c)]]
    <3>1. sync'[c] = [start("writing") EXCEPT !.auth = NewHuaweiClientAuth(c)]
          BY <2>3 DEF TypeOK
    <3>2. /\ sync'[c].at = "writing" /\ sync'[c].copy = obj[c]
          /\ sync'[c].auth = NewHuaweiClientAuth(c)
          /\ sync'[c].driver = NoClient /\ sync'[c].again = NoClient /\ sync'[c].made = None
          BY <3>1 DEF Idle
    <3>3. sync'[c].auth.region = want[c].region
          BY <3>2 DEF NewHuaweiClientAuth
    <3>4. /\ OwnCluster(c, obj[c].cluster)' /\ OwnCluster(c, sync[c].copy.cluster)'
          /\ OwnCluster(c, sync[c].made)'
          BY <1>1, <2>1, <3>2 DEF SyncKnown, OwnCluster, Existing
    <3>5. SyncKnown(c)'
          BY <1>1, <2>1, <3>2, <3>3, <3>4 DEF SyncKnown, At, StepOf, Home
    <3>   QED
          BY <2>1, <3>5, QuietKnown DEF StruckAt
  <2>4. CASE sync' = [sync EXCEPT ![c] = start(Dispatch(obj[c]))]
    <3>1. sync'[c] = start(Dispatch(obj[c]))
          BY <2>4 DEF TypeOK
    <3>2. /\ sync'[c].at = Dispatch(obj[c]) /\ sync'[c].copy = obj[c]
          /\ sync'[c].auth = NoClient
          /\ sync'[c].driver = NoClient /\ sync'[c].again = NoClient /\ sync'[c].made = None
          BY <3>1 DEF Idle
    <3>3. /\ OwnCluster(c, obj[c].cluster)' /\ OwnCluster(c, sync[c].copy.cluster)'
          /\ OwnCluster(c, sync[c].made)'
          BY <1>1, <2>1, <3>2 DEF SyncKnown, OwnCluster, Existing
    <3>4. SyncKnown(c)'
          BY <1>1, <2>1, <2>2, <3>2, <3>3 DEF SyncKnown, At, StepOf, Home
    <3>   QED
          BY <2>1, <3>4, QuietKnown DEF StruckAt
  <2>5. CASE sync' = [sync EXCEPT ![c] = Ended(c, TRUE, TRUE)]
        BY <2>1, <2>5, EndKnown
  <2>6. CASE sync' = sync
    <3>1. SyncKnown(c)'
          BY <1>1, <2>1, <2>6, NeighbourKnown, QuietCloud DEF StepOf
    <3>   QED
          BY <2>1, <3>1, QuietKnown DEF StruckAt
  <2>   QED
        BY <1>4, <2>3, <2>4, <2>5, <2>6 DEF StartSync
<1>5. CASE WriteDriver(c)
  <2>1. /\ StepOf(c) /\ UNCHANGED <<cloud, obj>> /\ At(c, "writing")
        /\ drivers' = [drivers EXCEPT ![sync[c].copy.secret] = sync[c].auth]
        BY <1>5 DEF WriteDriver, StepOf, Around, QuietObject, TypeOK
  <2>2. MapKnown'
    <3> SUFFICES ASSUME NEW s \in Secrets
                 PROVE  \/ drivers'[s] = NoClient
                        \/ \E d \in Configs : s \in had[d] /\ drivers'[s].region = want[d].region
        BY <2>1 DEF MapKnown, StepOf
    <3>1. CASE s = sync[c].copy.secret
      <4>1. drivers'[s] = sync[c].auth /\ s \in had[c]
            BY <1>1, <2>1, <3>1 DEF TypeOK, SyncKnown
      <4>   QED
            BY <1>1, <4>1 DEF SyncKnown
    <3>2. CASE s # sync[c].copy.secret
          BY <1>1, <2>1, <3>2 DEF TypeOK, MapKnown
    <3>   QED
          BY <3>1, <3>2
  <2>3. Dispatch(sync[c].copy) \in {"remove", "take", "wait", "check"}
        BY <1>1, DispatchTyped
  <2>4. /\ sync'[c].at = Dispatch(sync[c].copy) /\ sync'[c].copy = sync[c].copy
        /\ sync'[c].current = sync[c].current /\ sync'[c].auth = NoClient
        /\ sync'[c].driver = sync[c].driver /\ sync'[c].again = sync[c].again
        /\ sync'[c].made = sync[c].made
        BY <1>1, <1>5 DEF WriteDriver, TypeOK, Sync
  <2>5. /\ OwnCluster(c, obj[c].cluster)' /\ OwnCluster(c, sync[c].copy.cluster)'
        /\ OwnCluster(c, sync[c].made)'
        BY <1>1, <2>1, <2>4 DEF SyncKnown, OwnCluster, Existing
  <2>6. Home(c, sync[c].driver)' /\ Home(c, sync[c].again)'
        BY <1>3, <2>1, <2>4, HomeStays DEF StepOf, Home, Mixed
  <2>7. SyncKnown(c)'
        BY <1>1, <2>1, <2>3, <2>4, <2>5, <2>6 DEF SyncKnown, At, StepOf
  <2>   QED
        BY <1>1, <2>1, <2>2, <2>7, QuietCloud, StepKnown DEF StruckAt, StepOf
<1>6. CASE TakeDriver(c)
  <2>1. StepOf(c) /\ UNCHANGED <<cloud, drivers, obj>>
        BY <1>6 DEF TakeDriver, Fail, End, StepOf, Around, QuietWorld, TypeOK
  <2>2. CASE Fail(c) \/ sync' = [sync EXCEPT ![c] = Ended(c, TRUE, TRUE)]
        BY <2>1, <2>2, EndKnown
  <2>3. CASE sync' = [sync EXCEPT
                ![c].at = IF obj[c].cluster # None THEN "find" ELSE "clusters",
                ![c].copy = obj[c], ![c].current = TRUE,
                ![c].driver = Named(c),
                ![c].again = IF obj[c].cluster # None THEN NoClient
                             ELSE drivers[obj[c].secret]]
    <3>1. /\ sync'[c].at \in {"find", "clusters"} /\ sync'[c].copy = obj[c]
          /\ sync'[c].driver = Named(c)
          /\ sync'[c].again \in {NoClient, drivers[obj[c].secret]}
          /\ sync'[c].auth = sync[c].auth /\ sync'[c].made = sync[c].made
          BY <1>1, <2>3 DEF TypeOK, Sync
    <3>   QED
          BY <1>2, <1>3, <2>1, <3>1, MoveKnown
  <2>   QED
        BY <1>6, <2>2, <2>3 DEF TakeDriver
<1>7. CASE CheckClusters(c) \/ FindCluster(c) \/ CheckAndUpdate(c)
  <2>1. StepOf(c) /\ UNCHANGED <<cloud, drivers, obj>> /\ ~At(c, "finish")
        BY <1>7 DEF CheckClusters, FindCluster, CheckAndUpdate, Fail, Nil, End, Go, StepOf, Around,
                    QuietWorld, TypeOK, At
  <2>2. CASE Fail(c) \/ Nil(c) \/ \E failed \in BOOLEAN : sync' = [sync EXCEPT ![c] = Ended(c, failed, TRUE)]
        BY <2>1, <2>2, EndKnown
  <2>3. CASE \/ sync' = [sync EXCEPT ![c].at = "make", ![c].again = NoClient]
             \/ Go(c, "phase") \/ Go(c, "make")
    <3>1. /\ sync'[c].at \in {"make", "phase"} /\ sync'[c].copy = sync[c].copy
          /\ sync'[c].current = sync[c].current /\ sync'[c].driver = sync[c].driver
          /\ sync'[c].again \in {NoClient, sync[c].again}
          /\ sync'[c].auth = sync[c].auth /\ sync'[c].made = sync[c].made
          BY <1>1, <2>3 DEF Go, TypeOK, Sync
    <3>   QED
          BY <1>3, <2>1, <3>1, MoveKnown
  <2>   QED
        BY <1>7, <2>2, <2>3 DEF CheckClusters, FindCluster, CheckAndUpdate
<1>8. CASE MakeCluster(c)
  <2>1. StepOf(c) /\ UNCHANGED <<drivers, obj>>
        BY <1>8 DEF MakeCluster, Fail, Nil, End, StepOf, Around, QuietObject, TypeOK
  <2>2. CASE (Fail(c) \/ Nil(c)) /\ UNCHANGED cloud
        BY <2>1, <2>2, EndKnown
  <2>3. CASE /\ Valid(sync[c].driver) /\ Fresh # {}
             /\ cloud' = [cloud EXCEPT ![NewId] =
                   [state |-> "live", region |-> sync[c].driver.region,
                    name |-> want[c].name, by |-> c]]
             /\ sync' = [sync EXCEPT ![c].at = "record", ![c].made = NewId,
                                     ![c].driver = NoClient]
    <3> DEFINE i == NewId
    <3>1. i \in Ids /\ cloud[i] = NoCluster
          BY <2>3, FreshTyped
    <3> HIDE DEF i
    <3>2. /\ \A j \in Ids : j # i => cloud'[j] = cloud[j]
          /\ cloud'[i] = [state |-> "live", region |-> sync[c].driver.region,
                          name |-> want[c].name, by |-> c]
          BY <2>3, <3>1 DEF TypeOK, i
    <3>3. cloud'[i].state = "live" /\ cloud'[i].region = sync[c].driver.region /\ cloud'[i].by = c
          BY <3>2
    <3>4. CloudKept
          BY <3>1, <3>2 DEF CloudKept
    <3>5. HomeRegion'
      <4> SUFFICES ASSUME NEW j \in Existing'
                   PROVE  cloud'[j].region = want[cloud'[j].by].region \/ Mixed(cloud'[j].by)
          BY <2>1 DEF HomeRegion, StepOf, Mixed
      <4>1. CASE j = i
            BY <1>3, <2>3, <3>3, <4>1 DEF Home, Valid
      <4>2. CASE j # i
            BY <1>1, <3>2, <4>2 DEF HomeRegion, Existing
      <4>   QED
            BY <4>1, <4>2
    <3>6. /\ sync'[c].at = "record" /\ sync'[c].copy = sync[c].copy
          /\ sync'[c].current = sync[c].current /\ sync'[c].driver = NoClient
          /\ sync'[c].again = sync[c].again
          /\ sync'[c].auth = sync[c].auth /\ sync'[c].made = i
          BY <1>1, <2>3 DEF TypeOK, Sync, i
    <3>7. OwnCluster(c, sync[c].made)' /\ i # None
          BY <3>1, <3>3, <3>6, NoneAssumption DEF OwnCluster, NoCluster
    <3>8. OwnCluster(c, obj[c].cluster)' /\ OwnCluster(c, sync[c].copy.cluster)'
      <4>1. obj[c].cluster \in Ids \cup {None} /\ sync[c].copy.cluster \in Ids \cup {None}
            BY <1>1 DEF Object
      <4>2. OwnCluster(c, obj[c].cluster) /\ OwnCluster(c, sync[c].copy.cluster)
            BY <1>1 DEF SyncKnown
      <4>   QED
            BY <2>1, <3>4, <3>6, <4>1, <4>2, OwnKept
    <3>9. Home(c, sync[c].driver)' /\ Home(c, sync[c].again)'
          BY <1>3, <2>1, <3>6, HomeStays DEF StepOf, Home, Mixed
    <3>10. sync[c].current => sync[c].copy = obj[c]
          BY <1>1, <1>8 DEF MakeCluster, SyncKnown, At
    <3>11. SyncKnown(c)'
          BY <1>1, <2>1, <3>6, <3>7, <3>8, <3>9, <3>10 DEF SyncKnown, At, StepOf
    <3>   QED
          BY <1>1, <2>1, <3>4, <3>5, <3>11, QuietMap, StepKnown DEF StruckAt, StepOf
  <2>   QED
        BY <1>8, <2>2, <2>3 DEF MakeCluster
<1>9. CASE RecordCluster(c) \/ RecordPhase(c)
  <2>1. UNCHANGED <<want, had, cloud, drivers>>
        BY <1>9 DEF RecordCluster, RecordPhase, Around
  <2>2. CASE At(c, "record") /\ Store(c, [obj[c] EXCEPT !.cluster = sync[c].made], "phase")
    <3> DEFINE o == [obj[c] EXCEPT !.cluster = sync[c].made]
    <3>1. o \in Object /\ o.secret = obj[c].secret /\ o.cluster = sync[c].made
          BY <1>1 DEF Object
    <3> HIDE DEF o
    <3>2. OwnCluster(c, o.cluster) /\ o.cluster # None
          BY <1>1, <2>2, <3>1 DEF SyncKnown
    <3>   QED
          BY <2>1, <2>2, <3>1, <3>2, StoreKnown DEF o
  <2>3. CASE Store(c, [obj[c] EXCEPT !.phase = "creating"], "finish")
    <3> DEFINE o == [obj[c] EXCEPT !.phase = "creating"]
    <3>1. o \in Object /\ o.secret = obj[c].secret /\ o.cluster = obj[c].cluster
          BY <1>1 DEF Object
    <3> HIDE DEF o
    <3>2. OwnCluster(c, o.cluster)
          BY <1>1, <3>1 DEF SyncKnown
    <3>   QED
          BY <2>1, <2>3, <3>1, <3>2, StoreKnown DEF o
  <2>4. CASE Fail(c) /\ QuietObject
    <3>1. StepOf(c) /\ UNCHANGED obj
          BY <2>1, <2>4 DEF StepOf, Fail, End, QuietObject, TypeOK
    <3>   QED
          BY <2>1, <2>4, <3>1, EndKnown
  <2>   QED
        BY <1>9, <2>2, <2>3, <2>4 DEF RecordCluster, RecordPhase
<1>10. CASE WaitForCreationComplete(c) \/ StrikeOff(c)
  <2>1. UNCHANGED <<want, had, cloud, drivers>>
        BY <1>10 DEF WaitForCreationComplete, StrikeOff, Around
  <2>2. sync[c].current => sync[c].copy = obj[c]
        BY <1>1, <1>10 DEF WaitForCreationComplete, StrikeOff, SyncKnown, At
  <2>3. CASE sync[c].current /\ Store(c, [sync[c].copy EXCEPT !.phase = "running"], "finish")
    <3> DEFINE o == [sync[c].copy EXCEPT !.phase = "running"]
    <3>1. o \in Object /\ o.secret = obj[c].secret /\ o.cluster = obj[c].cluster
          BY <1>1, <2>2, <2>3 DEF Object
    <3> HIDE DEF o
    <3>2. OwnCluster(c, o.cluster)
          BY <1>1, <3>1 DEF SyncKnown
    <3>   QED
          BY <2>1, <2>3, <3>1, <3>2, StoreKnown DEF o
  <2>4. CASE /\ At(c, "strike") /\ sync[c].current
             /\ Store(c, [sync[c].copy EXCEPT !.cluster = None], "unfinalize")
    <3> DEFINE o == [sync[c].copy EXCEPT !.cluster = None]
    <3>1. o \in Object /\ o.secret = obj[c].secret /\ o.cluster = None
          BY <1>1, <2>2, <2>4 DEF Object
    <3> HIDE DEF o
    <3>2. OwnCluster(c, o.cluster)
          BY <3>1 DEF OwnCluster
    <3>3. obj[c].cluster \notin Existing \/ Mixed(c)
          BY <1>1, <2>2, <2>4 DEF SyncKnown
    <3>   QED
          BY <2>1, <2>4, <3>1, <3>2, <3>3, StoreKnown DEF o
  <2>5. CASE (Fail(c) \/ Nil(c)) /\ QuietObject
    <3>1. StepOf(c) /\ UNCHANGED obj
          BY <2>1, <2>5 DEF StepOf, Fail, Nil, End, QuietObject, TypeOK
    <3>   QED
          BY <2>1, <2>5, <3>1, EndKnown
  <2>   QED
        BY <1>10, <2>3, <2>4, <2>5 DEF WaitForCreationComplete, StrikeOff, UpdateCopy
<1>11. CASE DeleteCCECluster(c)
  <2> DEFINE d == Named(c)
             i == sync[c].copy.cluster
  <2>1. StepOf(c) /\ UNCHANGED <<drivers, obj>> /\ At(c, "remove")
        BY <1>11 DEF DeleteCCECluster, Fail, Nil, End, Go, StepOf, Around, QuietObject, TypeOK
  <2>2. CASE (Fail(c) \/ Nil(c)) /\ UNCHANGED cloud
        BY <2>1, <2>2, EndKnown
  <2>3. ASSUME NEW step \in {"unfinalize", "strike"}, Go(c, step)
        PROVE  /\ sync'[c].at = step /\ sync'[c].copy = sync[c].copy
               /\ sync'[c].current = sync[c].current /\ sync'[c].driver = sync[c].driver
               /\ sync'[c].again = sync[c].again
               /\ sync'[c].auth = sync[c].auth /\ sync'[c].made = sync[c].made
        BY <1>1, <2>3 DEF Go, TypeOK, Sync
  <2>4. CASE Go(c, "unfinalize") /\ UNCHANGED cloud
        BY <1>3, <2>1, <2>3, <2>4, MoveKnown DEF At
  <2>5. CASE /\ i # None /\ Valid(d) /\ ~Sees(d, i)
             /\ Go(c, "strike") /\ UNCHANGED cloud
    <3>1. i \notin Existing \/ Mixed(c)
          BY <1>1, <1>2, <2>5 DEF Sees, Home, HomeRegion, SyncKnown, OwnCluster, Valid
    <3>2. /\ OwnCluster(c, obj[c].cluster)' /\ OwnCluster(c, sync[c].copy.cluster)'
          /\ OwnCluster(c, sync[c].made)'
          BY <1>1, <2>1, <2>3, <2>5 DEF SyncKnown, OwnCluster, Existing
    <3>3. Home(c, sync[c].driver)' /\ Home(c, sync[c].again)'
          BY <1>3, <2>1, <2>3, <2>5, HomeStays DEF StepOf, Home, Mixed
    <3>4. (sync[c].copy.cluster \notin Existing \/ Mixed(c))'
          BY <2>1, <2>3, <2>5, <3>1 DEF Existing, Mixed, StepOf
    <3>5. SyncKnown(c)'
          BY <1>1, <2>1, <2>3, <2>5, <3>2, <3>3, <3>4 DEF SyncKnown, At, StepOf
    <3>   QED
          BY <2>1, <2>5, <3>5, QuietKnown DEF StruckAt
  <2>6. CASE /\ Valid(d) /\ Sees(d, i)
             /\ cloud' = [cloud EXCEPT ![i] = Gone]
             /\ UNCHANGED sync
    <3>1. CloudKept
          BY <2>6 DEF CloudKept, TypeOK
    <3>2. HomeRegion'
          BY <1>1, <2>1, <2>6 DEF HomeRegion, Existing, StepOf, Mixed, Gone, NoCluster, TypeOK
    <3>3. SyncKnown(c)'
          BY <1>1, <2>1, <2>6, <3>1, NeighbourKnown DEF StepOf
    <3>   QED
          BY <1>1, <2>1, <3>1, <3>2, <3>3, QuietMap, StepKnown DEF StruckAt, StepOf
  <2>   QED
        BY <1>11, <2>2, <2>4, <2>5, <2>6 DEF DeleteCCECluster
<1>12. CASE RemoveFinalizer(c) \/ FinishSync(c)
  <2>1. UNCHANGED <<want, had, cloud, drivers>>
        BY <1>12 DEF RemoveFinalizer, FinishSync, Around
  <2>2. CASE RemoveFinalizer(c) /\ Fail(c) /\ QuietObject
    <3>1. StepOf(c) /\ UNCHANGED obj
          BY <2>1, <2>2 DEF StepOf, Fail, End, QuietObject, TypeOK
    <3>   QED
          BY <2>1, <2>2, <3>1, EndKnown
  <2>3. CASE /\ sync' = [sync EXCEPT ![c] = Idle(c)]
             /\ \/ obj' = [obj EXCEPT ![c].state = "removed"]
                \/ \E add \in BOOLEAN : obj' = [obj EXCEPT ![c].finalizer = @ \/ add]
    <3>1. sync'[c] = Idle(c) /\ StepOf(c)
          BY <2>1, <2>3 DEF StepOf, TypeOK
    <3>2. obj'[c].secret = obj[c].secret /\ obj'[c].cluster = obj[c].cluster
      <4>1. CASE obj' = [obj EXCEPT ![c].state = "removed"]
            BY <1>1, <4>1 DEF TypeOK, Object
      <4>2. CASE \E add \in BOOLEAN : obj' = [obj EXCEPT ![c].finalizer = @ \/ add]
        <5>1. PICK add \in BOOLEAN : obj' = [obj EXCEPT ![c].finalizer = @ \/ add]
              BY <4>2
        <5>2. obj'[c] = [obj[c] EXCEPT !.finalizer = @ \/ add]
              BY <5>1 DEF TypeOK
        <5>   QED
              BY <1>1, <5>2 DEF Object
      <4>   QED
            BY <2>3, <4>1, <4>2
    <3>3. OwnCluster(c, obj[c].cluster)'
          BY <1>1, <2>1, <3>2 DEF SyncKnown, OwnCluster, Existing
    <3>4. SyncKnown(c)'
          BY <1>1, <2>1, <3>1, <3>2, <3>3, IdleResting, RestingKnown
    <3>   QED
          BY <2>1, <3>1, <3>2, <3>4, QuietKnown DEF StruckAt
  <2>   QED
        BY <1>12, <2>2, <2>3 DEF RemoveFinalizer, FinishSync
<1>   QED
      BY <1>4, <1>5, <1>6, <1>7, <1>8, <1>9, <1>10, <1>11, <1>12 DEF Worker

(* The process ends. *)
LEMMA DieKnown == ASSUME TypeOK, ClientInv, Die PROVE ClientInv' /\ Struck
<1>1. UNCHANGED <<want, had, obj, cloud>>
      BY DEF Die, Around
<1>2. \A c \in Configs : sync'[c] = Idle(c)
      BY DEF Die
<1>3. MapKnown'
      BY DEF Die, MapKnown
<1>4. HomeRegion'
      BY <1>1, QuietCloud DEF ClientInv
<1>5. ASSUME NEW c \in Configs PROVE SyncKnown(c)'
  <2>1. OwnCluster(c, obj[c].cluster)'
        BY <1>1 DEF ClientInv, SyncKnown, OwnCluster, Existing
  <2>   QED
        BY <1>1, <1>2, <2>1, IdleResting, RestingKnown DEF ClientInv
<1>   QED
      BY <1>1, <1>3, <1>4, <1>5 DEF ClientInv, Struck

(* Users. *)
Grown(c) == had' = had \/ \E s \in Secrets : had' = [had EXCEPT ![c] = @ \cup {s}]

LEMMA HadGrows ==
    ASSUME TypeOK, NEW c \in Configs, Grown(c), NEW d \in Configs PROVE had[d] \subseteq had'[d]
BY DEF TypeOK, Grown

LEMMA TouchKnown ==
    ASSUME TypeOK, ClientInv, NEW c \in Configs, NEW o \in Object, Touch(c, o), Grown(c),
           o.cluster = obj[c].cluster, o.secret \in had'[c]
    PROVE  ClientInv' /\ Struck
<1>1. /\ UNCHANGED <<want, drivers, cloud>> /\ obj'[c] = o
      /\ \A d \in Configs \ {c} : obj'[d] = obj[d] /\ sync'[d] = sync[d]
      BY DEF Touch, TypeOK
<1>2. sync[c] \in Sync /\ sync' = [sync EXCEPT ![c].current = FALSE]
      BY DEF Touch, TypeOK
<1>3. /\ sync'[c].at = sync[c].at /\ sync'[c].copy = sync[c].copy /\ ~sync'[c].current
      /\ sync'[c].auth = sync[c].auth /\ sync'[c].driver = sync[c].driver
      /\ sync'[c].again = sync[c].again /\ sync'[c].made = sync[c].made
      BY <1>2 DEF Sync, TypeOK
<1>4. \A d \in Configs : had[d] \subseteq had'[d] /\ (Mixed(d) => Mixed(d)')
      BY <1>1, HadGrows DEF Mixed
<1>5. MapKnown'
      BY <1>1, <1>4 DEF ClientInv, MapKnown
<1>6. HomeRegion'
      <2> SUFFICES ASSUME NEW i \in Existing'
                   PROVE  (cloud[i].region = want[cloud[i].by].region \/ Mixed(cloud[i].by))'
          BY DEF HomeRegion
      <2>1. i \in Existing /\ cloud'[i] = cloud[i]
            BY <1>1 DEF Existing
      <2>2. cloud[i].by \in Configs
            BY <2>1 DEF Existing, TypeOK, NoCluster, Gone, Cluster
      <2>   QED
            BY <1>1, <1>4, <2>1, <2>2 DEF ClientInv, HomeRegion
<1>7. ASSUME NEW d \in Configs PROVE SyncKnown(d)'
  <2>1. /\ sync'[d].at = sync[d].at /\ sync'[d].copy = sync[d].copy
        /\ sync'[d].auth = sync[d].auth /\ sync'[d].driver = sync[d].driver
        /\ sync'[d].again = sync[d].again /\ sync'[d].made = sync[d].made
        /\ obj'[d].cluster = obj[d].cluster /\ obj'[d].secret \in had'[d]
        /\ sync'[d].current => d # c /\ sync'[d].current = sync[d].current /\ obj'[d] = obj[d]
        BY <1>1, <1>3, <1>4 DEF ClientInv, SyncKnown
  <2>2. SyncKnown(d)
        BY DEF ClientInv
  <2>3. Home(d, sync[d].driver)' /\ Home(d, sync[d].again)'
        BY <1>1, <1>4, <2>1, <2>2 DEF SyncKnown, Home
  <2>4. /\ OwnCluster(d, obj[d].cluster)' /\ OwnCluster(d, sync[d].copy.cluster)'
        /\ OwnCluster(d, sync[d].made)'
        BY <1>1, <2>1, <2>2 DEF SyncKnown, OwnCluster, Existing
  <2>5. At(d, "strike")' => (sync[d].copy.cluster \notin Existing \/ Mixed(d))'
        BY <1>1, <1>4, <2>1, <2>2 DEF SyncKnown, At, Existing
  <2>   QED
        BY <1>1, <1>4, <2>1, <2>2, <2>3, <2>4, <2>5 DEF SyncKnown, At
<1>   QED
      BY <1>1, <1>5, <1>6, <1>7 DEF ClientInv, Struck

LEMMA OthersKnown == ASSUME TypeOK, ClientInv, OthersStep PROVE ClientInv' /\ Struck
<1>1. CASE Crash
      BY <1>1, DieKnown DEF Crash
<1>2. CASE UserRotates
  <2>1. UNCHANGED <<want, obj, sync, drivers, cloud, had>>
        BY <1>2 DEF UserRotates
  <2>2. CloudKept /\ HomeRegion' /\ MapKnown'
        BY <2>1, QuietCloud, QuietMap DEF ClientInv
  <2>3. \A d \in Configs : SyncKnown(d)'
        BY <2>1, <2>2, NeighbourKnown DEF ClientInv
  <2>   QED
        BY <2>1, <2>2, <2>3 DEF ClientInv, Struck
<1>3. ASSUME NEW c \in Configs, User(c) PROVE ClientInv' /\ Struck
  <2>1. obj[c] \in Object /\ obj[c].secret \in had[c]
        BY DEF TypeOK, ClientInv, SyncKnown
  <2>2. CASE UserCreates(c) \/ UserDeletes(c)
    <3>1. PICK state \in {"live", "deleting", "dropped"} : Touch(c, [obj[c] EXCEPT !.state = state])
          BY <2>2 DEF UserCreates, UserDeletes
    <3> DEFINE o == [obj[c] EXCEPT !.state = state]
    <3>2. o \in Object /\ o.cluster = obj[c].cluster /\ o.secret = obj[c].secret
          BY <2>1 DEF Object
    <3>3. had' = had
          BY <2>2 DEF UserCreates, UserDeletes
    <3> HIDE DEF o
    <3>   QED
          BY <2>1, <3>1, <3>2, <3>3, TouchKnown DEF Grown, o
  <2>3. CASE UserEditsSecret(c)
    <3>1. PICK s \in Secrets : /\ Touch(c, [obj[c] EXCEPT !.secret = s])
                               /\ had' = [had EXCEPT ![c] = @ \cup {s}]
          BY <2>3 DEF UserEditsSecret
    <3> DEFINE o == [obj[c] EXCEPT !.secret = s]
    <3>2. o \in Object /\ o.cluster = obj[c].cluster /\ o.secret = s
          BY <2>1 DEF Object
    <3>3. Grown(c) /\ s \in had'[c]
          BY <3>1 DEF Grown, TypeOK
    <3> HIDE DEF o
    <3>   QED
          BY <3>1, <3>2, <3>3, TouchKnown DEF o
  <2>   QED
        BY <1>3, <2>2, <2>3 DEF User
<1>   QED
      BY <1>1, <1>2, <1>3 DEF OthersStep

LEMMA InitKnown == ASSUME Init PROVE ClientInv
<1>1. /\ \A s \in Secrets : drivers[s] = NoClient
      /\ \A i \in Ids : cloud[i] = NoCluster
      /\ \A c \in Configs : /\ sync[c] = Idle(c) /\ had[c] = {want[c].secret}
                            /\ obj[c].secret = want[c].secret /\ obj[c].cluster = None
      BY DEF Init, Unborn
<1>2. Existing = {}
      BY <1>1 DEF Existing, NoCluster
<1>3. ASSUME NEW c \in Configs PROVE SyncKnown(c)
  <2>1. Resting(sync[c], c) /\ sync[c].at = "idle" /\ sync[c].current = FALSE
    <3>1. Resting(Idle(c), c)
          BY IdleResting
    <3>2. Idle(c).at = "idle" /\ Idle(c).current = FALSE
          BY DEF Idle
    <3>   QED
          BY <1>1, <3>1, <3>2
  <2>2. sync[c].copy.secret = want[c].secret /\ sync[c].copy.cluster = None
    <3>1. sync[c].copy = Unborn(c)
          BY <2>1 DEF Resting
    <3>2. Unborn(c).secret = want[c].secret /\ Unborn(c).cluster = None
          BY DEF Unborn
    <3>   QED
          BY <3>1, <3>2
  <2>   QED
        BY <1>1, <2>1, <2>2 DEF SyncKnown, Resting, At, Home, OwnCluster
<1>   QED
      BY <1>1, <1>2, <1>3 DEF ClientInv, MapKnown, HomeRegion

LEMMA NextKnown == ASSUME TypeOK, ClientInv, [Next]_vars PROVE ClientInv' /\ Struck
<1>1. CASE UNCHANGED vars
  <2>1. UNCHANGED <<want, obj, sync, drivers, cloud, had>>
        BY <1>1 DEF vars
  <2>2. CloudKept /\ HomeRegion' /\ MapKnown'
        BY <2>1, QuietCloud, QuietMap DEF ClientInv
  <2>3. \A d \in Configs : SyncKnown(d)'
        BY <2>1, <2>2, NeighbourKnown DEF ClientInv
  <2>   QED
        BY <2>1, <2>2, <2>3 DEF ClientInv, Struck
<1>   QED
      BY <1>1, WorkerKnown, DieKnown, OthersKnown DEF Next, OthersStep, Panic

(* Every cluster is in the region of the configuration it was made for,     *)
(* whichever workers put clients into the map in between, unless two        *)
(* regions meet in one secret.                                              *)
THEOREM ClustersAtHome == Spec => []HomeRegion
<1>1. Init => ClientInv
      BY InitKnown
<1>2. TypeOK /\ ClientInv /\ [Next]_vars => ClientInv'
      BY NextKnown
<1>3. ClientInv => HomeRegion
      BY DEF ClientInv
<1>   QED
      BY <1>1, <1>2, <1>3, TypeCorrect, PTL DEF Spec

(* The removal takes a 404 for the end of the cluster: it is one, unless    *)
(* two regions meet in one secret.                                          *)
THEOREM StruckOffGone == Spec => StruckOffWhenGone
<1>1. Init => ClientInv
      BY InitKnown
<1>2. TypeOK /\ ClientInv /\ [Next]_vars =>
          /\ ClientInv'
          /\ [\A c \in Configs :
                 obj[c].cluster # None /\ obj'[c].cluster = None =>
                     obj[c].cluster \notin Existing \/ Mixed(c)]_vars
      BY NextKnown DEF Struck
<1>   QED
      BY <1>1, <1>2, TypeCorrect, PTL DEF Spec, StruckOffWhenGone

-----------------------------------------------------------------------------
(* A client that is used is there.                                         *)

KeysGiven == \A s \in Secrets : creds[s].key # 0

(* A configuration whose secret was never edited looks its clients up      *)
(* where its own syncs, or others, have put one.                           *)
ClientThere(c) ==
    /\ At(c, "writing") => sync[c].auth # NoClient
    /\ had[c] = {want[c].secret} =>
          /\ ~At(c, "panic")
          /\ sync[c].at \in {"take", "wait", "check", "remove"} =>
                 drivers[want[c].secret] # NoClient
          /\ sync[c].at \in {"clusters", "find", "make"} => sync[c].driver # NoClient
          /\ At(c, "clusters") => sync[c].again # NoClient

ReadyInv == KeysGiven /\ \A c \in Configs : ClientThere(c)

(* While the process lives, no client leaves the map. *)
MapStays == \A s \in Secrets : drivers[s] # NoClient => drivers'[s] # NoClient

SafeSteps == {"idle", "finish", "record", "phase", "strike", "unfinalize"}

LEMMA NeighbourThere ==
    ASSUME TypeOK, MapStays, want' = want, NEW c \in Configs, ClientThere(c),
           want[c].secret \in had[c], had[c] \subseteq had'[c],
           sync'[c].at = sync[c].at, sync'[c].auth = sync[c].auth,
           sync'[c].driver = sync[c].driver, sync'[c].again = sync[c].again
    PROVE  ClientThere(c)'
<1>1. had'[c] = {want[c].secret} => had[c] = {want[c].secret}
      OBVIOUS
<1>2. want[c].secret \in Secrets
      BY WantsAssumption DEF TypeOK, Want
<1>   QED
      BY <1>1, <1>2 DEF ClientThere, MapStays, At

LEMMA SafeThere ==
    ASSUME NEW c \in Configs, sync'[c].at \in SafeSteps PROVE ClientThere(c)'
BY DEF ClientThere, At, SafeSteps

(* What a configuration whose secret was never edited finds. *)
LEMMA Unedited ==
    ASSUME TypeOK, ClientInv, ReadyInv, NEW c \in Configs, had[c] = {want[c].secret}
    PROVE  /\ obj[c].secret = want[c].secret
           /\ sync[c].at \in {"take", "wait", "check", "remove"} =>
                  Named(c) # NoClient /\ drivers[obj[c].secret] # NoClient
           /\ sync[c].at \in {"clusters", "find", "make"} => sync[c].driver # NoClient
           /\ At(c, "clusters") => sync[c].again # NoClient
<1>1. obj[c].secret = want[c].secret /\ sync[c].copy.secret = want[c].secret
      BY DEF ClientInv, SyncKnown
<1>   QED
      BY <1>1 DEF ReadyInv, ClientThere, Named, At

LEMMA WorkerThere ==
    ASSUME TypeOK, ClientInv, ReadyInv, NEW c \in Configs, Worker(c), ~Panic(c)
    PROVE  ReadyInv'
<1>1. /\ obj[c] \in Object /\ sync[c] \in Sync /\ sync[c].copy \in Object
      /\ obj[c].secret \in Secrets /\ sync[c].copy.secret \in Secrets /\ ClientThere(c)
      BY DEF TypeOK, Sync, Object, ReadyInv
<1>2. /\ UNCHANGED <<want, creds, had>>
      /\ \A d \in Configs \ {c} : sync'[d] = sync[d]
      BY DEF Worker, StartSync, WriteDriver, TakeDriver, CheckClusters, FindCluster, MakeCluster,
             RecordCluster, RecordPhase, WaitForCreationComplete, CheckAndUpdate, DeleteCCECluster,
             StrikeOff, RemoveFinalizer, FinishSync, UpdateCopy, Store, Fail, End, Nil, Go,
             QuietWorld, Around, TypeOK
<1>3. /\ At(c, "writing") \/ UNCHANGED drivers
      /\ MapStays
  <2>1. CASE WriteDriver(c)
        BY <1>1, <2>1 DEF WriteDriver, MapStays, ClientThere, TypeOK
  <2>2. CASE UNCHANGED drivers
        BY <2>2 DEF MapStays
  <2>   QED
        BY <2>1, <2>2 DEF Worker, StartSync, WriteDriver, TakeDriver, CheckClusters, FindCluster,
             MakeCluster, RecordCluster, RecordPhase, WaitForCreationComplete, CheckAndUpdate,
             DeleteCCECluster, StrikeOff, RemoveFinalizer, FinishSync, QuietWorld
<1>4. KeysGiven'
      BY <1>2 DEF ReadyInv, KeysGiven
<1>5. ASSUME NEW d \in Configs, d # c PROVE ClientThere(d)'
      BY <1>2, <1>3, <1>5, NeighbourThere DEF ReadyInv, ClientInv, SyncKnown
<1>6. SUFFICES ClientThere(c)'
      BY <1>4, <1>5 DEF ReadyInv
<1>7. CASE Nil(c) /\ had[c] # {want[c].secret}
  <2>1. sync'[c].at = "panic"
        BY <1>7 DEF Nil, TypeOK, Idle
  <2>   QED
        BY <1>2, <1>7, <2>1 DEF ClientThere, At
<1>8. ASSUME Fail(c) \/ \E failed \in BOOLEAN : sync' = [sync EXCEPT ![c] = Ended(c, failed, TRUE)]
      PROVE  ClientThere(c)'
  <2>1. \E failed, current : sync'[c] = Ended(c, failed, current)
        BY <1>8 DEF Fail, End, TypeOK
  <2>2. sync'[c].at = "finish"
        BY <2>1 DEF Ended, Idle
  <2>   QED
        BY <2>2, SafeThere DEF SafeSteps
<1>9. ASSUME NEW o, NEW step \in {"phase", "unfinalize", "finish"}, Store(c, o, step)
      PROVE  ClientThere(c)'
  <2>1. sync'[c].at \in SafeSteps
        BY <1>9 DEF Store, Ended, Idle, SafeSteps, TypeOK
  <2>   QED
        BY <2>1, SafeThere
<1>10. CASE StartSync(c)
  <2> DEFINE start(step) == [Idle(c) EXCEPT !.at = step, !.copy = obj[c], !.current = TRUE]
  <2>1. UNCHANGED drivers
        BY <1>10 DEF StartSync
  <2>2. CASE sync' = [sync EXCEPT ![c] = [start("writing") EXCEPT !.auth = NewHuaweiClientAuth(c)]]
    <3>1. sync'[c].at = "writing" /\ sync'[c].auth = NewHuaweiClientAuth(c)
          BY <2>2 DEF TypeOK, Idle
    <3>2. NewHuaweiClientAuth(c).key # 0 /\ NoClient.key = 0
          BY <1>1 DEF NewHuaweiClientAuth, NoClient, ReadyInv, KeysGiven
    <3>   QED
          BY <3>1, <3>2 DEF ClientThere, At
  <2>3. CASE /\ drivers[obj[c].secret] # NoClient
             /\ sync' = [sync EXCEPT ![c] = start(Dispatch(obj[c]))]
    <3>1. sync'[c].at \in {"remove", "take", "wait", "check"}
          BY <1>1, <2>3, DispatchTyped DEF TypeOK, Idle
    <3>   QED
          BY <1>2, <2>1, <2>3, <3>1, Unedited DEF ClientThere, At
  <2>4. CASE sync' = [sync EXCEPT ![c] = Ended(c, TRUE, TRUE)]
        BY <1>8, <2>4
  <2>5. CASE sync' = sync
        BY <1>1, <1>2, <2>1, <2>5 DEF ClientThere, At
  <2>   QED
        BY <1>10, <2>2, <2>3, <2>4, <2>5 DEF StartSync
<1>11. CASE WriteDriver(c)
  <2>1. sync'[c].at \in {"remove", "take", "wait", "check"}
        BY <1>1, <1>11, DispatchTyped DEF WriteDriver, TypeOK, Sync
  <2>2. drivers'[sync[c].copy.secret] # NoClient
        BY <1>1, <1>11 DEF WriteDriver, TypeOK, ClientThere
  <2>3. had[c] = {want[c].secret} => sync[c].copy.secret = want[c].secret
        BY DEF ClientInv, SyncKnown
  <2>   QED
        BY <1>2, <2>1, <2>2, <2>3 DEF ClientThere, At
<1>12. CASE TakeDriver(c)
  <2>1. CASE Fail(c) \/ sync' = [sync EXCEPT ![c] = Ended(c, TRUE, TRUE)]
        BY <1>8, <2>1
  <2>2. CASE sync' = [sync EXCEPT
                ![c].at = IF obj[c].cluster # None THEN "find" ELSE "clusters",
                ![c].copy = obj[c], ![c].current = TRUE,
                ![c].driver = Named(c),
                ![c].again = IF obj[c].cluster # None THEN NoClient
                             ELSE drivers[obj[c].secret]]
    <3>1. /\ sync'[c].at \in {"find", "clusters"}
          /\ sync'[c].driver = Named(c)
          /\ sync'[c].at = "clusters" => sync'[c].again = drivers[obj[c].secret]
          BY <1>1, <2>2 DEF TypeOK, Sync
    <3>2. sync[c].at = "take"
          BY <1>12 DEF TakeDriver, At
    <3>   QED
          BY <1>2, <3>1, <3>2, Unedited DEF ClientThere, At
  <2>   QED
        BY <1>12, <2>1, <2>2 DEF TakeDriver
<1>13. CASE CheckClusters(c) \/ FindCluster(c)
  <2>1. sync[c].at \in {"clusters", "find"}
        BY <1>13 DEF CheckClusters, FindCluster, At
  <2>2. CASE /\ Nil(c)
             /\ \/ sync[c].driver = NoClient
                \/ At(c, "clusters") /\ sync[c].again = NoClient
        BY <1>7, <2>1, <2>2, Unedited
  <2>3. CASE Fail(c)
        BY <1>8, <2>3
  <2>4. CASE \/ sync' = [sync EXCEPT ![c].at = "make", ![c].again = NoClient]
             \/ Go(c, "phase") \/ Go(c, "make")
    <3>1. sync'[c].at \in {"make", "phase"} /\ sync'[c].driver = sync[c].driver
          BY <1>1, <2>4 DEF Go, TypeOK, Sync
    <3>   QED
          BY <1>2, <2>1, <3>1, Unedited DEF ClientThere, At
  <2>   QED
        BY <1>13, <2>2, <2>3, <2>4 DEF CheckClusters, FindCluster
<1>14. CASE MakeCluster(c)
  <2>1. CASE sync[c].driver = NoClient /\ Nil(c)
        BY <1>7, <1>14, <2>1, Unedited DEF MakeCluster, At
  <2>2. CASE Fail(c)
        BY <1>8, <2>2
  <2>3. CASE sync' = [sync EXCEPT ![c].at = "record", ![c].made = NewId, ![c].driver = NoClient]
        BY <1>1, <2>3, SafeThere DEF TypeOK, Sync, SafeSteps
  <2>   QED
        BY <1>14, <2>1, <2>2, <2>3 DEF MakeCluster
<1>15. CASE RecordCluster(c) \/ RecordPhase(c) \/ StrikeOff(c)
      BY <1>8, <1>9, <1>15 DEF RecordCluster, RecordPhase, StrikeOff, UpdateCopy
<1>16. CASE WaitForCreationComplete(c) \/ CheckAndUpdate(c)
  <2>1. sync[c].at \in {"wait", "check"}
        BY <1>16 DEF WaitForCreationComplete, CheckAndUpdate, At
  <2>2. CASE (Named(c) = NoClient \/ drivers[obj[c].secret] = NoClient) /\ Nil(c)
        BY <1>7, <2>1, <2>2, Unedited
  <2>3. CASE Fail(c) \/ \E failed \in BOOLEAN : sync' = [sync EXCEPT ![c] = Ended(c, failed, TRUE)]
        BY <1>8, <2>3
  <2>4. CASE Store(c, [sync[c].copy EXCEPT !.phase = "running"], "finish")
        BY <1>9, <2>4
  <2>   QED
        BY <1>16, <2>2, <2>3, <2>4 DEF WaitForCreationComplete, CheckAndUpdate, UpdateCopy
<1>17. CASE DeleteCCECluster(c)
  <2>1. sync[c].at = "remove" /\ UNCHANGED drivers
        BY <1>17 DEF DeleteCCECluster, At
  <2>2. CASE Named(c) = NoClient /\ Nil(c)
        BY <1>7, <2>1, <2>2, Unedited
  <2>3. CASE Fail(c)
        BY <1>8, <2>3
  <2>4. CASE Go(c, "unfinalize") \/ Go(c, "strike")
        BY <1>1, <2>4, SafeThere DEF Go, TypeOK, Sync, SafeSteps
  <2>5. CASE UNCHANGED sync
        BY <1>1, <1>2, <2>1, <2>5 DEF ClientThere, At
  <2>   QED
        BY <1>17, <2>2, <2>3, <2>4, <2>5 DEF DeleteCCECluster
<1>18. CASE RemoveFinalizer(c) \/ FinishSync(c)
  <2>1. CASE sync' = [sync EXCEPT ![c] = Idle(c)]
        BY <2>1, SafeThere DEF TypeOK, Idle, SafeSteps
  <2>   QED
        BY <1>8, <1>18, <2>1 DEF RemoveFinalizer, FinishSync
<1>   QED
      BY <1>10, <1>11, <1>12, <1>13, <1>14, <1>15, <1>16, <1>17, <1>18 DEF Worker

LEMMA DieThere == ASSUME TypeOK, ReadyInv, Die PROVE ReadyInv'
<1>1. ASSUME NEW c \in Configs PROVE ClientThere(c)'
  <2>1. sync'[c].at = "idle"
        BY DEF Die, Idle
  <2>   QED
        BY <2>1, SafeThere DEF SafeSteps
<1>2. KeysGiven'
      BY DEF Die, Around, ReadyInv, KeysGiven
<1>   QED
      BY <1>1, <1>2 DEF ReadyInv

(* A rotation touches one secret. *)
LEMMA RotatesOne ==
    ASSUME TypeOK, UserRotates
    PROVE  \E s \in Secrets : \/ creds' = [creds EXCEPT ![s].key = @ + 1]
                             \/ \E b \in BOOLEAN : creds' = [creds EXCEPT ![s].there = b]
<1>1. PICK s \in {obj[c].secret : c \in Stored \cap Edited} :
          \/ creds' = [creds EXCEPT ![s].key = @ + 1]
          \/ creds' = [creds EXCEPT ![s].there = FALSE]
          \/ creds' = [creds EXCEPT ![s].there = TRUE]
      BY Zenon DEF UserRotates
<1>2. PICK c \in Configs : s = obj[c].secret
      BY <1>1 DEF Stored
<1>3. s \in Secrets
      BY <1>2 DEF TypeOK, Object
<1>   QED
      BY <1>1, <1>3, Zenon

LEMMA OthersThere == ASSUME TypeOK, ClientInv, ReadyInv, OthersStep PROVE ReadyInv'
<1>1. CASE Crash
      BY <1>1, DieThere DEF Crash
<1>2. CASE UserRotates
  <2>1. UNCHANGED <<want, sync, drivers, had>>
        BY <1>2 DEF UserRotates
  <2>2. \A c \in Configs : ClientThere(c)'
        BY <2>1 DEF ReadyInv, ClientThere, At
  <2>3. PICK s \in Secrets : \/ creds' = [creds EXCEPT ![s].key = @ + 1]
                            \/ \E b \in BOOLEAN : creds' = [creds EXCEPT ![s].there = b]
        BY <1>2, RotatesOne
  <2>4. ASSUME NEW t \in Secrets PROVE creds'[t].key # 0
    <3>1. creds[t].key \in Nat /\ creds[t].key # 0 /\ creds[t].key + 1 # 0
          BY DEF TypeOK, ReadyInv, KeysGiven
    <3>2. creds'[t].key = creds[t].key \/ creds'[t].key = creds[t].key + 1
          BY <2>3 DEF TypeOK
    <3>   QED
          BY <3>1, <3>2
  <2>   QED
        BY <2>2, <2>4 DEF ReadyInv, KeysGiven
<1>3. ASSUME NEW c \in Configs, User(c) PROVE ReadyInv'
  <2>1. PICK o : Touch(c, o)
        BY <1>3 DEF User, UserCreates, UserDeletes, UserEditsSecret
  <2>2. want' = want /\ MapStays /\ KeysGiven'
        BY <2>1 DEF Touch, MapStays, ReadyInv, KeysGiven
  <2>3. \A d \in Configs : had[d] \subseteq had'[d]
        BY <1>3 DEF User, UserCreates, UserDeletes, UserEditsSecret, TypeOK
  <2>4. ASSUME NEW d \in Configs PROVE ClientThere(d)'
    <3>1. /\ sync'[d].at = sync[d].at /\ sync'[d].auth = sync[d].auth
          /\ sync'[d].driver = sync[d].driver /\ sync'[d].again = sync[d].again
          BY <2>1 DEF Touch, TypeOK, Sync
    <3>2. want[d].secret \in had[d] /\ ClientThere(d)
          BY DEF ClientInv, SyncKnown, ReadyInv
    <3>   QED
          BY <2>2, <2>3, <3>1, <3>2, NeighbourThere
  <2>   QED
        BY <2>2, <2>4 DEF ReadyInv
<1>   QED
      BY <1>1, <1>2, <1>3 DEF OthersStep

LEMMA InitThere == ASSUME Init PROVE ReadyInv
<1>1. ASSUME NEW c \in Configs PROVE sync[c].at = "idle"
      BY DEF Init, Idle
<1>   QED
      BY <1>1 DEF Init, ReadyInv, KeysGiven, ClientThere, At

LEMMA NextThere == ASSUME TypeOK, ClientInv, ReadyInv, [Next]_vars PROVE ReadyInv'
<1>1. CASE UNCHANGED vars
      BY <1>1 DEF vars, ReadyInv, KeysGiven, ClientThere, At
<1>   QED
      BY <1>1, WorkerThere, DieThere, OthersThere DEF Next, OthersStep, Panic

(* No worker panics on a client that is missing unless the secret of its    *)
(* own configuration was edited: the map is looked up by the copy's secret  *)
(* after a restart, beside other workers and when credentials are gone.     *)
THEOREM NilOnlyAfterEdit == Spec => []NilNeedsEdit
<1>1. Init => ClientInv /\ ReadyInv
      BY InitKnown, InitThere
<1>2. TypeOK /\ ClientInv /\ ReadyInv /\ [Next]_vars => ClientInv' /\ ReadyInv'
      BY NextKnown, NextThere
<1>3. ReadyInv => NilNeedsEdit
      BY DEF ReadyInv, ClientThere, NilNeedsEdit
<1>   QED
      BY <1>1, <1>2, <1>3, TypeCorrect, PTL DEF Spec


-----------------------------------------------------------------------------
(* One cluster of a name.                                                  *)

(* A key that was replaced does not come back: a client the cloud refuses  *)
(* is refused for good.                                                    *)
KeyKnown(d) == d = NoClient \/ d.key <= creds[d.secret].key

KeyInv ==
    /\ \A s \in Secrets : KeyKnown(drivers[s])
    /\ \A c \in Configs : KeyKnown(sync[c].auth) /\ KeyKnown(sync[c].driver)

Removing(c) ==
    \/ sync[c].at \in {"remove", "strike", "unfinalize"}
    \/ At(c, "writing") /\ sync[c].copy.state = "deleting"

(* The object is as it was before any removal, or was when the sync that    *)
(* is to read it again began.                                              *)
Unremoved(c) ==
    \/ obj[c].state \in {"unborn", "live", "dropped"}
    \/ At(c, "take")
    \/ At(c, "writing") /\ sync[c].copy.state # "deleting"

(* Only its own removal ends a cluster: until then the identifier that is   *)
(* recorded, looked up or to be recorded stands for one that exists.       *)
LiveKept(c) ==
    /\ Unremoved(c) => obj[c].cluster \in Existing \cup {None}
    /\ At(c, "find") => sync[c].copy.cluster \in Existing
    /\ At(c, "record") => sync[c].made \in Existing
    /\ Removing(c) => obj[c].state = "deleting"
    /\ sync[c].at \in {"clusters", "find", "make"} => obj[c].state \in {"live", "deleting", "dropped"}

LiveInv == KeyInv /\ \A c \in Configs : LiveKept(c)

LEMMA NeighbourLive ==
    ASSUME TypeOK, ClientInv, NEW d \in Configs, LiveKept(d),
           \A i \in Existing : cloud[i].by = d => i \in Existing',
           obj'[d] = obj[d], sync'[d].at = sync[d].at, sync'[d].copy = sync[d].copy,
           sync'[d].made = sync[d].made
    PROVE  LiveKept(d)'
<1>1. /\ OwnCluster(d, obj[d].cluster) /\ OwnCluster(d, sync[d].copy.cluster)
      /\ OwnCluster(d, sync[d].made)
      BY DEF ClientInv, SyncKnown
<1>2. /\ obj[d].cluster \in Existing => obj[d].cluster \in Existing'
      /\ sync[d].copy.cluster \in Existing => sync[d].copy.cluster \in Existing'
      /\ sync[d].made \in Existing => sync[d].made \in Existing'
      BY <1>1, NoneAssumption DEF OwnCluster, Existing
<1>   QED
      BY <1>2 DEF LiveKept, Unremoved, Removing, At

(* Every sync that is over, or that goes on after a write.                 *)
LEMMA OverLive ==
    ASSUME NEW c \in Configs, sync'[c].at \in {"idle", "finish", "panic", "phase", "wait", "check"},
           obj'[c].state \in {"unborn", "live", "dropped"} =>
               obj'[c].cluster \in Existing' \cup {None}
    PROVE  LiveKept(c)'
BY DEF LiveKept, Unremoved, Removing, At

(* What a step of a sync leaves in its hands. *)
Handed(c) ==
    /\ sync'[c].auth \in {sync[c].auth, NoClient, NewHuaweiClientAuth(c)}
    /\ sync'[c].driver \in {sync[c].driver, NoClient, Named(c)}

LEMMA StoreLive ==
    ASSUME TypeOK, NEW c \in Configs, LiveKept(c), NEW o \in Object, UNCHANGED cloud,
           NEW step \in {"phase", "finish"}, Store(c, o, step),
           o.state \in {"unborn", "live", "dropped"} => o.cluster \in Existing \cup {None}
    PROVE  LiveKept(c)' /\ Handed(c)
<1>1. /\ obj'[c] = o /\ Existing' = Existing /\ sync'[c].at = step
      /\ sync'[c].auth = NoClient /\ sync'[c].driver = NoClient
      BY DEF Store, TypeOK, Existing, Ended, Idle
<1>2. LiveKept(c)'
      BY <1>1, OverLive
<1>   QED
      BY <1>1, <1>2 DEF Handed

LEMMA EndLive ==
    ASSUME TypeOK, NEW c \in Configs, LiveKept(c), UNCHANGED <<obj, cloud>>,
           \/ Fail(c) \/ Nil(c)
           \/ \E failed \in BOOLEAN : sync' = [sync EXCEPT ![c] = Ended(c, failed, TRUE)]
    PROVE  LiveKept(c)' /\ Handed(c)
<1> DEFINE over == /\ sync'[c].at \in {"finish", "panic"}
                   /\ sync'[c].auth = NoClient /\ sync'[c].driver = NoClient
<1>1. over
  <2>1. CASE Fail(c)
    <3>1. sync'[c] = Ended(c, TRUE, sync[c].current)
          BY <2>1 DEF Fail, End, TypeOK
    <3>   QED
          BY <3>1 DEF Ended, Idle
  <2>2. CASE Nil(c)
    <3>1. sync'[c] = [Idle(c) EXCEPT !.at = "panic"]
          BY <2>2 DEF Nil, TypeOK
    <3>   QED
          BY <3>1 DEF Idle
  <2>3. CASE \E failed \in BOOLEAN : sync' = [sync EXCEPT ![c] = Ended(c, failed, TRUE)]
    <3>1. PICK failed \in BOOLEAN : sync'[c] = Ended(c, failed, TRUE)
          BY <2>3 DEF TypeOK
    <3>   QED
          BY <3>1 DEF Ended, Idle
  <2>   QED
        BY <2>1, <2>2, <2>3
<1>2. obj[c].state \in {"unborn", "live", "dropped"} => obj[c].cluster \in Existing' \cup {None}
      BY DEF LiveKept, Unremoved, Existing
<1>3. LiveKept(c)'
      BY <1>1, <1>2, OverLive
<1>   QED
      BY <1>1, <1>3 DEF Handed

(* Each step of a sync. *)
LEMMA WorkerLive ==
    ASSUME TypeOK, ClientInv, NEW c \in Configs, LiveKept(c), Worker(c), ~Panic(c)
    PROVE  LiveKept(c)' /\ Handed(c)
<1>1. /\ obj[c] \in Object /\ sync[c] \in Sync /\ sync[c].copy \in Object
      /\ sync[c].made \in Ids \cup {None}
      /\ obj[c].cluster \in Ids \cup {None} /\ sync[c].copy.cluster \in Ids \cup {None}
      BY DEF TypeOK, Sync, Object
<1>2. sync[c].current /\ ~At(c, "finish") => sync[c].copy = obj[c]
      BY DEF ClientInv, SyncKnown
<1>3. \A o \in Object : Dispatch(o) = "remove" <=> o.state = "deleting"
      BY DEF Dispatch, Object
<1>4. CASE StartSync(c)
  <2>1. UNCHANGED <<obj, cloud, drivers, want, creds>> /\ At(c, "idle")
        BY <1>4 DEF StartSync, Around
  <2> DEFINE start(step) == [Idle(c) EXCEPT !.at = step, !.copy = obj[c], !.current = TRUE]
  <2>2. CASE /\ c \in Stored
             /\ sync' = [sync EXCEPT ![c] = [start("writing") EXCEPT !.auth = NewHuaweiClientAuth(c)]]
    <3>1. /\ sync'[c].at = "writing" /\ sync'[c].copy = obj[c]
          /\ sync'[c].auth = NewHuaweiClientAuth(c) /\ sync'[c].driver = NoClient
          BY <2>2 DEF TypeOK, Idle
    <3>2. obj[c].state \in {"live", "deleting"}
          BY <2>2 DEF Stored
    <3>   QED
          BY <2>1, <3>1, <3>2 DEF LiveKept, Unremoved, Removing, At, Existing, Handed
  <2>3. CASE /\ c \in Stored
             /\ sync' = [sync EXCEPT ![c] = start(Dispatch(obj[c]))]
    <3>1. /\ sync'[c].at = Dispatch(obj[c]) /\ sync'[c].copy = obj[c]
          /\ sync'[c].auth = NoClient /\ sync'[c].driver = NoClient
          BY <2>3 DEF TypeOK, Idle
    <3>2. obj[c].state \in {"live", "deleting"}
          BY <2>3 DEF Stored
    <3>3. Dispatch(obj[c]) \in {"remove", "take", "wait", "check"}
          BY <1>1, DispatchTyped
    <3>   QED
          BY <1>1, <1>3, <2>1, <3>1, <3>2, <3>3
          DEF LiveKept, Unremoved, Removing, At, Existing, Handed
  <2>4. CASE sync' = [sync EXCEPT ![c] = Ended(c, TRUE, TRUE)]
        BY <2>1, <2>4, EndLive
  <2>5. CASE sync' = sync
        BY <2>1, <2>5 DEF LiveKept, Unremoved, Removing, At, Existing, Handed
  <2>   QED
        BY <1>4, <2>2, <2>3, <2>4, <2>5 DEF StartSync
<1>5. CASE WriteDriver(c)
  <2>1. UNCHANGED <<obj, cloud, want, creds>> /\ At(c, "writing")
        BY <1>5 DEF WriteDriver, QuietObject, Around
  <2>2. Dispatch(sync[c].copy) \in {"remove", "take", "wait", "check"}
        BY <1>1, DispatchTyped
  <2>3. /\ sync'[c].at = Dispatch(sync[c].copy) /\ sync'[c].copy = sync[c].copy
        /\ sync'[c].auth = NoClient /\ sync'[c].driver = sync[c].driver
        BY <1>1, <1>5 DEF WriteDriver, TypeOK, Sync
  <2>   QED
        BY <1>1, <1>3, <2>1, <2>2, <2>3 DEF LiveKept, Unremoved, Removing, At, Existing, Handed
<1>6. CASE TakeDriver(c)
  <2>1. UNCHANGED <<obj, cloud>> /\ At(c, "take")
        BY <1>6 DEF TakeDriver, QuietWorld
  <2>2. CASE Fail(c) \/ sync' = [sync EXCEPT ![c] = Ended(c, TRUE, TRUE)]
        BY <2>1, <2>2, EndLive
  <2>3. CASE /\ c \in Stored
             /\ sync' = [sync EXCEPT
                ![c].at = IF obj[c].cluster # None THEN "find" ELSE "clusters",
                ![c].copy = obj[c], ![c].current = TRUE,
                ![c].driver = Named(c),
                ![c].again = IF obj[c].cluster # None THEN NoClient
                             ELSE drivers[obj[c].secret]]
    <3>1. /\ sync'[c].at = (IF obj[c].cluster # None THEN "find" ELSE "clusters")
          /\ sync'[c].copy = obj[c]
          /\ sync'[c].driver = Named(c) /\ sync'[c].auth = sync[c].auth
          BY <1>1, <2>3 DEF TypeOK, Sync
    <3>2. obj[c].state \in {"live", "deleting"}
          BY <2>3 DEF Stored
    <3>   QED
          BY <2>1, <3>1, <3>2 DEF LiveKept, Unremoved, Removing, At, Existing, Handed
  <2>   QED
        BY <1>6, <2>2, <2>3 DEF TakeDriver
<1>7. CASE CheckClusters(c) \/ FindCluster(c) \/ CheckAndUpdate(c)
  <2>1. UNCHANGED <<obj, cloud>> /\ sync[c].at \in {"clusters", "find", "check"}
        BY <1>7 DEF CheckClusters, FindCluster, CheckAndUpdate, QuietWorld, At
  <2>2. CASE Fail(c) \/ Nil(c) \/ \E failed \in BOOLEAN : sync' = [sync EXCEPT ![c] = Ended(c, failed, TRUE)]
        BY <2>1, <2>2, EndLive
  <2>3. CASE At(c, "clusters") /\ sync' = [sync EXCEPT ![c].at = "make", ![c].again = NoClient]
    <3>1. /\ sync'[c].at = "make" /\ sync'[c].auth = sync[c].auth /\ sync'[c].driver = sync[c].driver
          BY <1>1, <2>3 DEF TypeOK, Sync
    <3>   QED
          BY <2>1, <2>3, <3>1 DEF LiveKept, Unremoved, Removing, At, Existing, Handed
  <2>4. CASE At(c, "find") /\ (Go(c, "phase") \/ Go(c, "make"))
    <3>1. /\ sync'[c].at \in {"make", "phase"} /\ sync'[c].auth = sync[c].auth
          /\ sync'[c].driver = sync[c].driver
          BY <1>1, <2>4 DEF Go, TypeOK, Sync
    <3>   QED
          BY <2>1, <2>4, <3>1 DEF LiveKept, Unremoved, Removing, At, Existing, Handed
  <2>   QED
        BY <1>7, <2>2, <2>3, <2>4 DEF CheckClusters, FindCluster, CheckAndUpdate
<1>8. CASE MakeCluster(c)
  <2>1. UNCHANGED obj /\ At(c, "make")
        BY <1>8 DEF MakeCluster, QuietObject
  <2>2. CASE (Fail(c) \/ Nil(c)) /\ UNCHANGED cloud
        BY <2>1, <2>2, EndLive
  <2>3. CASE /\ Fresh # {}
             /\ cloud' = [cloud EXCEPT ![NewId] =
                   [state |-> "live", region |-> sync[c].driver.region,
                    name |-> want[c].name, by |-> c]]
             /\ sync' = [sync EXCEPT ![c].at = "record", ![c].made = NewId,
                                     ![c].driver = NoClient]
    <3>1. NewId \in Ids /\ cloud[NewId] = NoCluster
          BY <2>3, FreshTyped
    <3>2. Existing \subseteq Existing' /\ NewId \in Existing'
          BY <2>3, <3>1 DEF Existing, TypeOK
    <3>3. /\ sync'[c].at = "record" /\ sync'[c].made = NewId
          /\ sync'[c].auth = sync[c].auth /\ sync'[c].driver = NoClient
          BY <1>1, <2>3 DEF TypeOK, Sync
    <3>   QED
          BY <2>1, <3>2, <3>3 DEF LiveKept, Unremoved, Removing, At, Handed
  <2>   QED
        BY <1>8, <2>2, <2>3 DEF MakeCluster
<1>9. CASE RecordCluster(c) \/ RecordPhase(c)
  <2>1. UNCHANGED cloud
        BY <1>9 DEF RecordCluster, RecordPhase
  <2>2. CASE At(c, "record") /\ Store(c, [obj[c] EXCEPT !.cluster = sync[c].made], "phase")
    <3> DEFINE o == [obj[c] EXCEPT !.cluster = sync[c].made]
    <3>1. o \in Object /\ o.cluster = sync[c].made
          BY <1>1 DEF Object
    <3>2. o.cluster \in Existing
          BY <2>2, <3>1 DEF LiveKept
    <3> HIDE DEF o
    <3>   QED
          BY <2>1, <2>2, <3>1, <3>2, StoreLive DEF o
  <2>3. CASE Store(c, [obj[c] EXCEPT !.phase = "creating"], "finish")
    <3> DEFINE o == [obj[c] EXCEPT !.phase = "creating"]
    <3>1. o \in Object /\ o.cluster = obj[c].cluster /\ o.state = obj[c].state
          BY <1>1 DEF Object
    <3>2. o.state \in {"unborn", "live", "dropped"} => o.cluster \in Existing \cup {None}
          BY <3>1 DEF LiveKept, Unremoved
    <3> HIDE DEF o
    <3>   QED
          BY <2>1, <2>3, <3>1, <3>2, StoreLive DEF o
  <2>4. CASE Fail(c) /\ QuietObject
        BY <2>1, <2>4, EndLive DEF QuietObject
  <2>   QED
        BY <1>9, <2>2, <2>3, <2>4 DEF RecordCluster, RecordPhase
<1>10. CASE WaitForCreationComplete(c)
  <2>1. UNCHANGED cloud /\ At(c, "wait")
        BY <1>10 DEF WaitForCreationComplete
  <2>2. CASE sync[c].current /\ Store(c, [sync[c].copy EXCEPT !.phase = "running"], "finish")
    <3> DEFINE o == [sync[c].copy EXCEPT !.phase = "running"]
    <3>1. o \in Object /\ o.cluster = obj[c].cluster /\ o.state = obj[c].state
          BY <1>1, <1>2, <2>1, <2>2 DEF Object, At
    <3>2. o.state \in {"unborn", "live", "dropped"} => o.cluster \in Existing \cup {None}
          BY <3>1 DEF LiveKept, Unremoved
    <3> HIDE DEF o
    <3>   QED
          BY <2>1, <2>2, <3>1, <3>2, StoreLive DEF o
  <2>3. CASE (Fail(c) \/ Nil(c)) /\ QuietObject
        BY <2>1, <2>3, EndLive DEF QuietObject
  <2>   QED
        BY <1>10, <2>2, <2>3 DEF WaitForCreationComplete, UpdateCopy
<1>11. CASE StrikeOff(c)
  <2>1. UNCHANGED cloud /\ At(c, "strike") /\ obj[c].state = "deleting"
        BY <1>11 DEF StrikeOff, LiveKept, Removing, At
  <2>2. CASE sync[c].current /\ Store(c, [sync[c].copy EXCEPT !.cluster = None], "unfinalize")
    <3> DEFINE o == [sync[c].copy EXCEPT !.cluster = None]
    <3>1. o.state = "deleting"
          BY <1>1, <1>2, <2>1, <2>2 DEF Object, At
    <3> HIDE DEF o
    <3>2. /\ sync'[c].at = "unfinalize" /\ obj'[c] = o
          /\ sync'[c].auth = NoClient /\ sync'[c].driver = NoClient
          BY <2>2 DEF Store, Idle, TypeOK, o
    <3>   QED
          BY <3>1, <3>2 DEF LiveKept, Unremoved, Removing, At, Handed
  <2>3. CASE Fail(c) /\ QuietObject
        BY <2>1, <2>3, EndLive DEF QuietObject
  <2>   QED
        BY <1>11, <2>2, <2>3 DEF StrikeOff, UpdateCopy
<1>12. CASE DeleteCCECluster(c)
  <2>1. UNCHANGED obj /\ At(c, "remove") /\ obj[c].state = "deleting"
        BY <1>12 DEF DeleteCCECluster, QuietObject, LiveKept, Removing, At
  <2>2. CASE (Fail(c) \/ Nil(c)) /\ UNCHANGED cloud
        BY <2>1, <2>2, EndLive
  <2>3. CASE Go(c, "unfinalize") \/ Go(c, "strike")
    <3>1. /\ sync'[c].at \in {"unfinalize", "strike"} /\ sync'[c].auth = sync[c].auth
          /\ sync'[c].driver = sync[c].driver
          BY <1>1, <2>3 DEF Go, TypeOK, Sync
    <3>   QED
          BY <2>1, <3>1 DEF LiveKept, Unremoved, Removing, At, Handed
  <2>4. CASE UNCHANGED sync
        BY <2>1, <2>4 DEF LiveKept, Unremoved, Removing, At, Handed
  <2>   QED
        BY <1>12, <2>2, <2>3, <2>4 DEF DeleteCCECluster
<1>13. CASE RemoveFinalizer(c)
  <2>1. CASE /\ obj' = [obj EXCEPT ![c].state = "removed"] /\ sync' = [sync EXCEPT ![c] = Idle(c)]
    <3>1. /\ sync'[c].at = "idle" /\ sync'[c].auth = NoClient /\ sync'[c].driver = NoClient
          /\ obj'[c].state = "removed"
          BY <1>1, <2>1 DEF TypeOK, Idle, Object
    <3>2. LiveKept(c)'
          BY <3>1, OverLive
    <3>   QED
          BY <3>1, <3>2 DEF Handed
  <2>2. CASE Fail(c) /\ QuietObject
        BY <1>13, <2>2, EndLive DEF QuietObject, RemoveFinalizer
  <2>   QED
        BY <1>13, <2>1, <2>2 DEF RemoveFinalizer
<1>14. CASE FinishSync(c)
  <2>1. /\ sync'[c].at = "idle" /\ sync'[c].auth = NoClient /\ sync'[c].driver = NoClient
        BY <1>14 DEF FinishSync, TypeOK, Idle
  <2>2. obj'[c].state = obj[c].state /\ obj'[c].cluster = obj[c].cluster
    <3>1. PICK add \in BOOLEAN : obj' = [obj EXCEPT ![c].finalizer = @ \/ add]
          BY <1>14 DEF FinishSync
    <3>2. obj'[c] = [obj[c] EXCEPT !.finalizer = @ \/ add]
          BY <3>1 DEF TypeOK
    <3>   QED
          BY <1>1, <3>2 DEF Object
  <2>3. LiveKept(c)'
        BY <1>14, <2>1, <2>2, OverLive DEF FinishSync, LiveKept, Unremoved, Existing
  <2>   QED
        BY <2>1, <2>3 DEF Handed
<1>   QED
      BY <1>4, <1>5, <1>6, <1>7, <1>8, <1>9, <1>10, <1>11, <1>12, <1>13, <1>14 DEF Worker

(* What the step of one sync leaves alone. *)
LEMMA WorkerFrame ==
    ASSUME TypeOK, NEW c \in Configs, Worker(c), ~Panic(c)
    PROVE  /\ UNCHANGED <<want, creds, had>>
           /\ \A d \in Configs \ {c} : obj'[d] = obj[d] /\ sync'[d] = sync[d]
           /\ \/ UNCHANGED drivers
              \/ /\ At(c, "writing")
                 /\ drivers' = [drivers EXCEPT ![sync[c].copy.secret] = sync[c].auth]
           /\ UNCHANGED cloud \/ MakeCluster(c) \/ DeleteCCECluster(c)
<1>1. UNCHANGED <<want, creds, had>>
      BY DEF Worker, StartSync, WriteDriver, TakeDriver, CheckClusters, FindCluster, MakeCluster,
             RecordCluster, RecordPhase, WaitForCreationComplete, CheckAndUpdate, DeleteCCECluster,
             StrikeOff, RemoveFinalizer, FinishSync, QuietWorld, Around
<1>2. \A d \in Configs \ {c} : sync'[d] = sync[d]
      BY DEF Worker, StartSync, WriteDriver, TakeDriver, CheckClusters, FindCluster, MakeCluster,
             RecordCluster, RecordPhase, WaitForCreationComplete, CheckAndUpdate, DeleteCCECluster,
             StrikeOff, RemoveFinalizer, FinishSync, UpdateCopy, Store, Fail, End, Nil, Go, TypeOK
<1>3. \A d \in Configs \ {c} : obj'[d] = obj[d]
      BY DEF Worker, StartSync, WriteDriver, TakeDriver, CheckClusters, FindCluster, MakeCluster,
             RecordCluster, RecordPhase, WaitForCreationComplete, CheckAndUpdate, DeleteCCECluster,
             StrikeOff, RemoveFinalizer, FinishSync, UpdateCopy, Store, QuietObject, QuietWorld, TypeOK
<1>4. \/ UNCHANGED drivers
      \/ /\ At(c, "writing")
         /\ drivers' = [drivers EXCEPT ![sync[c].copy.secret] = sync[c].auth]
      BY DEF Worker, StartSync, WriteDriver, TakeDriver, CheckClusters, FindCluster, MakeCluster,
             RecordCluster, RecordPhase, WaitForCreationComplete, CheckAndUpdate, DeleteCCECluster,
             StrikeOff, RemoveFinalizer, FinishSync, QuietWorld
<1>5. UNCHANGED cloud \/ MakeCluster(c) \/ DeleteCCECluster(c)
      BY DEF Worker, StartSync, WriteDriver, TakeDriver, CheckClusters, FindCluster,
             RecordCluster, RecordPhase, WaitForCreationComplete, CheckAndUpdate,
             StrikeOff, RemoveFinalizer, FinishSync, QuietWorld
<1>   QED
      BY <1>1, <1>2, <1>3, <1>4, <1>5

(* The clusters of the others stay, as they are. *)
LEMMA OthersClusters ==
    ASSUME TypeOK, ClientInv, NEW c \in Configs, Worker(c), ~Panic(c), NEW i \in Existing
    PROVE  /\ cloud[i].by # c => i \in Existing'
           /\ i \in Existing' => cloud'[i] = cloud[i]
<1>1. CASE UNCHANGED cloud
      BY <1>1 DEF Existing
<1>2. CASE MakeCluster(c)
  <2>1. cloud' = cloud \/ (Fresh # {} /\ \E x : cloud' = [cloud EXCEPT ![NewId] = x])
        BY <1>2 DEF MakeCluster
  <2>2. Fresh # {} => i # NewId
        BY FreshTyped DEF Existing, NoCluster
  <2>3. i \in Ids /\ cloud'[i] = cloud[i]
        BY <2>1, <2>2 DEF TypeOK, Existing
  <2>   QED
        BY <2>3 DEF Existing
<1>3. CASE DeleteCCECluster(c)
  <2>1. cloud' = cloud \/ cloud' = [cloud EXCEPT ![sync[c].copy.cluster] = Gone]
        BY <1>3 DEF DeleteCCECluster
  <2>2. cloud[i].by # c => i # sync[c].copy.cluster
        BY NoneAssumption DEF ClientInv, SyncKnown, OwnCluster, Existing
  <2>3. i \in Ids /\ (i # sync[c].copy.cluster => cloud'[i] = cloud[i])
        BY <2>1 DEF TypeOK, Existing
  <2>4. i = sync[c].copy.cluster => cloud'[i] = cloud[i] \/ cloud'[i] = Gone
        BY <2>1, <2>3 DEF TypeOK
  <2>   QED
        BY <2>2, <2>3, <2>4 DEF Existing, Gone, NoCluster
<1>   QED
      BY <1>1, <1>2, <1>3, WorkerFrame

LEMMA WorkerKeeps ==
    ASSUME TypeOK, ClientInv, LiveInv, NEW c \in Configs, Worker(c), ~Panic(c)
    PROVE  LiveInv'
<1>1. LiveKept(c)' /\ Handed(c)
      BY WorkerLive DEF LiveInv
<1>2. UNCHANGED creds /\ \A d \in Configs \ {c} : obj'[d] = obj[d] /\ sync'[d] = sync[d]
      BY WorkerFrame
<1>3. ASSUME NEW d \in Configs, d # c PROVE LiveKept(d)'
  <2>1. \A i \in Existing : cloud[i].by = d => i \in Existing'
        BY <1>3, OthersClusters
  <2>2. obj'[d] = obj[d] /\ sync'[d] = sync[d] /\ LiveKept(d)
        BY <1>2, <1>3 DEF LiveInv
  <2>   QED
        BY <2>1, <2>2, NeighbourLive
<1>4. sync[c].copy.secret \in Secrets /\ obj[c].secret \in Secrets
      BY DEF TypeOK, Sync, Object
<1>5. creds[obj[c].secret].key \in Nat
      BY <1>4 DEF TypeOK
<1>6. \A x : KeyKnown(x)' <=> KeyKnown(x)
      BY <1>2 DEF KeyKnown
<1>7. KeyKnown(NewHuaweiClientAuth(c)) /\ KeyKnown(NoClient) /\ KeyKnown(Named(c))
      BY <1>4, <1>5 DEF KeyKnown, NewHuaweiClientAuth, Named, LiveInv, KeyInv
<1>8. KeyKnown(sync'[c].auth) /\ KeyKnown(sync'[c].driver)
      BY <1>1, <1>7 DEF Handed, LiveInv, KeyInv
<1>9. \A d \in Configs : KeyKnown(sync'[d].auth) /\ KeyKnown(sync'[d].driver)
      BY <1>2, <1>8 DEF LiveInv, KeyInv
<1>10. \A s \in Secrets : KeyKnown(drivers'[s])
  <2>1. UNCHANGED drivers \/ drivers' = [drivers EXCEPT ![sync[c].copy.secret] = sync[c].auth]
        BY WorkerFrame
  <2>2. \A s \in Secrets : drivers'[s] \in {drivers[s], sync[c].auth}
        BY <2>1 DEF TypeOK
  <2>   QED
        BY <2>2 DEF LiveInv, KeyInv
<1>11. KeyInv'
  <2>1. \A s \in Secrets : KeyKnown(drivers[s])'
        BY <1>2, <1>10 DEF KeyKnown
  <2>2. \A d \in Configs : KeyKnown(sync[d].auth)' /\ KeyKnown(sync[d].driver)'
        BY <1>2, <1>9 DEF KeyKnown
  <2>   QED
        BY <2>1, <2>2 DEF KeyInv
<1>   QED
      BY <1>1, <1>3, <1>11 DEF LiveInv

LEMMA DieLive == ASSUME TypeOK, LiveInv, Die PROVE LiveInv'
<1>1. /\ UNCHANGED <<obj, cloud, creds>> /\ \A s \in Secrets : drivers'[s] = NoClient
      /\ \A c \in Configs : /\ sync'[c].at = "idle" /\ sync'[c].auth = NoClient
                            /\ sync'[c].driver = NoClient
      BY DEF Die, Around, Idle
<1>2. KeyInv'
      BY <1>1 DEF KeyInv, KeyKnown
<1>3. ASSUME NEW c \in Configs PROVE LiveKept(c)'
  <2>1. obj'[c].state \in {"unborn", "live", "dropped"} => obj'[c].cluster \in Existing' \cup {None}
        BY <1>1 DEF LiveInv, LiveKept, Unremoved, Existing
  <2>   QED
        BY <1>1, <2>1, OverLive
<1>   QED
      BY <1>2, <1>3 DEF LiveInv

(* Keys only grow. *)
KeysGrow == \A s \in Secrets : creds[s].key <= creds'[s].key

LEMMA RotateGrows == ASSUME TypeOK, UserRotates PROVE KeysGrow
<1>1. PICK s \in Secrets : \/ creds' = [creds EXCEPT ![s].key = @ + 1]
                          \/ \E b \in BOOLEAN : creds' = [creds EXCEPT ![s].there = b]
      BY RotatesOne
<1>2. ASSUME NEW t \in Secrets PROVE creds[t].key <= creds'[t].key
  <2>1. creds[t].key \in Nat
        BY DEF TypeOK
  <2>2. CASE creds' = [creds EXCEPT ![s].key = @ + 1]
    <3>1. creds'[t].key = creds[t].key \/ creds'[t].key = creds[t].key + 1
          BY <2>2 DEF TypeOK
    <3>   QED
          BY <2>1, <3>1
  <2>3. CASE \E b \in BOOLEAN : creds' = [creds EXCEPT ![s].there = b]
    <3>1. creds'[t].key = creds[t].key
          BY <2>3 DEF TypeOK
    <3>   QED
          BY <2>1, <3>1
  <2>   QED
        BY <1>1, <2>2, <2>3
<1>   QED
      BY <1>2 DEF KeysGrow

LEMMA KeyStays ==
    ASSUME TypeOK, TypeOK', KeysGrow, NEW d \in Clients, KeyKnown(d)
    PROVE  /\ d = NoClient \/ d.key <= creds'[d.secret].key
           /\ d # NoClient /\ d.key = creds'[d.secret].key => Valid(d)
<1>1. d # NoClient => d.secret \in Secrets /\ d.key \in Nat
      BY DEF Clients, Client
<1>2. d # NoClient => creds[d.secret].key \in Nat /\ creds'[d.secret].key \in Nat
      BY <1>1 DEF TypeOK
<1>   QED
      BY <1>1, <1>2 DEF KeyKnown, KeysGrow, Valid

LEMMA OthersLive == ASSUME TypeOK, TypeOK', ClientInv, LiveInv, OthersStep PROVE LiveInv'
<1>1. CASE Crash
      BY <1>1, DieLive DEF Crash
<1>2. CASE UserRotates
  <2>1. UNCHANGED <<want, obj, sync, drivers, cloud, had>> /\ KeysGrow
        BY <1>2, RotateGrows DEF UserRotates
  <2>2. /\ \A s \in Secrets : drivers[s] \in Clients
        /\ \A c \in Configs : sync[c].auth \in Clients /\ sync[c].driver \in Clients
        BY DEF TypeOK, Sync
  <2>3. KeyInv'
    <3>1. /\ \A s \in Secrets : drivers'[s] = drivers[s] /\ KeyKnown(drivers[s])
          /\ \A c \in Configs : /\ sync'[c] = sync[c]
                                /\ KeyKnown(sync[c].auth) /\ KeyKnown(sync[c].driver)
          BY <2>1 DEF LiveInv, KeyInv
    <3>2. \A s \in Secrets : KeyKnown(drivers[s])'
          BY <2>1, <2>2, <3>1, KeyStays DEF KeyKnown
    <3>3. \A c \in Configs : KeyKnown(sync[c].auth)' /\ KeyKnown(sync[c].driver)'
          BY <2>1, <2>2, <3>1, KeyStays DEF KeyKnown
    <3>   QED
          BY <3>2, <3>3 DEF KeyInv
  <2>4. \A c \in Configs : LiveKept(c)'
        BY <2>1 DEF LiveInv, LiveKept, Unremoved, Removing, At, Existing
  <2>   QED
        BY <2>3, <2>4 DEF LiveInv
<1>3. ASSUME NEW c \in Configs, User(c) PROVE LiveInv'
  <2>1. obj[c] \in Object /\ LiveKept(c)
        BY DEF TypeOK, LiveInv
  <2>2. PICK o \in Object :
            /\ Touch(c, o) /\ o.cluster = obj[c].cluster
            /\ \/ o.state = obj[c].state
               \/ obj[c].state = "unborn" /\ o.state = "live"
               \/ obj[c].state = "live" /\ o.state \in {"deleting", "dropped"}
    <3>1. /\ \A s \in {"live", "deleting", "dropped"} :
                /\ [obj[c] EXCEPT !.state = s] \in Object
                /\ [obj[c] EXCEPT !.state = s].state = s
                /\ [obj[c] EXCEPT !.state = s].cluster = obj[c].cluster
          /\ \A s \in Secrets :
                /\ [obj[c] EXCEPT !.secret = s] \in Object
                /\ [obj[c] EXCEPT !.secret = s].state = obj[c].state
                /\ [obj[c] EXCEPT !.secret = s].cluster = obj[c].cluster
          BY <2>1 DEF Object
    <3>2. CASE UserCreates(c)
          BY <3>1, <3>2 DEF UserCreates
    <3>3. CASE UserDeletes(c)
          BY <3>1, <3>3 DEF UserDeletes
    <3>4. CASE UserEditsSecret(c)
      <4>1. PICK s \in Secrets : Touch(c, [obj[c] EXCEPT !.secret = s])
            BY <3>4 DEF UserEditsSecret
      <4>   QED
            BY <3>1, <4>1
    <3>   QED
          BY <1>3, <3>2, <3>3, <3>4 DEF User
  <2>3. /\ UNCHANGED <<drivers, creds, cloud>> /\ obj'[c] = o
        /\ \A d \in Configs \ {c} : obj'[d] = obj[d] /\ sync'[d] = sync[d]
        /\ \A d \in Configs : /\ sync'[d].at = sync[d].at /\ sync'[d].copy = sync[d].copy
                              /\ sync'[d].auth = sync[d].auth /\ sync'[d].made = sync[d].made
                              /\ sync'[d].driver = sync[d].driver
        BY <2>2 DEF Touch, TypeOK, Sync
  <2>4. KeyInv'
        BY <2>3 DEF LiveInv, KeyInv, KeyKnown
  <2>5. LiveKept(c)'
        BY <2>1, <2>2, <2>3 DEF LiveKept, Unremoved, Removing, At, Existing
  <2>6. \A d \in Configs \ {c} : LiveKept(d)'
        BY <2>3 DEF LiveInv, LiveKept, Unremoved, Removing, At, Existing
  <2>   QED
        BY <2>4, <2>5, <2>6 DEF LiveInv
<1>   QED
      BY <1>1, <1>2, <1>3 DEF OthersStep

LEMMA InitLive == ASSUME Init PROVE LiveInv
<1>1. /\ \A s \in Secrets : drivers[s] = NoClient
      /\ \A c \in Configs : /\ sync[c].at = "idle" /\ sync[c].auth = NoClient
                            /\ sync[c].driver = NoClient /\ obj[c].cluster = None
      BY DEF Init, Idle, Unborn
<1>   QED
      BY <1>1 DEF LiveInv, KeyInv, KeyKnown, LiveKept, Removing, At

LEMMA NextLive == ASSUME TypeOK, TypeOK', ClientInv, LiveInv, [Next]_vars PROVE LiveInv'
<1>1. CASE UNCHANGED vars
      BY <1>1 DEF vars, LiveInv, KeyInv, KeyKnown, LiveKept, Unremoved, Removing, At, Existing
<1>   QED
      BY <1>1, WorkerKeeps, DieLive, OthersLive DEF Next, OthersStep, Panic

-----------------------------------------------------------------------------
(* Twins: configurations of one name.                                      *)

(* Nothing is promised of a configuration that was deleted before it had a  *)
(* finalizer, or of regions that meet in one secret.                       *)
Excused(c)  == obj[c].state = "dropped" \/ Mixed(c)
Apart(c, d) == want[c].ns # want[d].ns \/ Excused(c) \/ Excused(d)

(* A sync on its way from validateCreate to a cluster of its own. *)
Making(c) == At(c, "make") /\ Valid(sync[c].driver)
Chosen(c) == At(c, "clusters") \/ Making(c)

(* Of the twins in a namespace one at most is on that way. *)
OneChosen ==
    \A c, d \in Configs :
        c # d /\ want[c].name = want[d].name /\ Chosen(c) /\ Chosen(d) => Apart(c, d)

(* What ListClusters found is still true when the cluster is made. *)
NoRivals(c, region) ==
    \A i \in Existing : cloud[i].name = want[c].name /\ cloud[i].region = region =>
                            Apart(c, cloud[i].by)

NoRival == \A c \in Configs : Making(c) => NoRivals(c, sync[c].driver.region)

OneCluster ==
    \A i, j \in Existing :
        i # j /\ cloud[i].name = cloud[j].name /\ cloud[i].region = cloud[j].region =>
            Apart(cloud[i].by, cloud[j].by)

TwinInv == OneChosen /\ NoRival /\ OneCluster

ExcusesStay == \A c \in Configs : Excused(c) => Excused(c)'

LEMMA OneIsOne == OneCluster <=> OneClusterPerName
BY DEF OneCluster, OneClusterPerName, Apart, Excused

LEMMA ByConfig == ASSUME TypeOK, NEW i \in Existing PROVE i \in Ids /\ cloud[i].by \in Configs
BY DEF TypeOK, Existing, NoCluster, Gone, Cluster

LEMMA ApartStays ==
    ASSUME ExcusesStay, UNCHANGED want, NEW c \in Configs, NEW d \in Configs, Apart(c, d)
    PROVE  Apart(c, d)'
BY DEF ExcusesStay, Apart

(* No cluster is new, and of the syncs only that of c may be chosen, or may *)
(* come to the creation, in this step.                                     *)
LEMMA TwinStep ==
    ASSUME TypeOK, TwinInv, ExcusesStay, UNCHANGED want, NEW c \in Configs,
           \A i \in Existing' : i \in Existing /\ cloud'[i] = cloud[i],
           \A d \in Configs \ {c} : /\ Chosen(d)' => Chosen(d)
                                    /\ Making(d)' => Making(d) /\ sync'[d].driver = sync[d].driver,
           \/ Chosen(c)' => Chosen(c)
           \/ \A d \in Configs \ {c} : want[d].name = want[c].name /\ Chosen(d) => Apart(c, d),
           Making(c)' => NoRivals(c, sync'[c].driver.region)
    PROVE  TwinInv'
<1>1. OneChosen'
  <2> SUFFICES ASSUME NEW x \in Configs, NEW y \in Configs, x # y, want[x].name = want[y].name,
                      Chosen(x)', Chosen(y)'
               PROVE  Apart(x, y)'
      BY DEF OneChosen
  <2>1. CASE Chosen(x) /\ Chosen(y)
        BY <2>1, ApartStays DEF TwinInv, OneChosen
  <2>2. CASE ~(Chosen(x) /\ Chosen(y))
    <3>1. Apart(x, y) \/ Apart(y, x)
          BY <2>2
    <3>2. Apart(x, y)
          BY <3>1 DEF Apart
    <3>   QED
          BY <3>2, ApartStays
  <2>   QED
        BY <2>1, <2>2
<1>2. NoRival'
  <2> SUFFICES ASSUME NEW d \in Configs, Making(d)', NEW i \in Existing',
                      cloud'[i].name = want[d].name, cloud'[i].region = sync'[d].driver.region
               PROVE  Apart(d, cloud[i].by)'
      BY DEF NoRival, NoRivals
  <2>1. i \in Existing /\ cloud'[i] = cloud[i] /\ cloud[i].by \in Configs
        BY ByConfig
  <2>2. NoRivals(d, sync'[d].driver.region)
        BY DEF TwinInv, NoRival
  <2>3. Apart(d, cloud[i].by)
        BY <2>1, <2>2 DEF NoRivals
  <2>4. want[d].ns # want[cloud[i].by].ns \/ Excused(d)' \/ Excused(cloud[i].by)'
        BY <2>1, <2>3 DEF Apart, ExcusesStay
  <2>   QED
        BY <2>1, <2>4 DEF Apart
<1>3. OneCluster'
  <2> SUFFICES ASSUME NEW i \in Existing', NEW j \in Existing', i # j,
                      cloud'[i].name = cloud'[j].name, cloud'[i].region = cloud'[j].region
               PROVE  Apart(cloud[i].by, cloud[j].by)'
      BY DEF OneCluster
  <2>1. /\ i \in Existing /\ cloud'[i] = cloud[i] /\ cloud[i].by \in Configs
        /\ j \in Existing /\ cloud'[j] = cloud[j] /\ cloud[j].by \in Configs
        BY ByConfig
  <2>2. Apart(cloud[i].by, cloud[j].by)
        BY <2>1 DEF TwinInv, OneCluster
  <2>3. \/ want[cloud[i].by].ns # want[cloud[j].by].ns
        \/ Excused(cloud[i].by)' \/ Excused(cloud[j].by)'
        BY <2>1, <2>2 DEF Apart, ExcusesStay
  <2>   QED
        BY <2>1, <2>3 DEF Apart
<1>   QED
      BY <1>1, <1>2, <1>3 DEF TwinInv

(* The cluster is made. *)
LEMMA TwinMade ==
    ASSUME TypeOK, TwinInv, ExcusesStay, UNCHANGED want, NEW c \in Configs, Making(c),
           NEW new \in Ids, new \notin Existing, Existing' = Existing \cup {new},
           \A i \in Existing : cloud'[i] = cloud[i],
           cloud'[new].region = sync[c].driver.region, cloud'[new].name = want[c].name,
           cloud'[new].by = c, ~Chosen(c)',
           \A d \in Configs \ {c} : /\ Chosen(d)' => Chosen(d)
                                    /\ Making(d)' => Making(d) /\ sync'[d].driver = sync[d].driver
    PROVE  TwinInv'
<1>1. OneChosen'
  <2> SUFFICES ASSUME NEW x \in Configs, NEW y \in Configs, x # y, want[x].name = want[y].name,
                      Chosen(x)', Chosen(y)'
               PROVE  Apart(x, y)'
      BY DEF OneChosen
  <2>1. Chosen(x) /\ Chosen(y)
        OBVIOUS
  <2>   QED
        BY <2>1, ApartStays DEF TwinInv, OneChosen
<1>2. NoRival'
  <2> SUFFICES ASSUME NEW d \in Configs, Making(d)', NEW i \in Existing',
                      cloud'[i].name = want[d].name, cloud'[i].region = sync'[d].driver.region
               PROVE  Apart(d, cloud[i].by)'
      BY DEF NoRival, NoRivals
  <2>1. d # c /\ Making(d) /\ sync'[d].driver = sync[d].driver
        BY DEF Chosen
  <2>2. CASE i \in Existing
    <3>1. cloud'[i] = cloud[i] /\ cloud[i].by \in Configs
          BY <2>2, ByConfig
    <3>2. Apart(d, cloud[i].by)
          BY <2>1, <2>2, <3>1 DEF TwinInv, NoRival, NoRivals
    <3>3. want[d].ns # want[cloud[i].by].ns \/ Excused(d)' \/ Excused(cloud[i].by)'
          BY <3>1, <3>2 DEF Apart, ExcusesStay
    <3>   QED
          BY <3>1, <3>3 DEF Apart
  <2>3. CASE i = new
    <3>1. Apart(d, c)
          BY <2>1, <2>3 DEF TwinInv, OneChosen, Chosen
    <3>2. Apart(d, c)'
          BY <3>1, ApartStays
    <3>   QED
          BY <2>3, <3>2 DEF Apart
  <2>   QED
        BY <2>2, <2>3
<1>3. OneCluster'
  <2> SUFFICES ASSUME NEW i \in Existing', NEW j \in Existing', i # j,
                      cloud'[i].name = cloud'[j].name, cloud'[i].region = cloud'[j].region
               PROVE  Apart(cloud[i].by, cloud[j].by)'
      BY DEF OneCluster
  <2>1. NoRivals(c, sync[c].driver.region)
        BY DEF TwinInv, NoRival
  <2>2. ASSUME NEW k \in Existing
        PROVE  cloud'[k] = cloud[k] /\ cloud[k].by \in Configs
        BY ByConfig
  <2>3. CASE i \in Existing /\ j \in Existing
    <3>1. Apart(cloud[i].by, cloud[j].by)
          BY <2>2, <2>3 DEF TwinInv, OneCluster
    <3>2. \/ want[cloud[i].by].ns # want[cloud[j].by].ns
          \/ Excused(cloud[i].by)' \/ Excused(cloud[j].by)'
          BY <2>2, <2>3, <3>1 DEF Apart, ExcusesStay
    <3>   QED
          BY <2>2, <2>3, <3>2 DEF Apart
  <2>4. ASSUME NEW k \in Existing, cloud'[k].name = want[c].name,
               cloud'[k].region = sync[c].driver.region
        PROVE  want[cloud[k].by].ns # want[c].ns \/ Excused(c)' \/ Excused(cloud[k].by)'
    <3>1. Apart(c, cloud[k].by)
          BY <2>1, <2>2, <2>4 DEF NoRivals
    <3>   QED
          BY <2>2, <3>1 DEF Apart, ExcusesStay
  <2>5. CASE i = new /\ j \in Existing
        BY <2>2, <2>4, <2>5 DEF Apart
  <2>6. CASE i \in Existing /\ j = new
        BY <2>2, <2>4, <2>6 DEF Apart
  <2>   QED
        BY <2>3, <2>5, <2>6
<1>   QED
      BY <1>1, <1>2, <1>3 DEF TwinInv

(* A worker does not bring a dropped configuration back. *)
LEMMA WorkerExcuses ==
    ASSUME TypeOK, ClientInv, LiveInv, NEW c \in Configs, Worker(c), ~Panic(c)
    PROVE  ExcusesStay
<1>1. /\ UNCHANGED <<want, had>> /\ \A d \in Configs \ {c} : obj'[d] = obj[d]
      BY WorkerFrame
<1>2. /\ obj[c] \in Object /\ sync[c].copy \in Object /\ LiveKept(c)
      /\ sync[c].current /\ ~At(c, "finish") => sync[c].copy = obj[c]
      BY DEF TypeOK, Sync, LiveInv, ClientInv, SyncKnown
<1>3. ASSUME obj[c].state = "dropped" PROVE obj'[c].state = "dropped"
  <2>1. c \notin Stored
        BY <1>3 DEF Stored
  <2>2. CASE RecordCluster(c) \/ RecordPhase(c)
        BY <1>3, <2>1, <2>2 DEF RecordCluster, RecordPhase, QuietObject
  <2>3. CASE WaitForCreationComplete(c) \/ StrikeOff(c)
    <3>1. sync[c].at \in {"wait", "strike"}
          BY <2>3 DEF WaitForCreationComplete, StrikeOff, At
    <3>2. CASE \E o \in Object : o.state = sync[c].copy.state /\ sync[c].current
                                 /\ obj' = [obj EXCEPT ![c] = o]
          BY <1>2, <1>3, <3>1, <3>2 DEF At, TypeOK
    <3>3. /\ [sync[c].copy EXCEPT !.phase = "running"] \in Object
          /\ [sync[c].copy EXCEPT !.phase = "running"].state = sync[c].copy.state
          /\ [sync[c].copy EXCEPT !.cluster = None] \in Object
          /\ [sync[c].copy EXCEPT !.cluster = None].state = sync[c].copy.state
          BY <1>2 DEF Object
    <3>   QED
          BY <1>3, <2>3, <3>2, <3>3
          DEF WaitForCreationComplete, StrikeOff, UpdateCopy, Store, QuietObject
  <2>4. CASE RemoveFinalizer(c)
        BY <1>2, <1>3, <2>4 DEF RemoveFinalizer, LiveKept, Removing, At
  <2>5. CASE FinishSync(c)
    <3>1. PICK add \in BOOLEAN : obj' = [obj EXCEPT ![c].finalizer = @ \/ add]
          BY <2>5 DEF FinishSync
    <3>2. obj'[c] = [obj[c] EXCEPT !.finalizer = @ \/ add]
          BY <3>1 DEF TypeOK
    <3>   QED
          BY <1>2, <1>3, <3>2 DEF Object
  <2>6. CASE UNCHANGED obj
        BY <1>3, <2>6
  <2>   QED
        BY <2>2, <2>3, <2>4, <2>5, <2>6
        DEF Worker, StartSync, WriteDriver, TakeDriver, CheckClusters, FindCluster, MakeCluster,
            CheckAndUpdate, DeleteCCECluster, QuietObject, QuietWorld
<1>4. \A d \in Configs : obj[d].state = "dropped" => obj'[d].state = "dropped"
      BY <1>1, <1>3
<1>5. \A d \in Configs : Mixed(d) => Mixed(d)'
      BY <1>1 DEF Mixed
<1>   QED
      BY <1>4, <1>5 DEF ExcusesStay, Excused

(* The steps that bring a sync on its way to a cluster. *)
LEMMA WayToCluster ==
    ASSUME TypeOK, NEW c \in Configs, Worker(c), ~Panic(c), sync'[c].at \in {"clusters", "make"}
    PROVE  TakeDriver(c) \/ CheckClusters(c) \/ FindCluster(c)
<1>1. sync[c] \in Sync /\ sync[c].copy \in Object /\ obj[c] \in Object
      BY DEF TypeOK, Sync
<1>2. ~Fail(c) /\ ~Nil(c)
  <2>1. CASE Fail(c)
    <3>1. sync'[c] = Ended(c, TRUE, sync[c].current)
          BY <2>1 DEF Fail, End, TypeOK
    <3>   QED
          BY <3>1 DEF Ended, Idle
  <2>2. CASE Nil(c)
    <3>1. sync'[c] = [Idle(c) EXCEPT !.at = "panic"]
          BY <2>2 DEF Nil, TypeOK
    <3>   QED
          BY <3>1 DEF Idle
  <2>   QED
        BY <2>1, <2>2
<1>3. ASSUME NEW failed, NEW current, sync' = [sync EXCEPT ![c] = Ended(c, failed, current)]
      PROVE  FALSE
  <2>1. sync'[c] = Ended(c, failed, current)
        BY <1>3 DEF TypeOK
  <2>   QED
        BY <2>1 DEF Ended, Idle
<1>4. ASSUME NEW step, Go(c, step) PROVE sync'[c].at = step
      BY <1>1, <1>4 DEF Go, TypeOK, Sync
<1>5. ASSUME NEW o, NEW step \in {"phase", "unfinalize", "finish"}, Store(c, o, step)
      PROVE  FALSE
      BY <1>5 DEF Store, Ended, Idle, TypeOK
<1>6. ~StartSync(c)
  <2>1. Dispatch(obj[c]) \in {"remove", "take", "wait", "check"}
        BY <1>1, DispatchTyped
  <2> DEFINE start(step) == [Idle(c) EXCEPT !.at = step, !.copy = obj[c], !.current = TRUE]
  <2>2. ASSUME StartSync(c) PROVE FALSE
    <3>1. CASE sync' = [sync EXCEPT ![c] = [start("writing") EXCEPT !.auth = NewHuaweiClientAuth(c)]]
          BY <3>1 DEF TypeOK, Idle
    <3>2. CASE sync' = [sync EXCEPT ![c] = start(Dispatch(obj[c]))]
          BY <2>1, <3>2 DEF TypeOK, Idle
    <3>3. CASE sync' = sync
          BY <2>2, <3>3 DEF StartSync, At
    <3>   QED
          BY <1>3, <2>2, <3>1, <3>2, <3>3 DEF StartSync
  <2>   QED
        BY <2>2
<1>7. ~WriteDriver(c)
  <2>1. Dispatch(sync[c].copy) \in {"remove", "take", "wait", "check"}
        BY <1>1, DispatchTyped
  <2>   QED
        BY <1>1, <2>1 DEF WriteDriver, TypeOK, Sync
<1>8. ~MakeCluster(c)
      BY <1>1, <1>2 DEF MakeCluster, TypeOK, Sync
<1>9. ~RecordCluster(c) /\ ~RecordPhase(c) /\ ~WaitForCreationComplete(c) /\ ~StrikeOff(c)
      BY <1>2, <1>5
      DEF RecordCluster, RecordPhase, WaitForCreationComplete, StrikeOff, UpdateCopy
<1>10. ~CheckAndUpdate(c)
      BY <1>2, <1>3 DEF CheckAndUpdate
<1>11. ~DeleteCCECluster(c)
      BY <1>2, <1>4 DEF DeleteCCECluster, At
<1>12. ~RemoveFinalizer(c) /\ ~FinishSync(c)
      BY <1>2 DEF RemoveFinalizer, FinishSync, Idle, TypeOK
<1>   QED
      BY <1>6, <1>7, <1>8, <1>9, <1>10, <1>11, <1>12 DEF Worker

(* A configuration is chosen when none of its name is stored beside it, and *)
(* comes to the creation through a list of its own region without the name. *)
LEMMA WorkerTwins ==
    ASSUME TypeOK, ClientInv, LiveInv, TwinInv, NEW c \in Configs, Worker(c), ~Panic(c)
    PROVE  TwinInv'
<1>1. ExcusesStay /\ UNCHANGED want
      BY WorkerExcuses, WorkerFrame
<1>2. /\ obj[c] \in Object /\ sync[c] \in Sync /\ SyncKnown(c) /\ LiveKept(c) /\ HomeRegion
      BY DEF TypeOK, ClientInv, LiveInv
<1>3. \A x : Valid(x)' <=> Valid(x)
      BY WorkerFrame DEF Valid
<1>4. \A d \in Configs \ {c} : /\ Chosen(d)' => Chosen(d)
                               /\ Making(d)' => Making(d) /\ sync'[d].driver = sync[d].driver
  <2>1. \A d \in Configs \ {c} : sync'[d] = sync[d] /\ creds' = creds
        BY WorkerFrame
  <2>   QED
        BY <2>1 DEF Chosen, Making, At, Valid
<1>5. CASE /\ MakeCluster(c) /\ Valid(sync[c].driver) /\ Fresh # {}
           /\ cloud' = [cloud EXCEPT ![NewId] =
                 [state |-> "live", region |-> sync[c].driver.region,
                  name |-> want[c].name, by |-> c]]
           /\ sync' = [sync EXCEPT ![c].at = "record", ![c].made = NewId,
                                   ![c].driver = NoClient]
  <2> DEFINE new == NewId
  <2>1. new \in Ids /\ cloud[new] = NoCluster
        BY <1>5, FreshTyped
  <2> HIDE DEF new
  <2>2. /\ \A i \in Ids : i # new => cloud'[i] = cloud[i]
        /\ cloud'[new] = [state |-> "live", region |-> sync[c].driver.region,
                          name |-> want[c].name, by |-> c]
        BY <1>5, <2>1 DEF TypeOK, new
  <2>3. new \notin Existing /\ Existing' = Existing \cup {new}
        BY <2>1, <2>2 DEF Existing, NoCluster
  <2>4. \A i \in Existing : cloud'[i] = cloud[i]
        BY <2>2, <2>3 DEF Existing
  <2>5. Making(c)
        BY <1>5 DEF Making, MakeCluster
  <2>6. ~Chosen(c)'
    <3>1. sync'[c].at = "record"
          BY <1>2, <1>5 DEF TypeOK, Sync
    <3>   QED
          BY <3>1 DEF Chosen, Making, At
  <2>   QED
        BY <1>1, <1>4, <2>1, <2>2, <2>3, <2>4, <2>5, <2>6, TwinMade
<1>6. CASE cloud' = cloud \/ cloud' = [cloud EXCEPT ![sync[c].copy.cluster] = Gone]
  <2>1. \A i \in Existing' : i \in Existing /\ cloud'[i] = cloud[i]
        BY <1>6 DEF Existing, TypeOK, Gone, NoCluster
  <2>2. CASE TakeDriver(c) /\ sync'[c].at \in {"clusters", "make"}
    <3>1. /\ c \in Stored /\ ~SameName(c)
          /\ sync' = [sync EXCEPT
                ![c].at = IF obj[c].cluster # None THEN "find" ELSE "clusters",
                ![c].copy = obj[c], ![c].current = TRUE,
                ![c].driver = Named(c),
                ![c].again = IF obj[c].cluster # None THEN NoClient
                             ELSE drivers[obj[c].secret]]
      <4>1. CASE Fail(c)
        <5>1. sync'[c] = Ended(c, TRUE, sync[c].current)
              BY <4>1 DEF Fail, End, TypeOK
        <5>   QED
              BY <2>2, <5>1 DEF Ended, Idle
      <4>2. CASE sync' = [sync EXCEPT ![c] = Ended(c, TRUE, TRUE)]
        <5>1. sync'[c] = Ended(c, TRUE, TRUE)
              BY <4>2 DEF TypeOK
        <5>   QED
              BY <2>2, <5>1 DEF Ended, Idle
      <4>   QED
            BY <2>2, <4>1, <4>2 DEF TakeDriver
    <3>2. sync'[c].at # "make"
          BY <1>2, <3>1 DEF TypeOK, Sync
    <3>3. ASSUME NEW d \in Configs \ {c}, want[d].name = want[c].name, Chosen(d)
          PROVE  Apart(c, d)
      <4>1. obj[d].state \in {"live", "deleting", "dropped"}
            BY <3>3 DEF Chosen, Making, At, LiveInv, LiveKept
      <4>2. CASE d \in Stored
            BY <3>1, <3>3, <4>2 DEF SameName, Apart
      <4>3. CASE d \notin Stored
            BY <4>1, <4>3 DEF Stored, Apart, Excused
      <4>   QED
            BY <4>2, <4>3
    <3>4. ~Making(c)'
          BY <3>2 DEF Making, At
    <3>   QED
          BY <1>1, <1>4, <2>1, <3>3, <3>4, TwinStep
  <2>3. CASE CheckClusters(c) /\ sync'[c].at \in {"clusters", "make"}
    <3> DEFINE x == sync[c].again
    <3>1. /\ At(c, "clusters") /\ Valid(x)
          /\ ~\E i \in Existing : Sees(x, i) /\ cloud[i].name = want[c].name
          /\ sync' = [sync EXCEPT ![c].at = "make", ![c].again = NoClient]
      <4>1. CASE Fail(c)
        <5>1. sync'[c] = Ended(c, TRUE, sync[c].current)
              BY <4>1 DEF Fail, End, TypeOK
        <5>   QED
              BY <2>3, <5>1 DEF Ended, Idle
      <4>2. CASE Nil(c)
        <5>1. sync'[c] = [Idle(c) EXCEPT !.at = "panic"]
              BY <4>2 DEF Nil, TypeOK
        <5>   QED
              BY <2>3, <5>1 DEF Idle
      <4>   QED
            BY <2>3, <4>1, <4>2 DEF CheckClusters
    <3>2. sync'[c].driver = sync[c].driver
          BY <1>2, <3>1 DEF TypeOK, Sync
    <3>3. Making(c)' => NoRivals(c, sync'[c].driver.region)
      <4> SUFFICES ASSUME Making(c)', ~Mixed(c) PROVE NoRivals(c, sync'[c].driver.region)
          BY DEF NoRivals, Apart, Excused
      <4>1. sync[c].driver # NoClient
            BY <3>2 DEF Making, Valid
      <4>2. x.region = want[c].region /\ sync[c].driver.region = want[c].region
            BY <1>2, <3>1, <4>1 DEF SyncKnown, Home, Valid
      <4>   QED
            BY <3>1, <3>2, <4>2 DEF NoRivals, Sees
    <3>4. Chosen(c)
          BY <3>1 DEF Chosen
    <3>   QED
          BY <1>1, <1>4, <2>1, <3>3, <3>4, TwinStep
  <2>4. CASE FindCluster(c) /\ sync'[c].at \in {"clusters", "make"}
    <3> DEFINE x == sync[c].driver
               i == sync[c].copy.cluster
    <3>1. At(c, "find") /\ Go(c, IF Valid(x) /\ Sees(x, i) THEN "phase" ELSE "make")
      <4>1. CASE Nil(c)
        <5>1. sync'[c] = [Idle(c) EXCEPT !.at = "panic"]
              BY <4>1 DEF Nil, TypeOK
        <5>   QED
              BY <2>4, <5>1 DEF Idle
      <4>   QED
            BY <2>4, <4>1 DEF FindCluster
    <3>2. sync'[c].driver = x /\ ~(Valid(x) /\ Sees(x, i))
          BY <1>2, <2>4, <3>1 DEF Go, TypeOK, Sync
    <3>3. Making(c)' => Mixed(c)
      <4> SUFFICES ASSUME Valid(x), ~Mixed(c) PROVE FALSE
          BY <1>3, <3>2 DEF Making
      <4>1. i \in Existing /\ cloud[i].by = c
        <5>1. i \in Existing
              BY <1>2, <3>1 DEF LiveKept
        <5>   QED
              BY <1>2, <5>1, NoneAssumption DEF SyncKnown, OwnCluster, Existing
      <4>2. cloud[i].region = want[c].region
            BY <1>2, <4>1 DEF HomeRegion
      <4>3. x.region = want[c].region
            BY <1>2 DEF SyncKnown, Home, Valid
      <4>   QED
            BY <3>2, <4>1, <4>2, <4>3 DEF Sees
    <3>4. Making(c)' => NoRivals(c, sync'[c].driver.region)
          BY <3>3 DEF NoRivals, Apart, Excused
    <3>5. ~At(c, "clusters")'
          BY <1>2, <3>1 DEF Go, TypeOK, Sync, At
    <3>6. \/ Chosen(c)' => Chosen(c)
          \/ \A d \in Configs \ {c} : want[d].name = want[c].name /\ Chosen(d) => Apart(c, d)
          BY <3>3, <3>5 DEF Chosen, Apart, Excused
    <3>   QED
          BY <1>1, <1>4, <2>1, <3>4, <3>6, TwinStep
  <2>5. CASE sync'[c].at \notin {"clusters", "make"}
    <3>1. ~Chosen(c)' /\ ~Making(c)'
          BY <2>5 DEF Chosen, Making, At
    <3>   QED
          BY <1>1, <1>4, <2>1, <3>1, TwinStep
  <2>   QED
        BY <2>2, <2>3, <2>4, <2>5, WayToCluster
<1>7. \/ cloud' = cloud
      \/ cloud' = [cloud EXCEPT ![sync[c].copy.cluster] = Gone]
      \/ MakeCluster(c)
      BY WorkerFrame DEF DeleteCCECluster
<1>   QED
      BY <1>5, <1>6, <1>7 DEF MakeCluster

(* Steps of nobody's sync.                                                 *)
LEMMA QuietTwins ==
    ASSUME TypeOK, TwinInv, ExcusesStay, UNCHANGED <<want, cloud>>,
           \A d \in Configs : /\ Chosen(d)' => Chosen(d)
                              /\ Making(d)' => Making(d) /\ sync'[d].driver = sync[d].driver
    PROVE  TwinInv'
<1>1. \A i \in Existing' : i \in Existing /\ cloud'[i] = cloud[i]
      BY DEF Existing
<1>2. CASE \E c \in Configs : TRUE
  <2>1. PICK c \in Configs : TRUE
        BY <1>2
  <2>2. Making(c)' => NoRivals(c, sync'[c].driver.region)
        BY DEF TwinInv, NoRival
  <2>   QED
        BY <1>1, <2>1, <2>2, TwinStep
<1>3. CASE Configs = {}
  <2>1. Existing' = {}
        BY <1>1, <1>3, ByConfig
  <2>   QED
        BY <1>3, <2>1 DEF TwinInv, OneChosen, NoRival, OneCluster
<1>   QED
      BY <1>2, <1>3

LEMMA OthersTwins ==
    ASSUME TypeOK, TypeOK', ClientInv, LiveInv, TwinInv, OthersStep PROVE TwinInv'
<1>1. CASE Crash
  <2>1. UNCHANGED <<want, had, obj, cloud>> /\ \A c \in Configs : sync'[c].at = "idle"
        BY <1>1 DEF Crash, Die, Around, Idle
  <2>2. ExcusesStay
        BY <2>1 DEF ExcusesStay, Excused, Mixed
  <2>3. \A d \in Configs : ~Chosen(d)' /\ ~Making(d)'
        BY <2>1 DEF Chosen, Making, At
  <2>   QED
        BY <2>1, <2>2, <2>3, QuietTwins
<1>2. CASE UserRotates
  <2>1. UNCHANGED <<want, had, obj, sync, cloud>> /\ KeysGrow
        BY <1>2, RotateGrows DEF UserRotates
  <2>2. ExcusesStay
        BY <2>1 DEF ExcusesStay, Excused, Mixed
  <2>3. ASSUME NEW d \in Configs PROVE Valid(sync[d].driver)' => Valid(sync[d].driver)
    <3>1. sync'[d] = sync[d] /\ sync[d].driver \in Clients /\ KeyKnown(sync[d].driver)
          BY <2>1 DEF TypeOK, Sync, LiveInv, KeyInv
    <3>   QED
          BY <2>1, <3>1, KeyStays DEF Valid
  <2>4. \A d \in Configs : /\ Chosen(d)' => Chosen(d)
                           /\ Making(d)' => Making(d) /\ sync'[d].driver = sync[d].driver
        BY <2>1, <2>3 DEF Chosen, Making, At
  <2>   QED
        BY <2>1, <2>2, <2>4, QuietTwins
<1>3. ASSUME NEW c \in Configs, User(c) PROVE TwinInv'
  <2>1. PICK o : Touch(c, o)
        BY <1>3 DEF User, UserCreates, UserDeletes, UserEditsSecret
  <2>2. /\ UNCHANGED <<want, cloud, creds>>
        /\ \A d \in Configs : sync'[d].at = sync[d].at /\ sync'[d].driver = sync[d].driver
        /\ \A d \in Configs \ {c} : obj'[d] = obj[d]
        BY <2>1 DEF Touch, TypeOK, Sync
  <2>3. ASSUME obj[c].state = "dropped" PROVE obj'[c].state = "dropped"
    <3>1. PICK s \in Secrets : obj' = [obj EXCEPT ![c] = [obj[c] EXCEPT !.secret = s]]
          BY <1>3, <2>3 DEF User, UserCreates, UserDeletes, UserEditsSecret, Touch
    <3>2. obj'[c] = [obj[c] EXCEPT !.secret = s] /\ obj[c] \in Object
          BY <3>1 DEF TypeOK
    <3>   QED
          BY <2>3, <3>2 DEF Object
  <2>4. \A d \in Configs : had[d] \subseteq had'[d]
        BY <1>3 DEF User, UserCreates, UserDeletes, UserEditsSecret, TypeOK
  <2>5. ExcusesStay
    <3>1. \A d \in Configs : Mixed(d) => Mixed(d)'
          BY <2>2, <2>4 DEF Mixed
    <3>   QED
          BY <2>2, <2>3, <3>1 DEF ExcusesStay, Excused
  <2>6. \A d \in Configs : /\ Chosen(d)' => Chosen(d)
                           /\ Making(d)' => Making(d) /\ sync'[d].driver = sync[d].driver
        BY <2>2 DEF Chosen, Making, At, Valid
  <2>   QED
        BY <2>2, <2>5, <2>6, QuietTwins
<1>   QED
      BY <1>1, <1>2, <1>3 DEF OthersStep

LEMMA InitTwins == ASSUME Init PROVE TwinInv
<1>1. Existing = {} /\ \A c \in Configs : sync[c].at = "idle"
      BY DEF Init, Existing, NoCluster, Idle
<1>   QED
      BY <1>1 DEF TwinInv, OneChosen, NoRival, OneCluster, Chosen, Making, At

LEMMA NextTwins ==
    ASSUME TypeOK, TypeOK', ClientInv, LiveInv, TwinInv, [Next]_vars PROVE TwinInv'
<1>1. CASE UNCHANGED vars
  <2>1. UNCHANGED <<want, had, obj, sync, cloud, creds>>
        BY <1>1 DEF vars
  <2>2. ExcusesStay
        BY <2>1 DEF ExcusesStay, Excused, Mixed
  <2>3. \A d \in Configs : /\ Chosen(d)' => Chosen(d)
                           /\ Making(d)' => Making(d) /\ sync'[d].driver = sync[d].driver
        BY <2>1 DEF Chosen, Making, At, Valid
  <2>   QED
        BY <2>1, <2>2, <2>3, QuietTwins
<1>2. CASE \E c \in Configs : Panic(c)
  <2>1. UNCHANGED <<want, had, obj, cloud>> /\ \A c \in Configs : sync'[c].at = "idle"
        BY <1>2 DEF Panic, Die, Around, Idle
  <2>2. ExcusesStay
        BY <2>1 DEF ExcusesStay, Excused, Mixed
  <2>3. \A d \in Configs : ~Chosen(d)' /\ ~Making(d)'
        BY <2>1 DEF Chosen, Making, At
  <2>   QED
        BY <2>1, <2>2, <2>3, QuietTwins
<1>   QED
      BY <1>1, <1>2, WorkerTwins, OthersTwins DEF Next, OthersStep

(* No region gets two clusters of one name from one namespace, though the   *)
(* check of the configurations, the check of the clusters and the creation  *)
(* are apart and other workers go on in between: unless one configuration   *)
(* was dropped before it had its finalizer, or two regions meet in a secret. *)
THEOREM OneClusterAName == Spec => []OneClusterPerName
<1>1. Init => ClientInv /\ LiveInv /\ TwinInv
      BY InitKnown, InitLive, InitTwins
<1>2. TypeOK /\ TypeOK' /\ ClientInv /\ LiveInv /\ TwinInv /\ [Next]_vars =>
          ClientInv' /\ LiveInv' /\ TwinInv'
      BY NextKnown, NextLive, NextTwins
<1>3. TwinInv => OneClusterPerName
      BY OneIsOne DEF TwinInv
<1>   QED
      BY <1>1, <1>2, <1>3, TypeCorrect, PTL DEF Spec
=============================================================================
