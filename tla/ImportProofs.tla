----------------------------- MODULE ImportProofs -----------------------------
(* Proofs about Import: its types, that the Secret is there when it should  *)
(* be and has the address it should, and that an import does not bring the  *)
(* operator down by itself; for every list of certificates and any number   *)
(* of objects, faults and edits.                                            *)
EXTENDS Import, TLAPS

-----------------------------------------------------------------------------
(* What the worker holds.                                                  *)

Handling == {"create", "adopt", "show", "ip", "find", "make", "active",
             "wait", "phase", "check"}

(* Only an object that is read or written without success has no uid. *)
Numbered == obj.uid # 0 /\ (sync.copy # Empty => sync.copy.uid # 0)

(* A handler that goes on has an object, but for createCASecret. *)
Held == sync.at \in Handling => sync.copy # Empty

(* The certificate was chosen for the copy that gets the Secret. *)
Chosen == sync.at \in {"find", "make"} =>
              sync.cert = ClusterCert(certs, sync.copy.public) /\ sync.cert # None

(* A copy whose write would be accepted is the stored object. *)
Agrees == sync.fresh /\ sync.copy # Empty => sync.copy = obj

Sound == TypeOK /\ Numbered /\ Held /\ Chosen /\ Agrees

LEMMA EmptyTyped == Empty \in Object /\ Empty.uid = 0
BY BoundsAssumption DEF Empty, Object

LEMMA NewTyped ==
    ASSUME NEW uid \in Uids, NEW public \in BOOLEAN, imported \in BOOLEAN
    PROVE  New(uid, public) \in Object /\ New(uid, public).uid = uid
<1>1. Empty \in Object /\ uid \in 0 .. MaxObjects
      BY EmptyTyped, BoundsAssumption DEF Uids
<1>2. /\ (~imported) \in BOOLEAN
      /\ (IF imported THEN "" ELSE "creating") \in {"", "creating"}
      OBVIOUS
<1> DEFINE phase == IF imported THEN "" ELSE "creating"
           held  == ~imported
<1> HIDE DEF phase, held
<1>3. [Empty EXCEPT !.uid = uid, !.state = "live", !.public = public,
                    !.finalizer = held, !.phase = phase] \in Object
      BY <1>1, <1>2 DEF Object, phase, held
<1>   QED
      BY <1>1, <1>3 DEF New, Object, phase, held

LEMMA RestTyped ==
    Rest \in Sync /\ Rest.at = "idle" /\ Rest.copy = Empty /\ Rest.fresh = FALSE
BY EmptyTyped DEF Rest, Sync, Steps

LEMMA CertTyped ==
    ASSUME NEW list \in CertLists, NEW public \in BOOLEAN
    PROVE  ClusterCert(list, public) \in CertNames \cup {None}
<1>1. list \in Seq(CertNames)
      BY CertsAssumption
<1>2. ASSUME Listed("internalCluster", list) PROVE Last(list) \in CertNames
  <2>1. Len(list) \in DOMAIN list
        BY <1>1, <1>2 DEF Listed
  <2>   QED
        BY <1>1, <2>1 DEF Last
<1>   QED
      BY <1>2 DEF ClusterCert, CertNames

(* What the steps below are made of leaves the worker sound. *)
SyncSound == /\ sync \in Sync /\ (sync.copy # Empty => sync.copy.uid # 0)
             /\ Held /\ Chosen /\ Agrees

LEMMA SoundParts ==
    ASSUME Sound
    PROVE  /\ obj \in Object /\ obj.uid \in Uids /\ obj # Empty
           /\ sync \in Sync /\ sync.copy \in Object
           /\ (sync.copy # Empty => sync.copy.uid \in Uids)
           /\ sync.fresh \in BOOLEAN /\ sync.failed \in BOOLEAN /\ SyncSound
<1>1. obj \in Object /\ sync \in Sync /\ sync.copy \in Object
      BY DEF Sound, TypeOK, Sync
<1>2. ASSUME NEW o \in Object, o.uid # 0 PROVE o.uid \in Uids
  <2>1. o.uid \in 0 .. MaxObjects
        BY DEF Object
  <2>   QED
        BY <1>2, <2>1, BoundsAssumption DEF Uids
<1>3. sync.fresh \in BOOLEAN /\ sync.failed \in BOOLEAN
      BY <1>1 DEF Sync
<1>   QED
      BY <1>1, <1>2, <1>3, EmptyTyped DEF Sound, Numbered, SyncSound

LEMMA StoreSound ==
    ASSUME Sound, NEW o \in Object, o.uid # 0,
           NEW step \in {"certs", "report", "finish"}, Store(o, step),
           UNCHANGED certs
    PROVE  obj' = o /\ queued' \in BOOLEAN /\ SyncSound'
<1>1. (sync.same /\ o = obj) \in BOOLEAN /\ sync.same \in BOOLEAN /\ queued \in BOOLEAN
      BY DEF Sound, TypeOK, Sync
<1>2. sync' = [sync EXCEPT !.at = step, !.copy = o, !.fresh = TRUE, !.same = sync.same /\ o = obj]
      BY DEF Store
<1>3. sync' \in Sync
      BY <1>1, <1>2, SoundParts DEF Sync, Steps
<1>4. sync'.at = step /\ sync'.copy = o
      BY <1>2, SoundParts DEF Sync
<1>5. obj' = o /\ queued' \in BOOLEAN
      BY <1>1 DEF Store
<1>   QED
      BY <1>3, <1>4, <1>5 DEF SyncSound, Held, Chosen, Agrees, Handling

(* The handler ends, moves to a step that needs no object, or gives up its *)
(* copy.                                                                   *)
LEMMA MoveSound ==
    ASSUME Sound, UNCHANGED <<obj, certs>>,
           NEW step \in Steps \ {"find", "make"}, step \in Handling => sync.copy # Empty,
           NEW failed \in BOOLEAN,
           sync' = [sync EXCEPT !.at = step, !.failed = failed]
    PROVE  SyncSound'
<1>1. /\ sync' \in Sync /\ sync'.at = step /\ sync'.copy = sync.copy
      /\ sync'.fresh = sync.fresh
      BY SoundParts DEF Sync
<1>   QED
      BY <1>1, SoundParts DEF SyncSound, Held, Chosen, Agrees, Handling

LEMMA GoSound ==
    ASSUME Sound, UNCHANGED <<obj, certs>>,
           NEW step \in Steps \ {"find", "make"}, step \in Handling => sync.copy # Empty, Go(step)
    PROVE  SyncSound'
<1>1. /\ sync' \in Sync /\ sync'.at = step /\ sync'.copy = sync.copy
      /\ sync'.fresh = sync.fresh
      BY SoundParts DEF Sync, Go
<1>   QED
      BY <1>1, SoundParts DEF SyncSound, Held, Chosen, Agrees, Handling

LEMMA EmptySound ==
    ASSUME Sound, UNCHANGED <<obj, certs>>, NEW step \in {"certs", "report", "finish"},
           NEW failed \in BOOLEAN,
           sync' = [sync EXCEPT !.at = step, !.failed = failed, !.copy = Empty]
    PROVE  SyncSound'
<1>1. sync' \in Sync /\ sync'.at = step /\ sync'.copy = Empty
      BY SoundParts, EmptyTyped DEF Sync, Steps
<1>   QED
      BY <1>1 DEF SyncSound, Held, Chosen, Agrees, Handling

LEMMA RestSound == ASSUME sync' = Rest PROVE SyncSound'
BY RestTyped DEF SyncSound, Held, Chosen, Agrees, Handling

LEMMA UpdateSound ==
    ASSUME Sound, NEW o \in Object, o.uid # 0, UpdateCopy(o, "report"), UNCHANGED certs
    PROVE  obj' \in Object /\ obj'.uid # 0 /\ queued' \in BOOLEAN /\ SyncSound'
           /\ faults' \in 0 .. MaxFaults
<1>1. CASE Store(o, "report") /\ NoFault
      BY <1>1, StoreSound DEF NoFault, Sound, TypeOK
<1>2. CASE /\ FailsIf(~(sync.fresh /\ Here))
           /\ sync' = [sync EXCEPT !.at = "report", !.failed = TRUE, !.copy = Empty]
           /\ KeepObj
  <2>1. faults' \in 0 .. MaxFaults
        BY <1>2, BoundsAssumption DEF FailsIf, Fault, NoFault, Sound, TypeOK
  <2>2. SyncSound'
        BY <1>2, EmptySound DEF KeepObj
  <2>   QED
        BY <1>2, <2>1, <2>2, SoundParts DEF KeepObj, Sound, TypeOK, Uids
<1>   QED
      BY <1>1, <1>2 DEF UpdateCopy

LEMMA FaultTyped ==
    ASSUME Sound, NEW P, FailsIf(P) \/ Fault \/ NoFault PROVE faults' \in 0 .. MaxFaults
BY BoundsAssumption DEF FailsIf, Fault, NoFault, Sound, TypeOK

LEMMA ReturnSound ==
    ASSUME Sound, UNCHANGED <<obj, certs>>, NEW failed \in BOOLEAN, Return(failed)
    PROVE  SyncSound'
<1>1. /\ sync' \in Sync /\ sync'.at = "report" /\ sync'.copy = sync.copy
      /\ sync'.fresh = sync.fresh
      BY SoundParts DEF Sync, Return, Steps
<1>   QED
      BY <1>1, SoundParts DEF SyncSound, Held, Chosen, Agrees, Handling

LEMMA WorkerSound == ASSUME Sound, Worker PROVE Sound'
<1>1. /\ obj \in Object /\ obj.uid \in Uids /\ obj.uid # 0 /\ queued \in BOOLEAN
      /\ sync \in Sync /\ sync.copy \in Object /\ certs \in CertLists
      /\ later \in BOOLEAN /\ imported \in BOOLEAN
      BY SoundParts DEF Sound, TypeOK, Numbered
<1>2. ASSUME sync' \in Sync, SyncSound', obj' \in Object, obj'.uid # 0, queued' \in BOOLEAN,
             later' \in BOOLEAN, confused' \subseteq Uids, secret' \in Secret \cup {NoSecret},
             cluster' \in {"creating", "available", "busy", "gone"}, UNCHANGED <<fixed, edits>>,
             faults' \in 0 .. MaxFaults
      PROVE  Sound'
      BY <1>2 DEF Sound, TypeOK, Numbered, SyncSound, fixed
<1>3. CASE StartSync
  <2>1. CASE ~Here
        BY <1>1, <1>2, <1>3, <2>1, SoundParts DEF StartSync, NoFault, Quiet, fixed, Sound, TypeOK, SyncSound, Held, Chosen, Agrees
  <2>2. CASE Here
    <3> DEFINE step == IF obj.state = "deleting" THEN "finish"
                       ELSE CASE obj.phase = ""          -> "create"
                              [] obj.phase = "importing" -> "show"
                              [] obj.phase = "creating"  -> "wait"
                              [] OTHER                   -> "check"
    <3>1. step \in {"finish", "create", "show", "wait", "check"}
          OBVIOUS
    <3>2. sync' = [Rest EXCEPT !.copy = obj, !.fresh = TRUE, !.same = TRUE, !.at = step]
          BY <1>3, <2>2 DEF StartSync
    <3> HIDE DEF step
    <3>3. sync' \in Sync /\ sync'.copy = obj /\ sync'.at = step
          BY <1>1, <3>1, <3>2, RestTyped DEF Sync, Steps
    <3>4. SyncSound'
          BY <1>1, <1>3, <3>1, <3>3, SoundParts
          DEF StartSync, SyncSound, Held, Chosen, Agrees, Handling
    <3>   QED
          BY <1>1, <1>2, <1>3, <3>3, <3>4 DEF StartSync, NoFault, Quiet, Sound, TypeOK
  <2>   QED
        BY <2>1, <2>2
<1>4. ASSUME Readonly, Quiet, UNCHANGED later, SyncSound', faults' \in 0 .. MaxFaults PROVE Sound'
      BY <1>1, <1>2, <1>4 DEF Readonly, Quiet, Sound, TypeOK, SyncSound
<1>5. \A P \in BOOLEAN : FailsIf(P) \/ Fault \/ NoFault => faults' \in 0 .. MaxFaults
      BY FaultTyped
<1>6. CASE Create
  <2>1. faults' \in 0 .. MaxFaults /\ UNCHANGED <<obj, certs>>
        BY <1>5, <1>6 DEF Create, RequestFails, Readonly, Quiet, fixed, FailsIf
  <2>2. CASE sync' = [sync EXCEPT !.at = "adopt", !.copy = obj, !.fresh = TRUE]
    <3>1. sync' \in Sync /\ sync'.copy = obj /\ sync'.at = "adopt"
          BY <1>1, <2>2 DEF Sync, Steps
    <3>2. SyncSound'
          BY <1>1, <2>1, <3>1, SoundParts DEF SyncSound, Held, Chosen, Agrees
    <3>   QED
          BY <1>4, <1>6, <2>1, <3>2 DEF Create
  <2>3. CASE sync' = [sync EXCEPT !.at = "report", !.failed = TRUE, !.copy = Empty]
        BY <1>4, <1>6, <2>1, <2>3, EmptySound DEF Create
  <2>4. CASE Return(TRUE)
        BY <1>4, <1>6, <2>1, <2>4, ReturnSound DEF Create
  <2>   QED
        BY <1>6, <2>2, <2>3, <2>4 DEF Create, RequestFails
<1>7. ASSUME NEW o \in Object, o.uid # 0, UpdateCopy(o, "report"),
             later' \in BOOLEAN, UNCHANGED <<secret, confused>>, Quiet
      PROVE  Sound'
  <2>1. /\ obj' \in Object /\ obj'.uid # 0 /\ queued' \in BOOLEAN /\ SyncSound'
        /\ faults' \in 0 .. MaxFaults
        BY <1>7, UpdateSound DEF Quiet, fixed
  <2>   QED
        BY <1>2, <1>7, <2>1 DEF Quiet, Sound, TypeOK, SyncSound
<1>8. CASE Adopt
  <2>1. sync.copy # Empty
        BY <1>8 DEF Adopt, At, Sound, Held, Handling
  <2>2. /\ [sync.copy EXCEPT !.phase = "importing"] \in Object
        /\ [sync.copy EXCEPT !.phase = "importing"].uid # 0
        BY <1>1, <2>1 DEF Object, Sound, Numbered
  <2>   QED
        BY <1>1, <1>7, <1>8, <2>2 DEF Adopt
<1>9. CASE ImportCluster \/ WaitForCreationComplete
  <2>1. /\ faults' \in 0 .. MaxFaults /\ UNCHANGED <<obj, certs>> /\ later' \in BOOLEAN
        /\ sync.copy # Empty
        BY <1>1, <1>5, <1>9
        DEF ImportCluster, WaitForCreationComplete, RequestFails, Readonly, Quiet, fixed, At,
            Sound, Held, Handling
  <2>2. SyncSound'
        BY <1>9, <2>1, GoSound, ReturnSound
        DEF ImportCluster, WaitForCreationComplete, RequestFails, Steps
  <2>   QED
        BY <1>1, <1>2, <1>9, <2>1, <2>2
        DEF ImportCluster, WaitForCreationComplete, Readonly, Quiet, Sound, TypeOK, SyncSound
<1>10. CASE RecordIP \/ RecordActive
  <2> DEFINE written == {[obj EXCEPT !.ip = external], [obj EXCEPT !.phase = "active"]}
  <2>1. \A o \in written : o \in Object /\ o.uid # 0
        BY <1>1 DEF Object, Sound, TypeOK
  <2> HIDE DEF written
  <2>2. faults' \in 0 .. MaxFaults /\ UNCHANGED certs /\ confused' \subseteq Uids
        BY <1>1, <1>5, <1>10
        DEF RecordIP, RecordActive, FailsIf, Quiet, fixed, Sound, TypeOK
  <2>3. CASE \E o \in written : Store(o, "certs") \/ Store(o, "report")
    <3>1. obj' \in Object /\ obj'.uid # 0 /\ queued' \in BOOLEAN /\ SyncSound'
          BY <2>1, <2>2, <2>3, StoreSound
    <3>   QED
          BY <1>2, <1>10, <2>2, <3>1 DEF RecordIP, RecordActive, Quiet, Sound, TypeOK, SyncSound
  <2>4. CASE (Emptied("certs") \/ Emptied("report")) /\ KeepObj
    <3>1. SyncSound'
          BY <2>2, <2>4, EmptySound DEF Emptied, KeepObj
    <3>   QED
          BY <1>1, <1>2, <1>10, <2>2, <2>4, <3>1
          DEF RecordIP, RecordActive, KeepObj, Quiet, Sound, TypeOK, SyncSound
  <2>   QED
        BY <1>10, <2>3, <2>4 DEF RecordIP, RecordActive, written
<1>11. CASE GetClusterCert
  <2>1. faults' \in 0 .. MaxFaults /\ UNCHANGED <<obj, certs>>
        BY <1>5, <1>11 DEF GetClusterCert, RequestFails, Readonly, Quiet, fixed
  <2> DEFINE cert == ClusterCert(certs, sync.copy.public)
  <2>2. CASE /\ sync.copy # Empty /\ cert # None
             /\ sync' = [sync EXCEPT !.at = "find", !.cert = cert]
    <3>1. cert \in CertNames \cup {None}
          BY <1>1, CertTyped DEF Object
    <3>2. /\ sync' \in Sync /\ sync'.copy = sync.copy /\ sync'.cert = cert
          /\ sync'.fresh = sync.fresh
      <4> HIDE DEF cert
      <4> QED
          BY <1>1, <2>2, <3>1 DEF Sync, Steps
    <3>3. SyncSound'
          BY <2>1, <2>2, <3>2, SoundParts DEF SyncSound, Held, Chosen, Agrees
    <3>   QED
          BY <1>4, <1>11, <2>1, <3>3 DEF GetClusterCert
  <2>3. CASE Return(TRUE) \/ Go("panic")
    <3>1. SyncSound'
          BY <2>1, <2>3, ReturnSound, GoSound DEF Handling, Steps
    <3>   QED
          BY <1>4, <1>11, <2>1, <3>1 DEF GetClusterCert
  <2>   QED
        BY <1>11, <2>2, <2>3 DEF GetClusterCert, RequestFails
<1>12. CASE FindSecret \/ MakeSecret
  <2>1. /\ faults' \in 0 .. MaxFaults /\ UNCHANGED <<obj, certs>>
        /\ sync.copy # Empty /\ sync.copy.uid \in Uids /\ Then \in {"active", "phase"}
        BY <1>1, <1>5, <1>12, SoundParts
        DEF FindSecret, MakeSecret, RequestFails, FailsIf, Quiet, fixed, At, Sound, Held, Handling, Then
  <2>2. sync.cert \in CertNames
        BY <1>1, <1>12 DEF FindSecret, MakeSecret, At, Sound, Chosen, Sync
  <2>3. secret' \in Secret \cup {NoSecret} /\ confused' \subseteq Uids
    <3>1. [owner |-> sync.copy.uid, cert |-> sync.cert] \in Secret
          BY <2>1, <2>2 DEF Secret
    <3>2. secret \in Secret \cup {NoSecret} /\ confused \subseteq Uids
          BY DEF Sound, TypeOK
    <3>3. /\ secret' = secret \/ secret' = [owner |-> sync.copy.uid, cert |-> sync.cert]
          /\ confused' \subseteq confused \cup {sync.copy.uid}
          BY <1>12 DEF FindSecret, MakeSecret
    <3>   QED
          BY <2>1, <3>1, <3>2, <3>3
  <2>4. SyncSound'
    <3>1. CASE Go(Then) \/ Return(TRUE)
          BY <2>1, <3>1, GoSound, ReturnSound DEF Steps
    <3>2. CASE At("find") /\ Go("make")
      <4>1. /\ sync' \in Sync /\ sync'.copy = sync.copy /\ sync'.cert = sync.cert
            /\ sync'.fresh = sync.fresh
            BY <1>1, <3>2 DEF Go, Sync, Steps
      <4>   QED
            BY <2>1, <3>2, <4>1, SoundParts DEF SyncSound, Held, Chosen, Agrees, At
    <3>   QED
          BY <1>12, <3>1, <3>2 DEF FindSecret, MakeSecret, RequestFails
  <2>   QED
        BY <1>1, <1>2, <1>12, <2>1, <2>3, <2>4
        DEF FindSecret, MakeSecret, Quiet, Sound, TypeOK, SyncSound
<1>13. CASE CreationComplete
  <2>1. sync.copy # Empty
        BY <1>13 DEF CreationComplete, At, Sound, Held, Handling
  <2>2. /\ [sync.copy EXCEPT !.phase = "updating"] \in Object
        /\ [sync.copy EXCEPT !.phase = "updating"].uid # 0
        BY <1>1, <2>1 DEF Object, Sound, Numbered
  <2>   QED
        BY <1>1, <1>7, <1>13, <2>2 DEF CreationComplete
<1>14. CASE CheckAndUpdate
  <2>1. sync.copy # Empty
        BY <1>14 DEF CheckAndUpdate, At, Sound, Held, Handling
  <2>2. \A phase \in {"active", "updating"} :
            /\ [sync.copy EXCEPT !.phase = phase] \in Object
            /\ [sync.copy EXCEPT !.phase = phase].uid # 0
        BY <1>1, <2>1 DEF Object, Sound, Numbered
  <2>3. later' \in BOOLEAN
    <3>1. (later \/ ~sync'.failed) \in BOOLEAN
          OBVIOUS
    <3>   QED
          BY <1>1, <1>14, <3>1 DEF CheckAndUpdate
  <2>4. CASE \E phase \in {"active", "updating"} :
                 UpdateCopy([sync.copy EXCEPT !.phase = phase], "report")
        BY <1>7, <1>14, <2>2, <2>3, <2>4 DEF CheckAndUpdate
  <2>5. CASE KeepObj /\ (Return(FALSE) \/ Return(TRUE)) /\ (Fault \/ NoFault)
    <3>1. SyncSound'
          BY <1>14, <2>5, ReturnSound DEF CheckAndUpdate, KeepObj, Quiet, fixed
    <3>2. faults' \in 0 .. MaxFaults
          BY <1>5, <2>5
    <3>   QED
          BY <1>1, <1>2, <1>14, <2>3, <2>5, <3>1, <3>2
          DEF CheckAndUpdate, KeepObj, Quiet, Sound, TypeOK, SyncSound
  <2>   QED
        BY <1>14, <2>4, <2>5 DEF CheckAndUpdate, RequestFails
<1>15. CASE RecordError
  <2>1. faults' \in 0 .. MaxFaults /\ UNCHANGED certs
        BY <1>5, <1>15 DEF RecordError, FailsIf, Quiet, fixed
  <2> DEFINE c == sync.copy
             o == [c EXCEPT !.failure = sync.failed,
                            !.phase = IF sync.failed /\ @ = "active" THEN "updating" ELSE @]
  <2>2. CASE Go("finish") /\ KeepObj
    <3>1. SyncSound'
          BY <2>1, <2>2, GoSound DEF KeepObj, Steps, Handling
    <3>   QED
          BY <1>1, <1>2, <1>15, <2>1, <2>2, <3>1
          DEF RecordError, KeepObj, Quiet, Sound, TypeOK, SyncSound
  <2>3. CASE c # Empty /\ Store(o, "finish")
    <3>1. o \in Object /\ o.uid = c.uid
          BY <1>1 DEF Object, Sync
    <3>2. obj' \in Object /\ obj'.uid # 0 /\ queued' \in BOOLEAN /\ SyncSound'
      <4> HIDE DEF o
      <4> QED
          BY <2>1, <2>3, <3>1, StoreSound, SoundParts DEF Sound, Numbered
    <3>   QED
          BY <1>1, <1>2, <1>15, <2>1, <3>2 DEF RecordError, Quiet, Sound, TypeOK, SyncSound
  <2>4. CASE sync' = [sync EXCEPT !.at = "finish", !.copy = Empty] /\ KeepObj
    <3>1. sync' = [sync EXCEPT !.at = "finish", !.failed = sync.failed, !.copy = Empty]
          BY <1>1, <2>4 DEF Sync
    <3>2. SyncSound'
          BY <2>1, <2>4, <3>1, EmptySound, SoundParts DEF KeepObj
    <3>   QED
          BY <1>1, <1>2, <1>15, <2>1, <2>4, <3>2
          DEF RecordError, KeepObj, Quiet, Sound, TypeOK, SyncSound
  <2>   QED
        BY <1>15, <2>2, <2>3, <2>4 DEF RecordError
<1>16. CASE FinishSync
  <2>1. /\ SyncSound' /\ faults' \in 0 .. MaxFaults
        BY <1>5, <1>16, RestSound DEF FinishSync, FailsIf
  <2>2. obj' \in Object /\ obj'.uid # 0
        BY <1>1, <1>16 DEF FinishSync, Object
  <2>3. queued' \in BOOLEAN
        BY <1>1, <1>16 DEF FinishSync, Object, Sync
  <2>4. cluster' \in {"creating", "available", "busy", "gone"}
        BY <1>16 DEF FinishSync, Sound, TypeOK
  <2>   QED
        BY <1>1, <1>2, <1>16, <2>1, <2>2, <2>3, <2>4 DEF FinishSync, Sound, TypeOK, SyncSound
<1>17. CASE Panic
  <2>1. SyncSound' /\ (Here \in BOOLEAN)
        BY <1>17, RestSound DEF Panic, Die, Here
  <2>   QED
        BY <1>1, <1>2, <1>17, <2>1 DEF Panic, Die, NoFault, Quiet, Sound, TypeOK, SyncSound
<1>   QED
      BY <1>3, <1>6, <1>8, <1>9, <1>10, <1>11, <1>12, <1>13, <1>14, <1>15, <1>16, <1>17 DEF Worker

(* A crash, a delay that is over, Kubernetes, the cloud and the users. *)
OthersStep == \/ Wake \/ Crash \/ CollectSecret \/ ClusterReady \/ ClusterChanges
              \/ UserEdits \/ UserDeletes \/ UserCreatesAgain

LEMMA TouchSound ==
    ASSUME Sound, NEW o \in Object, o.uid # 0, Touch(o)
    PROVE  obj' = o /\ queued' \in BOOLEAN /\ SyncSound'
<1>1. /\ sync' \in Sync /\ sync'.copy = sync.copy /\ sync'.fresh = FALSE
      /\ sync'.at = sync.at /\ sync'.cert = sync.cert
      BY SoundParts DEF Touch, Sync
<1>   QED
      BY <1>1, SoundParts DEF Touch, fixed, SyncSound, Held, Chosen, Agrees

LEMMA OthersSound == ASSUME Sound, OthersStep PROVE Sound'
<1>1. obj \in Object /\ obj.uid \in Uids /\ obj.uid # 0 /\ imported \in BOOLEAN
      BY SoundParts DEF Sound, TypeOK, Numbered
<1>2. CASE Wake \/ CollectSecret \/ ClusterReady \/ ClusterChanges
  <2>1. UNCHANGED <<obj, sync, fixed, confused>> /\ faults' = faults
        BY <1>2 DEF Wake, CollectSecret, ClusterReady, ClusterChanges, NoFault, Quiet
  <2>2. /\ queued' \in BOOLEAN /\ later' \in BOOLEAN /\ secret' \in Secret \cup {NoSecret}
        /\ cluster' \in {"creating", "available", "busy", "gone"}
        BY <1>2 DEF Wake, CollectSecret, ClusterReady, ClusterChanges, Quiet, Sound, TypeOK
  <2>3. edits' \in 0 .. MaxEdits
        BY <1>2, BoundsAssumption
        DEF Wake, CollectSecret, ClusterReady, ClusterChanges, Quiet, Sound, TypeOK
  <2>   QED
        BY <2>1, <2>2, <2>3 DEF fixed, Sound, TypeOK, Numbered, Held, Chosen, Agrees
<1>3. CASE Crash
  <2>1. SyncSound' /\ queued' \in BOOLEAN /\ later' \in BOOLEAN
        BY <1>3, RestSound DEF Crash, Die, Here
  <2>2. faults' \in 0 .. MaxFaults
        BY <1>3, BoundsAssumption DEF Crash, Fault, Sound, TypeOK
  <2>   QED
        BY <1>1, <1>3, <2>1, <2>2 DEF Crash, Die, Quiet, fixed, Sound, TypeOK, Numbered, SyncSound
<1>4. CASE UserEdits \/ UserDeletes \/ UserCreatesAgain
  <2>1. PICK o \in Object : o.uid # 0 /\ Touch(o)
    <3>1. CASE UserEdits \/ UserDeletes
      <4>1. /\ [obj EXCEPT !.public = ~obj.public] \in Object
            /\ \A state \in {"deleting", "none"} : [obj EXCEPT !.state = state] \in Object
            BY <1>1 DEF Object
      <4>2. \/ Touch([obj EXCEPT !.public = ~obj.public])
            \/ \E state \in {"deleting", "none"} : Touch([obj EXCEPT !.state = state])
            BY <3>1 DEF UserEdits, UserDeletes
      <4>   QED
            BY <1>1, <4>1, <4>2 DEF Object
    <3>2. CASE UserCreatesAgain
      <4>1. obj.uid + 1 \in Uids /\ obj.uid + 1 # 0
        <5>1. obj.uid < MaxObjects /\ obj.uid \in 1 .. MaxObjects
              BY <1>1, <3>2 DEF UserCreatesAgain, Uids
        <5>   QED
              BY <5>1, BoundsAssumption DEF Uids
      <4>2. obj.public \in BOOLEAN
            BY <1>1 DEF Object
      <4>   QED
            BY <1>1, <3>2, <4>1, <4>2, NewTyped DEF UserCreatesAgain
    <3>   QED
          BY <1>4, <3>1, <3>2
  <2>2. /\ edits' \in 0 .. MaxEdits
        BY <1>4, BoundsAssumption DEF UserEdits, UserDeletes, UserCreatesAgain, Sound, TypeOK
  <2>3. cluster' \in {"creating", "available", "busy", "gone"}
        BY <1>4 DEF UserEdits, UserDeletes, UserCreatesAgain, Sound, TypeOK
  <2>4. obj' = o /\ queued' \in BOOLEAN /\ SyncSound'
        BY <2>1, TouchSound
  <2>   QED
        BY <2>1, <2>2, <2>3, <2>4 DEF Touch, fixed, Sound, TypeOK, Numbered, SyncSound
<1>   QED
      BY <1>2, <1>3, <1>4 DEF OthersStep

LEMMA InitSound == ASSUME Init PROVE Sound
<1>1. PICK public \in BOOLEAN : obj = New(1, public)
      BY DEF Init
<1>2. 1 \in Uids
      BY BoundsAssumption DEF Uids
<1>3. obj \in Object /\ obj.uid = 1
      BY <1>1, <1>2, NewTyped DEF Init
<1>4. faults \in 0 .. MaxFaults /\ edits \in 0 .. MaxEdits
      BY BoundsAssumption DEF Init
<1>5. cluster \in {"creating", "available", "busy", "gone"}
      BY DEF Init
<1>6. TypeOK
      BY <1>3, <1>4, <1>5, RestTyped DEF Init, TypeOK
<1>   QED
      BY <1>3, <1>6, RestTyped DEF Init, Sound, Numbered, Held, Chosen, Agrees, Handling

LEMMA NextSound == ASSUME Sound, [Next]_vars PROVE Sound'
<1>1. CASE UNCHANGED vars
      BY <1>1 DEF vars, Sound, TypeOK, Numbered, Held, Chosen, Agrees
<1>   QED
      BY <1>1, WorkerSound, OthersSound DEF Next, OthersStep

LEMMA AlwaysSound == Spec => []Sound
<1>1. Init => Sound
      BY InitSound
<1>2. Sound /\ [Next]_vars => Sound'
      BY NextSound
<1>   QED
      BY <1>1, <1>2, PTL DEF Spec

(* Every variable keeps its type. *)
THEOREM TypeCorrect == Spec => []TypeOK
<1>1. Sound => TypeOK
      BY DEF Sound
<1>   QED
      BY <1>1, AlwaysSound, PTL

-----------------------------------------------------------------------------
(* Which certificate.                                                      *)

(* The Secret is made with the address that the configuration asks for, as *)
(* it was when the certificate was chosen, but for lists that end in a     *)
(* certificate of another kind.                                            *)
THEOREM AddressRight == Spec => RightAddress
<1>1. ASSUME Sound, [Next]_vars, secret = NoSecret, secret' # NoSecret
      PROVE  \/ secret'.cert = Meant(certs, sync.copy.public)
             \/ /\ Last(certs) # "internalCluster"
                /\ ~(sync.copy.public /\ Listed("externalClusterTLSVerify", certs))
  <2>1. MakeSecret
    <3>1. secret' # secret
          BY <1>1
    <3>   QED
          BY <1>1, <3>1
          DEF Next, Worker, StartSync, Create, Adopt, ImportCluster, RecordIP, GetClusterCert,
              FindSecret, RecordActive, WaitForCreationComplete, CreationComplete,
              CheckAndUpdate, RecordError, FinishSync, Panic, Crash, Die, Wake, CollectSecret,
              ClusterReady, ClusterChanges, UserEdits, UserDeletes, UserCreatesAgain, Touch,
              Readonly, vars
  <2>2. secret'.cert = sync.cert
        BY <1>1, <2>1 DEF MakeSecret
  <2>3. /\ sync.cert = ClusterCert(certs, sync.copy.public)
        /\ sync.cert # None
        BY <1>1, <2>1 DEF MakeSecret, At, Sound, Chosen
  <2>   QED
        BY <2>2, <2>3 DEF ClusterCert, Meant
<1>2. Sound /\ [Next]_vars =>
          [secret = NoSecret /\ secret' # NoSecret =>
             \/ secret'.cert = Meant(certs, sync.copy.public)
             \/ /\ Last(certs) # "internalCluster"
                /\ ~(sync.copy.public /\ Listed("externalClusterTLSVerify", certs))]_vars
      BY <1>1
<1>   QED
      BY <1>2, AlwaysSound, PTL DEF Spec, RightAddress

-----------------------------------------------------------------------------
(* The Secret is there.                                                    *)

(* The object has its Secret, or was taken for another one of its name. *)
Mine == secret.owner = obj.uid \/ obj.uid \in confused

(* The write of the phase that follows the Secret is for the same object. *)
Secured == sync.at \in {"active", "phase"} /\ Here /\ sync.copy.uid = obj.uid => Mine

Older == sync.copy.uid <= obj.uid

ReadyInv == AccessReady /\ Secured /\ Older

(* Objects are numbered in their order, and a copy is never of a later one. *)
LEMMA UidsKept ==
    ASSUME Sound, [Next]_vars
    PROVE  /\ \/ obj'.uid = obj.uid
              \/ /\ ~Here /\ obj'.uid = obj.uid + 1 /\ obj'.phase \in {"", "creating"}
                 /\ sync'.at = sync.at /\ sync'.copy = sync.copy
           /\ sync'.copy.uid \in {0, obj.uid, sync.copy.uid}
<1>1. obj \in Object /\ sync \in Sync /\ sync.copy \in Object /\ Empty.uid = 0 /\ Rest.copy = Empty
      BY SoundParts, EmptyTyped, RestTyped
<1>2. sync.fresh /\ sync.copy # Empty => sync.copy = obj
      BY DEF Sound, Agrees
<1>3. CASE UNCHANGED <<obj, sync>>
      BY <1>3
<1>4. ASSUME NEW o, NEW step, Store(o, step), o.uid = obj.uid
      PROVE  obj'.uid = obj.uid /\ sync'.copy.uid = obj.uid
      BY <1>1, <1>4 DEF Store, Sync
<1>5. ASSUME NEW o, UpdateCopy(o, "report"), o.uid = sync.copy.uid, sync.copy # Empty
      PROVE  obj'.uid = obj.uid /\ sync'.copy.uid \in {0, obj.uid, sync.copy.uid}
      BY <1>1, <1>2, <1>4, <1>5 DEF UpdateCopy, KeepObj, Sync
<1>6. ASSUME NEW step, Go(step) \/ (\E b \in BOOLEAN : Return(b)), obj' = obj
      PROVE  obj'.uid = obj.uid /\ sync'.copy.uid = sync.copy.uid
      BY <1>1, <1>6 DEF Go, Return, Sync
<1>7. CASE StartSync
      BY <1>1, <1>7 DEF StartSync, Rest
<1>8. CASE Create
      BY <1>1, <1>8 DEF Create, Return, RequestFails, Readonly, Sync
<1>9. CASE Adopt \/ CreationComplete \/ CheckAndUpdate
  <2>1. sync.copy # Empty
        BY <1>9 DEF Adopt, CreationComplete, CheckAndUpdate, At, Sound, Held, Handling
  <2>2. CASE \E phase : UpdateCopy([sync.copy EXCEPT !.phase = phase], "report")
    <3>1. PICK phase : UpdateCopy([sync.copy EXCEPT !.phase = phase], "report")
          BY <2>2
    <3>2. [sync.copy EXCEPT !.phase = phase].uid = sync.copy.uid
          BY <1>1 DEF Object
    <3>   QED
          BY <1>5, <2>1, <3>1, <3>2
  <2>3. CASE KeepObj /\ \E b \in BOOLEAN : Return(b)
        BY <1>6, <2>3 DEF KeepObj
  <2>   QED
        BY <1>9, <2>2, <2>3 DEF Adopt, CreationComplete, CheckAndUpdate, RequestFails
<1>10. CASE ImportCluster \/ FindSecret \/ MakeSecret \/ WaitForCreationComplete
      BY <1>6, <1>10
      DEF ImportCluster, FindSecret, MakeSecret, WaitForCreationComplete, RequestFails, Readonly
<1>11. CASE GetClusterCert
      BY <1>1, <1>11 DEF GetClusterCert, Go, Return, RequestFails, Readonly, Sync
<1>12. CASE RecordIP \/ RecordActive
  <2>1. /\ [obj EXCEPT !.ip = external].uid = obj.uid
        /\ [obj EXCEPT !.phase = "active"].uid = obj.uid
        BY <1>1 DEF Object
  <2>2. CASE \E step : Emptied(step) /\ KeepObj
        BY <1>1, <2>2 DEF Emptied, KeepObj, Sync
  <2>   QED
        BY <1>4, <1>12, <2>1, <2>2 DEF RecordIP, RecordActive
<1>13. CASE RecordError
  <2> DEFINE o == [sync.copy EXCEPT !.failure = sync.failed,
                         !.phase = IF sync.failed /\ @ = "active" THEN "updating" ELSE @]
  <2>1. o.uid = sync.copy.uid
        BY <1>1 DEF Object
  <2> HIDE DEF o
  <2>2. CASE sync.copy # Empty /\ sync.fresh /\ Store(o, "finish")
        BY <1>2, <1>4, <2>1, <2>2
  <2>3. CASE KeepObj /\ (Go("finish") \/ sync' = [sync EXCEPT !.at = "finish", !.copy = Empty])
        BY <1>1, <2>3 DEF KeepObj, Go, Sync
  <2>   QED
        BY <1>13, <2>2, <2>3 DEF RecordError, o
<1>14. CASE FinishSync \/ Panic \/ Crash
      BY <1>1, <1>14 DEF FinishSync, Panic, Crash, Die, Object
<1>15. CASE UserEdits \/ UserDeletes
      BY <1>1, <1>15 DEF UserEdits, UserDeletes, Touch, Object, Sync
<1>16. CASE UserCreatesAgain
  <2>1. obj' = New(obj.uid + 1, obj.public) /\ ~Here
        BY <1>16 DEF UserCreatesAgain, Touch
  <2>2. obj'.uid = obj.uid + 1 /\ obj'.phase \in {"", "creating"}
        BY <2>1 DEF New, Empty
  <2>3. sync'.at = sync.at /\ sync'.copy = sync.copy
        BY <1>1, <1>16 DEF UserCreatesAgain, Touch, Sync
  <2>   QED
        BY <2>1, <2>2, <2>3
<1>17. CASE Wake \/ CollectSecret \/ ClusterReady \/ ClusterChanges \/ UNCHANGED vars
      BY <1>3, <1>17 DEF Wake, CollectSecret, ClusterReady, ClusterChanges, vars
<1>   QED
      BY <1>7, <1>8, <1>9, <1>10, <1>11, <1>12, <1>13, <1>14, <1>15, <1>16, <1>17 DEF Next, Worker

LEMMA OlderKept == ASSUME Sound, Older, [Next]_vars PROVE Older'
<1>1. obj.uid \in Nat /\ sync.copy.uid \in Nat
  <2>1. obj.uid \in 0 .. MaxObjects /\ sync.copy.uid \in 0 .. MaxObjects
        BY SoundParts DEF Object
  <2>   QED
        BY <2>1, BoundsAssumption
<1>2. CASE obj'.uid = obj.uid /\ sync'.copy.uid \in {0, obj.uid, sync.copy.uid}
      BY <1>1, <1>2 DEF Older
<1>3. CASE obj'.uid = obj.uid + 1 /\ sync'.copy = sync.copy
      BY <1>1, <1>3 DEF Older
<1>   QED
      BY <1>2, <1>3, UidsKept

(* No step takes an object's Secret away while the object is there. *)
LEMMA MineKept == ASSUME Sound, [Next]_vars, Here, Mine PROVE Mine'
<1>1. obj.uid # 0 /\ NoSecret.owner = 0
      BY DEF NoSecret, Sound, Numbered
<1>2. obj'.uid = obj.uid
      BY UidsKept
<1>3. confused \subseteq confused'
      BY DEF Next, Worker, StartSync, Create, Adopt, ImportCluster, RecordIP, GetClusterCert,
             FindSecret, MakeSecret, RecordActive, WaitForCreationComplete, CreationComplete,
             CheckAndUpdate, RecordError, FinishSync, Panic, Crash, Die, Wake, CollectSecret,
             ClusterReady, ClusterChanges, UserEdits, UserDeletes, UserCreatesAgain, Touch,
             Readonly, vars
<1>4. secret' = secret \/ secret = NoSecret \/ secret.owner # obj.uid
      BY DEF Next, Worker, StartSync, Create, Adopt, ImportCluster, RecordIP, GetClusterCert,
             FindSecret, MakeSecret, RecordActive, WaitForCreationComplete, CreationComplete,
             CheckAndUpdate, RecordError, FinishSync, Panic, Crash, Die, Wake, CollectSecret,
             ClusterReady, ClusterChanges, UserEdits, UserDeletes, UserCreatesAgain, Touch,
             Readonly, vars
<1>   QED
      BY <1>1, <1>2, <1>3, <1>4 DEF Mine

LEMMA SecuredKept ==
    ASSUME Sound, ReadyInv, [Next]_vars PROVE Secured'
<1>1. /\ obj \in Object /\ sync \in Sync /\ sync.copy \in Object
      /\ sync.copy # Empty => sync.copy.uid \in Uids
      BY SoundParts
<1>2. SUFFICES ASSUME sync'.at \in {"active", "phase"}, Here', sync'.copy.uid = obj'.uid
               PROVE  Mine'
      BY DEF Secured
<1>3. CASE FindSecret
  <2>1. /\ sync'.copy = sync.copy /\ obj' = obj /\ secret' = secret
        /\ confused' = confused \cup ({sync.copy.uid} \ {secret.owner})
    <3>1. sync'.at # "make"
          BY <1>2
    <3>   QED
          BY <1>1, <1>3, <3>1 DEF FindSecret, Go, Sync
  <2>   QED
        BY <1>2, <2>1 DEF Mine
<1>4. CASE MakeSecret
  <2>1. sync'.copy = sync.copy /\ obj' = obj /\ secret'.owner = sync.copy.uid
    <3>1. ~Return(TRUE)
          BY <1>1, <1>2 DEF Return, Sync
    <3>2. Go(Then) /\ obj' = obj /\ secret' = [owner |-> sync.copy.uid, cert |-> sync.cert]
          BY <1>4, <3>1 DEF MakeSecret, RequestFails
    <3>   QED
          BY <1>1, <3>2 DEF Go, Sync
  <2>   QED
        BY <1>2, <2>1 DEF Mine
<1>5. CASE ~(FindSecret \/ MakeSecret)
  <2>1. sync'.at = sync.at /\ sync'.copy = sync.copy
    <3>1. CASE \E step \in Steps \ {"active", "phase"} : sync'.at = step
          BY <1>2, <3>1
    <3>2. CASE StartSync \/ FinishSync \/ Panic \/ Crash
      <4>1. Rest.at = "idle"
            BY DEF Rest
      <4>2. CASE sync' = sync
            BY <4>2
      <4>3. CASE sync' = Rest
            BY <1>2, <4>1, <4>3
      <4>4. CASE StartSync /\ Here
        <5> DEFINE step == IF obj.state = "deleting" THEN "finish"
                           ELSE CASE obj.phase = ""          -> "create"
                                  [] obj.phase = "importing" -> "show"
                                  [] obj.phase = "creating"  -> "wait"
                                  [] OTHER                   -> "check"
        <5>1. step \in {"finish", "create", "show", "wait", "check"}
              OBVIOUS
        <5> HIDE DEF step
        <5>2. sync'.at = step
              BY <4>4 DEF StartSync, Rest, step
        <5>   QED
              BY <1>2, <5>1, <5>2
      <4>   QED
            BY <3>2, <4>2, <4>3, <4>4 DEF StartSync, FinishSync, Panic, Crash, Die
    <3>3. CASE Create \/ Adopt \/ ImportCluster \/ RecordIP \/ GetClusterCert \/ RecordActive
      <4>1. sync'.at \in {"adopt", "report", "ip", "certs", "panic", "find"}
            BY <1>1, <3>3
            DEF Create, Adopt, ImportCluster, RecordIP, GetClusterCert, RecordActive, RequestFails,
                UpdateCopy, Store, Emptied, Go, Return, Sync
      <4>   QED
            BY <1>2, <4>1
    <3>4. CASE WaitForCreationComplete \/ CreationComplete \/ CheckAndUpdate \/ RecordError
      <4>1. sync'.at \in {"certs", "report", "finish"}
            BY <1>1, <3>4
            DEF WaitForCreationComplete, CreationComplete, CheckAndUpdate, RecordError,
                RequestFails, UpdateCopy, Store, Go, Return, Sync
      <4>   QED
            BY <1>2, <4>1
    <3>5. CASE \/ Wake \/ CollectSecret \/ ClusterReady \/ ClusterChanges \/ UNCHANGED vars
               \/ UserEdits \/ UserDeletes \/ UserCreatesAgain
          BY <1>1, <3>5
          DEF Wake, CollectSecret, ClusterReady, ClusterChanges, vars, UserEdits, UserDeletes,
              UserCreatesAgain, Touch, Sync
    <3>   QED
          BY <1>5, <3>2, <3>3, <3>4, <3>5 DEF Next, Worker
  <2>2. obj'.uid = obj.uid
    <3>1. obj.uid \in Nat /\ sync.copy.uid \in Nat
      <4>1. obj.uid \in 0 .. MaxObjects /\ sync.copy.uid \in 0 .. MaxObjects
            BY <1>1 DEF Object
      <4>   QED
            BY <4>1, BoundsAssumption
    <3>2. obj'.uid # obj.uid + 1
          BY <1>2, <2>1, <3>1 DEF ReadyInv, Older
    <3>   QED
          BY <3>2, UidsKept
  <2>3. Here
    <3>1. CASE UserCreatesAgain
      <4>1. obj'.uid = obj.uid + 1
            BY <3>1 DEF UserCreatesAgain, Touch, New, Empty
      <4>2. obj.uid \in 0 .. MaxObjects
            BY <1>1 DEF Object
      <4>   QED
            BY <2>2, <4>1, <4>2, BoundsAssumption
    <3>2. CASE UNCHANGED obj
          BY <1>2, <3>2 DEF Here
    <3>   QED
          BY <1>2, <3>1, <3>2
          DEF Next, Worker, StartSync, Create, Adopt, ImportCluster, RecordIP, GetClusterCert,
              FindSecret, MakeSecret, RecordActive, WaitForCreationComplete, CreationComplete,
              CheckAndUpdate, RecordError, FinishSync, Panic, Crash, Die, Wake, CollectSecret,
              ClusterReady, ClusterChanges, UserEdits, UserDeletes, Here, Readonly, KeepObj,
              UpdateCopy, vars
  <2>   QED
        BY <1>2, <2>1, <2>2, <2>3, MineKept DEF ReadyInv, Secured
<1>   QED
      BY <1>3, <1>4, <1>5

LEMMA UseKept ==
    ASSUME Sound, ReadyInv, [Next]_vars PROVE AccessReady'
<1>1. /\ obj \in Object /\ sync \in Sync /\ sync.copy \in Object
      BY SoundParts
<1>2. sync.fresh /\ sync.copy # Empty => sync.copy = obj
      BY DEF Sound, Agrees
<1>3. SUFFICES ASSUME InUse' PROVE Mine'
      BY DEF AccessReady, Mine
<1>4. CASE InUse
      BY <1>4, MineKept DEF ReadyInv, AccessReady, Mine, InUse
<1>5. ASSUME obj'.phase = obj.phase, obj'.state # "none" => obj.state # "none" PROVE Mine'
      BY <1>3, <1>4, <1>5 DEF InUse, Here
<1>6. CASE RecordActive
  <2>1. CASE KeepObj
        BY <1>5, <2>1 DEF KeepObj
  <2>2. CASE /\ Here /\ Store([obj EXCEPT !.phase = "active"], "report")
             /\ confused' = confused \cup ({obj.uid} \ {sync.copy.uid})
    <3>1. obj'.uid = obj.uid
          BY <1>1, <2>2 DEF Store, Object
    <3>2. CASE sync.copy.uid = obj.uid
          BY <1>6, <2>2, <3>2, MineKept DEF RecordActive, At, ReadyInv, Secured
    <3>   QED
          BY <2>2, <3>1, <3>2 DEF Mine
  <2>   QED
        BY <1>6, <2>1, <2>2 DEF RecordActive
<1>7. CASE Adopt \/ CreationComplete \/ CheckAndUpdate
  <2>1. sync.copy # Empty
        BY <1>7 DEF Adopt, CreationComplete, CheckAndUpdate, At, Sound, Held, Handling
  <2>2. CASE KeepObj
        BY <1>5, <2>2 DEF KeepObj
  <2>3. CASE Adopt /\ Store([sync.copy EXCEPT !.phase = "importing"], "report")
    <3>1. obj'.phase = "importing"
          BY <1>1, <2>3 DEF Store, Object
    <3>   QED
          BY <1>3, <3>1 DEF InUse
  <2>4. CASE CreationComplete /\ sync.fresh /\ Here
        BY <1>2, <2>1, <2>4, MineKept DEF CreationComplete, At, ReadyInv, Secured
  <2>5. CASE /\ sync.fresh /\ Here /\ sync.copy.phase \in {"active", "updating"}
        BY <1>2, <1>4, <2>1, <2>5 DEF InUse
  <2>   QED
        BY <1>7, <2>2, <2>3, <2>4, <2>5 DEF Adopt, CreationComplete, CheckAndUpdate, UpdateCopy
<1>8. CASE RecordError
  <2>1. CASE KeepObj
        BY <1>5, <2>1 DEF KeepObj
  <2> DEFINE o == [sync.copy EXCEPT !.failure = sync.failed,
                         !.phase = IF sync.failed /\ @ = "active" THEN "updating" ELSE @]
  <2>2. CASE sync.copy # Empty /\ sync.fresh /\ Here /\ Store(o, "finish")
    <3>1. o.phase \in {"active", "updating"} => sync.copy.phase \in {"active", "updating"}
          BY <1>1 DEF Object
    <3>2. obj' = o /\ sync.copy = obj
          BY <1>2, <2>2 DEF Store
    <3> HIDE DEF o
    <3>   QED
          BY <1>3, <1>4, <2>2, <3>1, <3>2 DEF InUse
  <2>   QED
        BY <1>8, <2>1, <2>2 DEF RecordError
<1>9. CASE RecordIP
  <2>1. CASE KeepObj
        BY <1>5, <2>1 DEF KeepObj
  <2>2. CASE Store([obj EXCEPT !.ip = external], "certs")
        BY <1>1, <1>5, <2>2 DEF Store, Object
  <2>   QED
        BY <1>9, <2>1, <2>2 DEF RecordIP
<1>10. CASE FinishSync \/ UserEdits \/ UserDeletes
      BY <1>1, <1>5, <1>10 DEF FinishSync, UserEdits, UserDeletes, Touch, Object
<1>11. CASE UserCreatesAgain
  <2>1. obj'.phase \in {"", "creating"}
        BY <1>11 DEF UserCreatesAgain, Touch, New, Empty
  <2>   QED
        BY <1>3, <2>1 DEF InUse
<1>12. CASE UNCHANGED obj
      BY <1>5, <1>12
<1>   QED
      BY <1>6, <1>7, <1>8, <1>9, <1>10, <1>11, <1>12
      DEF Next, Worker, StartSync, Create, ImportCluster, GetClusterCert, FindSecret, MakeSecret,
          WaitForCreationComplete, Panic, Crash, Die, Wake, CollectSecret, ClusterReady,
          ClusterChanges, Readonly, KeepObj, vars

LEMMA InitReady == ASSUME Init PROVE ReadyInv
<1>1. sync.at = "idle" /\ sync.copy.uid = 0
      BY EmptyTyped, RestTyped DEF Init
<1>2. obj.phase \in {"", "creating"} /\ obj.uid = 1
      BY DEF Init, New, Empty
<1>3. ~InUse
      BY <1>2 DEF InUse
<1>4. Older
  <2>1. 0 <= 1
        OBVIOUS
  <2>   QED
        BY <1>1, <1>2, <2>1, Zenon DEF Older
<1>   QED
      BY <1>1, <1>3, <1>4 DEF ReadyInv, AccessReady, Secured

(* A configuration in use has its own Secret, whatever failed, crashed or   *)
(* was repeated on the way, unless it was taken for an earlier one.         *)
THEOREM SecretReady == Spec => []AccessReady
<1>1. Init => ReadyInv
      BY InitReady
<1>2. Sound /\ ReadyInv /\ [Next]_vars => ReadyInv'
      BY SecuredKept, UseKept, OlderKept DEF ReadyInv
<1>3. ReadyInv => AccessReady
      BY DEF ReadyInv
<1>   QED
      BY <1>1, <1>2, <1>3, AlwaysSound, PTL DEF Spec

-----------------------------------------------------------------------------
(* The operator stays up.                                                  *)

Calm == faults = 0 /\ edits = 0

(* While nothing fails and nothing is edited, an object has its finalizer   *)
(* from the end of the sync that brought it to its phase on, so it stays    *)
(* there while it is imported.                                              *)
Anchored ==
    /\ obj.state = "deleting" => obj.finalizer
    /\ Calm =>
         /\ Here /\ obj.phase # "" /\ ~obj.finalizer =>
                sync.at \in {"report", "finish"} /\ sync.fresh /\ sync.copy # Empty
         /\ sync.at \in {"show", "ip"} => Here /\ obj.finalizer
         /\ At("certs") => sync.copy # Empty
         /\ ~At("panic")

LEMMA CalmBefore == ASSUME Sound, [Next]_vars, Calm' PROVE Calm /\ ~Fault
<1>1. faults \in Nat /\ edits \in Nat
      BY BoundsAssumption DEF Sound, TypeOK
<1>2. ~Fault
      BY <1>1 DEF Fault, Calm
<1>3. /\ faults' = faults \/ faults' = faults + 1
      /\ edits' = edits \/ edits' = edits + 1
      BY DEF Next, Worker, StartSync, Create, Adopt, ImportCluster, RecordIP, GetClusterCert,
             FindSecret, MakeSecret, RecordActive, WaitForCreationComplete, CreationComplete,
             CheckAndUpdate, RecordError, FinishSync, Panic, Crash, Die, Wake, CollectSecret,
             ClusterReady, ClusterChanges, UserEdits, UserDeletes, UserCreatesAgain, Touch,
             UpdateCopy, RequestFails, FailsIf, Fault, NoFault, Quiet, vars
<1>   QED
      BY <1>1, <1>2, <1>3 DEF Calm

LEMMA DeletingKept ==
    ASSUME Sound, Anchored, [Next]_vars PROVE obj'.state = "deleting" => obj'.finalizer
<1>1. obj \in Object /\ sync \in Sync /\ sync.copy \in Object
      BY SoundParts
<1>2. sync.fresh /\ sync.copy # Empty => sync.copy = obj
      BY DEF Sound, Agrees
<1>3. CASE /\ obj'.state = obj.state /\ obj'.finalizer = obj.finalizer
      BY <1>3 DEF Anchored
<1>4. CASE Adopt \/ CreationComplete \/ CheckAndUpdate
  <2>1. sync.copy # Empty
        BY <1>4 DEF Adopt, CreationComplete, CheckAndUpdate, At, Sound, Held, Handling
  <2>2. \A phase : /\ [sync.copy EXCEPT !.phase = phase].state = sync.copy.state
                   /\ [sync.copy EXCEPT !.phase = phase].finalizer = sync.copy.finalizer
        BY <1>1 DEF Object
  <2>3. obj' = obj \/ /\ sync.fresh
                      /\ \E phase : obj' = [sync.copy EXCEPT !.phase = phase]
        BY <1>4 DEF Adopt, CreationComplete, CheckAndUpdate, UpdateCopy, Store, KeepObj
  <2>   QED
        BY <1>2, <1>3, <2>1, <2>2, <2>3
<1>5. CASE RecordError
  <2> DEFINE o == [sync.copy EXCEPT !.failure = sync.failed,
                         !.phase = IF sync.failed /\ @ = "active" THEN "updating" ELSE @]
  <2>1. o.state = sync.copy.state /\ o.finalizer = sync.copy.finalizer
        BY <1>1 DEF Object
  <2>2. obj' = obj \/ (sync.fresh /\ sync.copy # Empty /\ obj' = o)
        BY <1>5 DEF RecordError, Store, KeepObj
  <2> HIDE DEF o
  <2>   QED
        BY <1>2, <1>3, <2>1, <2>2
<1>6. CASE RecordIP \/ RecordActive
  <2>1. /\ [obj EXCEPT !.ip = external].state = obj.state
        /\ [obj EXCEPT !.ip = external].finalizer = obj.finalizer
        /\ [obj EXCEPT !.phase = "active"].state = obj.state
        /\ [obj EXCEPT !.phase = "active"].finalizer = obj.finalizer
        BY <1>1 DEF Object
  <2>   QED
        BY <1>3, <1>6, <2>1 DEF RecordIP, RecordActive, Store, KeepObj
<1>7. CASE FinishSync \/ UserEdits \/ UserDeletes
      BY <1>1, <1>7 DEF FinishSync, UserEdits, UserDeletes, Touch, Object, Anchored
<1>8. CASE UserCreatesAgain
  <2>1. obj'.state = "live"
        BY <1>8 DEF UserCreatesAgain, Touch, New, Empty
  <2>   QED
        BY <2>1
<1>9. CASE UNCHANGED obj
      BY <1>3, <1>9
<1>   QED
      BY <1>4, <1>5, <1>6, <1>7, <1>8, <1>9
      DEF Next, Worker, StartSync, Create, ImportCluster, GetClusterCert, FindSecret, MakeSecret,
          WaitForCreationComplete, Panic, Crash, Die, Wake, CollectSecret, ClusterReady,
          ClusterChanges, Readonly, vars

LEMMA AnchoredKept == ASSUME Sound, Anchored, [Next]_vars PROVE Anchored'
<1>1. /\ obj \in Object /\ sync \in Sync /\ sync.copy \in Object /\ obj # Empty
      BY SoundParts
<1>2. sync.fresh /\ sync.copy # Empty => sync.copy = obj
      BY DEF Sound, Agrees
<1> DEFINE Unanchored == Here /\ obj.phase # "" /\ ~obj.finalizer
           Goal == /\ Unanchored' => /\ sync'.at \in {"report", "finish"}
                                     /\ sync'.fresh /\ sync'.copy # Empty
                   /\ sync'.at \in {"show", "ip"} => Here' /\ obj'.finalizer
                   /\ sync'.at = "certs" => sync'.copy # Empty
                   /\ sync'.at # "panic"
<1>3. SUFFICES ASSUME Calm' PROVE Goal
  <2>1. obj'.state = "deleting" => obj'.finalizer
        BY DeletingKept
  <2>   QED
        BY <2>1 DEF Anchored, At
<1>4. Calm /\ ~Fault
      BY <1>3, CalmBefore
<1>5. /\ Unanchored => sync.at \in {"report", "finish"} /\ sync.fresh /\ sync.copy # Empty
      /\ sync.at \in {"show", "ip"} => Here /\ obj.finalizer
      /\ sync.at = "certs" => sync.copy # Empty
      /\ sync.at # "panic"
      BY <1>4 DEF Anchored, At
<1>6. ASSUME sync'.at \in {"report", "finish"}, sync'.fresh, sync'.copy # Empty PROVE Goal
      BY <1>6
<1>7. ASSUME obj' = obj, sync.at \notin {"report", "finish"}, sync'.at # "panic",
             sync'.at \in {"show", "ip"} => sync.at \in {"show", "ip"},
             sync'.at = "certs" => sync'.copy # Empty
      PROVE  Goal
      BY <1>5, <1>7 DEF Here
<1>8. CASE StartSync
  <2>1. CASE ~Here
        BY <1>5, <1>8, <2>1 DEF StartSync, Here
  <2>2. CASE Here
    <3>1. obj' = obj /\ (obj.phase # "" => obj.finalizer)
          BY <1>5, <1>8, <2>2 DEF StartSync, At
    <3> DEFINE step == IF obj.state = "deleting" THEN "finish"
                       ELSE CASE obj.phase = ""          -> "create"
                              [] obj.phase = "importing" -> "show"
                              [] obj.phase = "creating"  -> "wait"
                              [] OTHER                   -> "check"
    <3>2. /\ step \in {"finish", "create", "show", "wait", "check"}
          /\ step = "show" => obj.phase # ""
          OBVIOUS
    <3> HIDE DEF step
    <3>3. sync'.at = step
          BY <1>8, <2>2 DEF StartSync, Rest, step
    <3>   QED
          BY <2>2, <3>1, <3>2, <3>3 DEF Here
  <2>   QED
        BY <2>1, <2>2
<1>9. ASSUME NEW o \in Object, o # Empty,
             UpdateCopy(o, "report"), sync.at \notin {"report", "finish"}
      PROVE  Goal
  <2>1. CASE Store(o, "report")
    <3>1. sync'.at = "report" /\ sync'.fresh /\ sync'.copy = o
          BY <1>1, <2>1 DEF Store, Sync
    <3>   QED
          BY <1>6, <1>9, <3>1
  <2>2. CASE KeepObj /\ sync' = [sync EXCEPT !.at = "report", !.failed = TRUE, !.copy = Empty]
    <3>1. sync'.at = "report" /\ obj' = obj
          BY <1>1, <2>2 DEF KeepObj, Sync
    <3>   QED
          BY <1>7, <1>9, <3>1
  <2>   QED
        BY <1>9, <2>1, <2>2 DEF UpdateCopy
<1>10. CASE Create \/ ImportCluster \/ GetClusterCert \/ FindSecret \/ MakeSecret
            \/ WaitForCreationComplete
  <2>1. /\ obj' = obj /\ sync.at \notin {"report", "finish"}
        /\ sync.at \in {"create", "show", "certs", "find", "make", "wait"}
        BY <1>10
        DEF Create, ImportCluster, GetClusterCert, FindSecret, MakeSecret, WaitForCreationComplete,
            At, Readonly
  <2>2. sync.copy # Empty
        BY <1>5, <2>1 DEF Sound, Held, Handling
  <2>3. /\ sync'.at \in {"adopt", "report", "ip", "find", "make", "active", "phase", "certs"}
        /\ sync'.at = "ip" => sync.at = "show"
        /\ sync'.at = "certs" => sync'.copy = sync.copy
        BY <1>1, <1>10, <2>2
        DEF Create, ImportCluster, GetClusterCert, FindSecret, MakeSecret, WaitForCreationComplete,
            At, Go, Return, RequestFails, Then, Sync
  <2>   QED
        BY <1>7, <2>1, <2>2, <2>3
<1>11. CASE Adopt \/ CreationComplete \/ CheckAndUpdate
  <2>1. sync.copy # Empty /\ sync.at \notin {"report", "finish"}
        BY <1>11 DEF Adopt, CreationComplete, CheckAndUpdate, At, Sound, Held, Handling
  <2>2. \A phase \in {"importing", "active", "updating"} :
            /\ [sync.copy EXCEPT !.phase = phase] \in Object
            /\ [sync.copy EXCEPT !.phase = phase] # Empty
    <3>1. sync.copy.uid # 0
          BY <2>1 DEF Sound, Numbered
    <3>2. \A phase \in {"importing", "active", "updating"} :
            /\ [sync.copy EXCEPT !.phase = phase] \in Object
            /\ [sync.copy EXCEPT !.phase = phase].uid = sync.copy.uid
          BY <1>1 DEF Object
    <3>   QED
          BY <3>1, <3>2, EmptyTyped
  <2>3. CASE \E phase \in {"importing", "active", "updating"} :
                 UpdateCopy([sync.copy EXCEPT !.phase = phase], "report")
        BY <1>9, <2>1, <2>2, <2>3
  <2>4. CASE KeepObj /\ \E b \in BOOLEAN : Return(b)
    <3>1. sync'.at = "report" /\ obj' = obj
          BY <1>1, <2>4 DEF KeepObj, Return, Sync
    <3>   QED
          BY <1>7, <2>1, <3>1
  <2>   QED
        BY <1>11, <2>3, <2>4 DEF Adopt, CreationComplete, CheckAndUpdate, RequestFails
<1>12. CASE RecordIP
  <2>1. Here /\ obj.finalizer
        BY <1>5, <1>12 DEF RecordIP, At
  <2> DEFINE o == [obj EXCEPT !.ip = external]
  <2>2. Store(o, "certs")
        BY <1>4, <1>12, <2>1 DEF RecordIP, FailsIf
  <2>3. o.state = obj.state /\ o.finalizer = obj.finalizer /\ o.uid = obj.uid /\ o.uid # 0
        BY <1>1 DEF Object, Sound, Numbered
  <2> HIDE DEF o
  <2>4. obj' = o /\ sync'.at = "certs" /\ sync'.copy = o
        BY <1>1, <2>2 DEF Store, Sync
  <2>   QED
        BY <2>1, <2>3, <2>4, EmptyTyped DEF Here
<1>13. CASE RecordActive
  <2> DEFINE o == [obj EXCEPT !.phase = "active"]
  <2>1. CASE Store(o, "report")
    <3>1. o.uid = obj.uid /\ o.uid # 0
          BY <1>1 DEF Object, Sound, Numbered
    <3> HIDE DEF o
    <3>2. sync'.at = "report" /\ sync'.fresh /\ sync'.copy = o
          BY <1>1, <2>1 DEF Store, Sync
    <3>   QED
          BY <1>6, <3>1, <3>2, EmptyTyped
  <2>2. CASE Emptied("report") /\ KeepObj
    <3>1. sync'.at = "report" /\ obj' = obj
          BY <1>1, <2>2 DEF Emptied, KeepObj, Sync
    <3>   QED
          BY <1>7, <1>13, <3>1 DEF RecordActive, At
  <2>   QED
        BY <1>13, <2>1, <2>2 DEF RecordActive
<1>14. CASE RecordError
  <2> DEFINE o == [sync.copy EXCEPT !.failure = sync.failed,
                         !.phase = IF sync.failed /\ @ = "active" THEN "updating" ELSE @]
  <2>1. CASE Go("finish") /\ KeepObj
    <3>1. /\ sync'.at = "finish" /\ sync'.fresh = sync.fresh /\ sync'.copy = sync.copy
          /\ obj' = obj
          BY <1>1, <2>1 DEF Go, KeepObj, Sync
    <3>   QED
          BY <1>5, <3>1 DEF Here
  <2>2. CASE sync.copy # Empty /\ Store(o, "finish")
    <3>1. o.uid = sync.copy.uid /\ o.uid # 0
          BY <1>1, <2>2 DEF Object, Sound, Numbered
    <3> HIDE DEF o
    <3>2. sync'.at = "finish" /\ sync'.fresh /\ sync'.copy = o
          BY <1>1, <2>2 DEF Store, Sync
    <3>   QED
          BY <1>6, <3>1, <3>2, EmptyTyped
  <2>3. CASE /\ FailsIf(~(sync.fresh /\ Here)) /\ KeepObj
             /\ sync' = [sync EXCEPT !.at = "finish", !.copy = Empty]
    <3>1. ~Unanchored
          BY <1>4, <1>5, <2>3 DEF FailsIf
    <3>2. sync'.at = "finish" /\ obj' = obj
          BY <1>1, <2>3 DEF KeepObj, Sync
    <3>   QED
          BY <3>1, <3>2 DEF Here
  <2>   QED
        BY <1>14, <2>1, <2>2, <2>3 DEF RecordError
<1>15. CASE FinishSync
  <2>1. sync'.at = "idle"
        BY <1>15, RestTyped DEF FinishSync
  <2> DEFINE holds == Here /\ IF sync.copy = Empty THEN sync.same ELSE sync.fresh
  <2>2. ~Unanchored'
    <3>1. CASE obj' = [obj EXCEPT !.finalizer = TRUE]
          BY <1>1, <3>1 DEF Object
    <3>2. CASE obj' = [obj EXCEPT !.state = "none"]
          BY <1>1, <3>2 DEF Object, Here
    <3>3. CASE obj' = obj /\ FailsIf(~(holds /\ (obj.state = "deleting" \/ ~obj.finalizer)))
          BY <1>4, <1>5, <3>3 DEF FailsIf, Here
    <3>   QED
          BY <1>15, <3>1, <3>2, <3>3 DEF FinishSync
  <2>   QED
        BY <2>1, <2>2
<1>16. CASE UserDeletes
  <2>1. /\ sync'.at = sync.at /\ sync'.copy = sync.copy
        BY <1>1, <1>16 DEF UserDeletes, Touch, Sync
  <2>2. /\ obj'.finalizer = obj.finalizer
        /\ obj'.state = IF obj.finalizer THEN "deleting" ELSE "none"
        BY <1>1, <1>16 DEF UserDeletes, Touch, Object
  <2>   QED
        BY <1>5, <2>1, <2>2 DEF Here
<1>17. CASE UserCreatesAgain
  <2>1. /\ sync'.at = sync.at /\ sync'.copy = sync.copy /\ ~Here
        BY <1>1, <1>17 DEF UserCreatesAgain, Touch, Sync
  <2>2. obj'.finalizer = (~imported) /\ (imported => obj'.phase = "")
        BY <1>17 DEF UserCreatesAgain, Touch, New, Empty
  <2>   QED
        BY <1>5, <2>1, <2>2
<1>18. CASE UNCHANGED <<obj, sync>>
      BY <1>5, <1>18 DEF Here
<1>19. ~UserEdits
  <2>1. edits \in Nat
        BY BoundsAssumption DEF Sound, TypeOK
  <2>   QED
        BY <1>3, <1>4, <2>1 DEF UserEdits, Calm
<1>   QED
      BY <1>4, <1>5, <1>8, <1>10, <1>11, <1>12, <1>13, <1>14, <1>15, <1>16, <1>17, <1>18, <1>19
      DEF Next, Worker, Panic, Crash, Wake, CollectSecret, ClusterReady, ClusterChanges, At, vars

LEMMA InitAnchored == ASSUME Init PROVE Anchored
<1>1. sync.at = "idle"
      BY RestTyped DEF Init
<1>2. /\ obj.state = "live" /\ obj.finalizer = (~imported)
      /\ imported => obj.phase = ""
      BY DEF Init, New, Empty
<1>   QED
      BY <1>1, <1>2 DEF Anchored, At

(* That its configuration is deleted, or made again, while an import runs   *)
(* does not leave it with an object without a name: only a failing write or *)
(* an edit does.                                                            *)
THEOREM PanicFromFault == Spec => []PanicNeedsFault
<1>1. Init => Anchored
      BY InitAnchored
<1>2. Sound /\ Anchored /\ [Next]_vars => Anchored'
      BY AnchoredKept
<1>3. Sound /\ Anchored => PanicNeedsFault
  <2>1. Sound => faults \in Nat /\ edits \in Nat
        BY BoundsAssumption DEF Sound, TypeOK
  <2>2. Sound /\ ~Calm => faults > 0 \/ edits > 0
        BY <2>1 DEF Calm
  <2>   QED
        BY <2>2 DEF Anchored, PanicNeedsFault
<1>   QED
      BY <1>1, <1>2, <1>3, AlwaysSound, PTL DEF Spec
=============================================================================
