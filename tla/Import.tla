-------------------------------- MODULE Import --------------------------------
(***************************************************************************)
(* How a cluster becomes usable: the adoption of an imported cluster       *)
(* (create, importCluster, the imported branch of checkAndUpdate) and the  *)
(* Secret with its endpoint and CA, which createCASecret makes for         *)
(* imported and for created clusters (waitForCreationComplete).            *)
(*                                                                         *)
(* One key of the work queue.  The objects under it follow one another,    *)
(* each with a uid of its own, and all have their Secret under one name;   *)
(* Kubernetes collects a Secret whose owner is gone.  The creation of a    *)
(* cluster before phase creating is Provision's; the pools of a created    *)
(* cluster are CheckAndUpdate's.                                           *)
(***************************************************************************)
EXTENDS Naturals, Sequences

CONSTANTS
    CertLists,  \* the lists of certificates GetClusterCert may return
    None,       \* no certificate
    MaxObjects, \* bound: objects of this name, one after the other
    MaxFaults,  \* bound: requests and writes that fail, and crashes
    MaxEdits    \* bound: edits by users and changes of the cluster

(* The names of certificates the code tells apart, and all others. *)
CertNames == {"internalCluster", "externalClusterTLSVerify", "other"}

ASSUME CertsAssumption  == CertLists \subseteq Seq(CertNames) /\ None \notin CertNames
ASSUME BoundsAssumption == MaxObjects \in Nat \ {0} /\ MaxFaults \in Nat /\ MaxEdits \in Nat

VARIABLES
    imported, \* Spec.Imported of all objects of this name
    certs,    \* what GetClusterCert returns for the cluster
    external, \* does the cluster have an endpoint of type External?
    obj,      \* the stored CCEClusterConfig
    secret,   \* the stored Secret
    cluster,  \* the state of the cluster
    queued,   \* is the key in the work queue?
    later,    \* has the handler asked for it with EnqueueAfter?
    sync,     \* the worker
    confused, \* objects that were taken for an earlier one of the name
    faults, edits

fixed == <<imported, certs, external>>
vars  == <<imported, certs, external, obj, secret, cluster, queued, later,
           sync, confused, faults, edits>>

Uids == 1 .. MaxObjects

Object == [uid : 0 .. MaxObjects, state : {"none", "live", "deleting"},
           finalizer : BOOLEAN, public : BOOLEAN, failure : BOOLEAN, ip : BOOLEAN,
           phase : {"", "importing", "creating", "updating", "active"}]

(* What a failed Get or Update returns beside its error: config.Name is "". *)
Empty == [uid |-> 0, state |-> "none", finalizer |-> FALSE, public |-> FALSE,
          failure |-> FALSE, ip |-> FALSE, phase |-> ""]

NoSecret == [owner |-> 0, cert |-> None]
Secret   == [owner : Uids, cert : CertNames]

Steps == {"create", "adopt", "show", "ip", "certs", "find", "make", "active",
          "wait", "phase", "check", "report", "finish", "panic", "idle"}

(* copy: the variable config; fresh: it is what is stored; same: so is the *)
(* object the sync was started with.                                       *)
Sync == [at : Steps, copy : Object, fresh : BOOLEAN, same : BOOLEAN,
         failed : BOOLEAN, cert : CertNames \cup {None}]
Rest == [at |-> "idle", copy |-> Empty, fresh |-> FALSE, same |-> FALSE,
         failed |-> FALSE, cert |-> None]

Here == obj.state # "none"

TypeOK ==
    /\ imported \in BOOLEAN /\ certs \in CertLists /\ external \in BOOLEAN
    /\ obj \in Object
    /\ secret \in Secret \cup {NoSecret}
    /\ cluster \in {"creating", "available", "busy", "gone"}
    /\ queued \in BOOLEAN /\ later \in BOOLEAN
    /\ sync \in Sync
    /\ confused \subseteq Uids
    /\ faults \in 0 .. MaxFaults /\ edits \in 0 .. MaxEdits

-----------------------------------------------------------------------------
(* An object as it is submitted; create() brings that of a created cluster *)
(* to phase creating.                                                      *)
New(uid, public) ==
    [Empty EXCEPT !.uid = uid, !.state = "live", !.public = public,
                  !.finalizer = ~imported,
                  !.phase = IF imported THEN "" ELSE "creating"]

Init ==
    /\ imported \in BOOLEAN /\ certs \in CertLists /\ external \in BOOLEAN
    /\ \E public \in BOOLEAN : obj = New(1, public)
    /\ secret = NoSecret
    /\ cluster \in IF imported THEN {"creating", "available"} ELSE {"creating"}
    /\ queued = TRUE /\ later = FALSE
    /\ sync = Rest
    /\ confused = {}
    /\ faults = 0 /\ edits = 0

-----------------------------------------------------------------------------
(* Steps of a sync.                                                        *)

At(step) == sync.at = step
Go(step) == sync' = [sync EXCEPT !.at = step]

(* The handler returns; recordError is next. *)
Return(failed) == sync' = [sync EXCEPT !.at = "report", !.failed = failed]

Fault    == faults < MaxFaults /\ faults' = faults + 1
NoFault  == UNCHANGED faults
FailsIf(certain) == Fault \/ (certain /\ NoFault)    \* by a fault otherwise
KeepObj  == UNCHANGED <<obj, queued>>
Quiet    == UNCHANGED <<fixed, cluster, edits>>
Readonly == UNCHANGED <<obj, queued, secret, confused>>

(* The stored object becomes o.  A write that changes nothing is no event. *)
Store(o, step) ==
    /\ obj' = o
    /\ queued' = (queued \/ o # obj)
    /\ sync' = [sync EXCEPT !.at = step, !.copy = o, !.fresh = TRUE,
                            !.same = @ /\ o = obj]

(* UpdateStatus of the copy as change makes it, refused when somebody      *)
(* wrote in between.                                                       *)
UpdateCopy(o, step) ==
    \/ sync.fresh /\ Here /\ Store(o, step) /\ NoFault
    \/ /\ FailsIf(~(sync.fresh /\ Here))
       /\ sync' = [sync EXCEPT !.at = "report", !.failed = TRUE, !.copy = Empty]
       /\ KeepObj

(* A request that fails and ends the handler with an error. *)
RequestFails == Fault /\ Return(TRUE)

-----------------------------------------------------------------------------
(* The worker takes the key, with the object as it is stored (an informer  *)
(* that is behind gives it the object as it was: this step, taken earlier).*)
StartSync ==
    /\ At("idle") /\ queued
    /\ queued' = FALSE
    /\ sync' = IF ~Here THEN sync
               ELSE [Rest EXCEPT !.copy = obj, !.fresh = TRUE, !.same = TRUE,
                       !.at = IF obj.state = "deleting" THEN "finish"
                              ELSE CASE obj.phase = ""          -> "create"
                                     [] obj.phase = "importing" -> "show"
                                     [] obj.phase = "creating"  -> "wait"
                                     [] OTHER                   -> "check"]
    /\ UNCHANGED <<obj, secret, confused, later>> /\ NoFault /\ Quiet

(* create() of an imported configuration: it is read again, validateCreate *)
(* asks for the cluster, then the phase is written.                        *)
Create ==
    /\ At("create")
    /\ \/ /\ Here /\ cluster # "gone" /\ NoFault
          /\ sync' = [sync EXCEPT !.at = "adopt", !.copy = obj, !.fresh = TRUE]
       \/ /\ FailsIf(~Here)
          /\ sync' = [sync EXCEPT !.at = "report", !.failed = TRUE, !.copy = Empty]
       \/ Here /\ cluster = "gone" /\ NoFault /\ Return(TRUE)
       \/ RequestFails
    /\ Readonly /\ UNCHANGED later /\ Quiet

Adopt ==
    /\ At("adopt")
    /\ UpdateCopy([sync.copy EXCEPT !.phase = "importing"], "report")
    /\ UNCHANGED <<secret, confused, later>> /\ Quiet

(* Variant: a busy cluster is not asked for again. *)
ImportOnce ==
    /\ At("show")
    /\ \/ cluster = "available" /\ Go("ip") /\ NoFault
       \/ cluster \in {"creating", "busy"} /\ Return(FALSE) /\ NoFault
       \/ cluster = "gone" /\ Return(TRUE) /\ NoFault
       \/ RequestFails
    /\ Readonly /\ UNCHANGED later /\ Quiet

(* importCluster: a cluster that is busy is asked for again in 15 s. *)
ImportCluster ==
    /\ At("show")
    /\ \/ cluster = "available" /\ Go("ip") /\ NoFault /\ UNCHANGED later
       \/ cluster \in {"creating", "busy"} /\ Return(FALSE) /\ NoFault /\ later' = TRUE
       \/ cluster = "gone" /\ Return(TRUE) /\ NoFault /\ UNCHANGED later
       \/ RequestFails /\ UNCHANGED later
    /\ Readonly /\ Quiet

(* A status write in a RetryOnConflict closure (Get, change, UpdateStatus) *)
(* that failed, whatever the cause: the second try of the closure asks for *)
(* an object with no name.  config is empty then.                          *)
Emptied(step) == sync' = [sync EXCEPT !.at = step, !.copy = Empty, !.failed = FALSE]

(* Variant: the closure writes the copy it has. *)
RecordIPInCopy ==
    /\ At("ip")
    /\ \/ sync.fresh /\ Here /\ Store([obj EXCEPT !.ip = external], "certs") /\ NoFault
       \/ FailsIf(~(sync.fresh /\ Here)) /\ Emptied("certs") /\ KeepObj
    /\ UNCHANGED <<secret, confused, later>> /\ Quiet

(* The first status write; its error is overwritten by createCASecret's. *)
RecordIP ==
    /\ At("ip")
    /\ \/ Here /\ Store([obj EXCEPT !.ip = external], "certs") /\ NoFault
       \/ FailsIf(~Here) /\ Emptied("certs") /\ KeepObj
    /\ UNCHANGED <<secret, confused, later>> /\ Quiet

-----------------------------------------------------------------------------
(* createCASecret.                                                         *)

Last(list) == list[Len(list)]
Listed(name, list) == \E k \in DOMAIN list : list[k] = name

(* Variant: the loop goes on after the external certificate too. *)
CertNoBreak(list, public) ==
    IF Listed("internalCluster", list) \/ (public /\ Listed("externalClusterTLSVerify", list))
    THEN Last(list) ELSE None

(* The loop over the certificates.  clusterCert is the address of the loop *)
(* variable, which go 1.20 (go.mod) shares between the iterations: without *)
(* a break it ends as the last element, whichever one matched.             *)
ClusterCert(list, public) ==
    IF public /\ Listed("externalClusterTLSVerify", list) THEN "externalClusterTLSVerify"
    ELSE IF Listed("internalCluster", list) THEN Last(list)
    ELSE None

(* Variant: a missing certificate is not noticed. *)
CertUnchecked ==
    /\ At("certs")
    /\ LET cert == ClusterCert(certs, sync.copy.public)
       IN  \/ sync.copy = Empty /\ Go("panic") /\ NoFault
           \/ /\ sync.copy # Empty /\ cluster # "gone" /\ NoFault
              /\ sync' = [sync EXCEPT !.at = "find", !.cert = cert]
           \/ sync.copy # Empty /\ RequestFails
    /\ Readonly /\ UNCHANGED later /\ Quiet

(* GetClusterCert and the choice.  An emptied copy names no credential, so *)
(* its client is a nil pointer.                                            *)
GetClusterCert ==
    /\ At("certs")
    /\ LET cert == ClusterCert(certs, sync.copy.public)
       IN  \/ sync.copy = Empty /\ Go("panic") /\ NoFault
           \/ /\ sync.copy # Empty /\ cluster # "gone" /\ cert # None /\ NoFault
              /\ sync' = [sync EXCEPT !.at = "find", !.cert = cert]
           \/ sync.copy # Empty /\ (cluster = "gone" \/ cert = None) /\ Return(TRUE) /\ NoFault
           \/ sync.copy # Empty /\ RequestFails
    /\ Readonly /\ UNCHANGED later /\ Quiet

Then == IF imported THEN "active" ELSE "phase"

(* Any error of Get means there is no Secret. *)
FindSecret ==
    /\ At("find")
    /\ \/ /\ secret # NoSecret /\ Go(Then) /\ NoFault
          /\ confused' = confused \cup ({sync.copy.uid} \ {secret.owner})
       \/ FailsIf(secret = NoSecret) /\ Go("make") /\ UNCHANGED confused
    /\ UNCHANGED <<obj, queued, secret, later>> /\ Quiet

(* Variant: the error of Create is dropped. *)
MakeUnchecked ==
    /\ At("make") /\ Go(Then)
    /\ \/ secret = NoSecret /\ NoFault
          /\ secret' = [owner |-> sync.copy.uid, cert |-> sync.cert]
       \/ FailsIf(secret # NoSecret) /\ UNCHANGED secret
    /\ UNCHANGED <<obj, queued, confused, later>> /\ Quiet

MakeSecret ==
    /\ At("make")
    /\ LET made == [owner |-> sync.copy.uid, cert |-> sync.cert]
       IN  \/ secret = NoSecret /\ secret' = made /\ Go(Then) /\ NoFault
           \/ secret = NoSecret /\ secret' = made /\ RequestFails  \* the reply is lost
           \/ secret # NoSecret /\ Return(TRUE) /\ NoFault /\ UNCHANGED secret
           \/ RequestFails /\ UNCHANGED secret
    /\ UNCHANGED <<obj, queued, confused, later>> /\ Quiet

-----------------------------------------------------------------------------
(* The second status write of importCluster; its error is dropped, and     *)
(* recordError returns at once when the name is empty.                     *)
RecordActive ==
    /\ At("active")
    /\ \/ /\ Here /\ Store([obj EXCEPT !.phase = "active"], "report") /\ NoFault
          /\ confused' = confused \cup ({obj.uid} \ {sync.copy.uid})
       \/ FailsIf(~Here) /\ Emptied("report") /\ KeepObj /\ UNCHANGED confused
    /\ UNCHANGED <<secret, later>> /\ Quiet

WaitForCreationComplete ==
    /\ At("wait")
    /\ \/ cluster = "available" /\ Go("certs") /\ NoFault /\ UNCHANGED later
       \/ cluster \in {"creating", "busy"} /\ Return(FALSE) /\ NoFault /\ later' = TRUE
       \/ cluster = "gone" /\ Return(TRUE) /\ NoFault /\ UNCHANGED later
       \/ RequestFails /\ UNCHANGED later
    /\ Readonly /\ Quiet

CreationComplete ==
    /\ At("phase")
    /\ UpdateCopy([sync.copy EXCEPT !.phase = "updating"], "report")
    /\ UNCHANGED <<secret, confused, later>> /\ Quiet

(* checkAndUpdate and the imported branch of updateUpstreamClusterState;   *)
(* the requests in between are CheckAndUpdate's.  That branch ends with    *)
(* the phase, and nothing here looks at the Secret.                        *)
CheckAndUpdate ==
    /\ At("check")
    /\ \/ /\ cluster = "available" /\ imported /\ sync.copy.phase = "updating"
          /\ UpdateCopy([sync.copy EXCEPT !.phase = "active"], "report")
          /\ UNCHANGED later
       \/ /\ cluster = "available" /\ ~(imported /\ sync.copy.phase = "updating")
          /\ Return(FALSE) /\ NoFault /\ KeepObj /\ UNCHANGED later
       \/ /\ cluster = "busy"
          /\ \/ sync.copy.phase = "updating" /\ Return(FALSE) /\ NoFault /\ KeepObj
             \/ /\ sync.copy.phase = "active"
                /\ UpdateCopy([sync.copy EXCEPT !.phase = "updating"], "report")
          /\ later' = (later \/ ~sync'.failed)
       \/ cluster = "gone" /\ Return(TRUE) /\ NoFault /\ KeepObj /\ UNCHANGED later
       \/ RequestFails /\ KeepObj /\ UNCHANGED later
    /\ UNCHANGED <<secret, confused>> /\ Quiet

-----------------------------------------------------------------------------
(* recordError; its own error is logged only. *)
RecordError ==
    /\ At("report")
    /\ LET c == sync.copy
           o == [c EXCEPT !.failure = sync.failed,
                          !.phase = IF sync.failed /\ @ = "active" THEN "updating" ELSE @]
       IN  \/ (c = Empty \/ c.failure = sync.failed) /\ Go("finish") /\ KeepObj /\ NoFault
           \/ /\ c # Empty /\ c.failure # sync.failed /\ sync.fresh /\ Here
              /\ Store(o, "finish") /\ NoFault
           \/ /\ c # Empty /\ c.failure # sync.failed
              /\ FailsIf(~(sync.fresh /\ Here))
              /\ sync' = [sync EXCEPT !.at = "finish", !.copy = Empty]
              /\ KeepObj
    /\ UNCHANGED <<secret, confused, later>> /\ Quiet

(* The lifecycle handler, with the object the first handler returned, or   *)
(* the one the sync was given when that has no uid.  OnCCEConfigRemoved    *)
(* does nothing for an imported cluster; for a created one it is           *)
(* Provision's.  A sync that failed is repeated.                           *)
FinishSync ==
    /\ At("finish")
    /\ LET holds == Here /\ IF sync.copy = Empty THEN sync.same ELSE sync.fresh
       IN  \/ /\ holds /\ obj.state = "live" /\ ~obj.finalizer
              /\ obj' = [obj EXCEPT !.finalizer = TRUE] /\ queued' = TRUE
              /\ UNCHANGED cluster /\ NoFault
           \/ /\ holds /\ obj.state = "deleting"
              /\ obj' = [obj EXCEPT !.state = "none"]
              /\ cluster' = IF imported THEN cluster ELSE "gone"
              /\ UNCHANGED queued /\ NoFault
           \/ /\ FailsIf(~(holds /\ (obj.state = "deleting" \/ ~obj.finalizer)))
              /\ UNCHANGED <<obj, cluster>>
              /\ queued' = (queued \/ sync.failed \/ ~obj.finalizer \/ obj.state = "deleting")
    /\ sync' = Rest
    /\ UNCHANGED <<fixed, secret, confused, later, edits>>

(* EnqueueAfter's delay is over. *)
Wake ==
    /\ later /\ later' = FALSE /\ queued' = TRUE
    /\ UNCHANGED <<obj, secret, confused, sync>> /\ NoFault /\ Quiet

-----------------------------------------------------------------------------
(* The process dies; the next one lists every configuration.               *)
Die ==
    /\ sync' = Rest /\ queued' = Here /\ later' = FALSE
    /\ UNCHANGED <<obj, secret, confused>> /\ Quiet

Panic == At("panic") /\ Die /\ NoFault
Crash == Fault /\ Die

(* Kubernetes deletes a Secret whose owner is gone. *)
CollectSecret ==
    /\ secret # NoSecret /\ (~Here \/ secret.owner # obj.uid)
    /\ secret' = NoSecret
    /\ UNCHANGED <<obj, queued, later, sync, confused>> /\ NoFault /\ Quiet

Touch(o) ==
    /\ obj' = o /\ queued' = TRUE
    /\ sync' = [sync EXCEPT !.fresh = FALSE, !.same = FALSE]
    /\ UNCHANGED <<fixed, secret, later, confused, faults>>

UserEdits ==
    /\ obj.state = "live" /\ edits < MaxEdits /\ edits' = edits + 1
    /\ Touch([obj EXCEPT !.public = ~@])
    /\ UNCHANGED cluster

UserDeletes ==
    /\ obj.state = "live"
    /\ Touch([obj EXCEPT !.state = IF obj.finalizer THEN "deleting" ELSE "none"])
    /\ UNCHANGED <<cluster, edits>>

(* A configuration of the same name, with a cluster of its own when it is  *)
(* not imported.                                                           *)
UserCreatesAgain ==
    /\ ~Here /\ obj.uid < MaxObjects
    /\ Touch(New(obj.uid + 1, obj.public))
    /\ cluster' = IF imported THEN cluster ELSE "creating"
    /\ UNCHANGED edits

(* The cluster is made ready; somebody works on it, or deletes it, in the  *)
(* console.                                                                *)
ClusterReady ==
    /\ cluster \in {"creating", "busy"} /\ cluster' = "available"
    /\ UNCHANGED <<fixed, obj, secret, queued, later, sync, confused, faults, edits>>

ClusterChanges ==
    /\ cluster = "available" /\ edits < MaxEdits /\ edits' = edits + 1
    /\ cluster' \in {"busy", "gone"}
    /\ UNCHANGED <<fixed, obj, secret, queued, later, sync, confused, faults>>

-----------------------------------------------------------------------------
Worker ==
    \/ StartSync \/ Create \/ Adopt \/ ImportCluster \/ RecordIP
    \/ GetClusterCert \/ FindSecret \/ MakeSecret \/ RecordActive
    \/ WaitForCreationComplete \/ CreationComplete \/ CheckAndUpdate
    \/ RecordError \/ FinishSync \/ Panic

Next ==
    \/ Worker \/ Wake \/ Crash
    \/ CollectSecret \/ ClusterReady \/ ClusterChanges
    \/ UserEdits \/ UserDeletes \/ UserCreatesAgain

Spec == Init /\ [][Next]_vars

(* The worker goes on, delays end, the cluster gets ready and Kubernetes   *)
(* collects.  Users, faults and changes in the console owe nothing.        *)
Fairness ==
    WF_vars(Worker) /\ WF_vars(Wake) /\ WF_vars(ClusterReady) /\ WF_vars(CollectSecret)

FairSpec == Spec /\ Fairness
-----------------------------------------------------------------------------
InUse == Here /\ obj.phase \in {"active", "updating"}

(* A configuration that is past its adoption or creation has its Secret,   *)
(* its own: through lost replies, crashes and repeated syncs; unless       *)
(* createCASecret took the Secret of an earlier object for it, or an       *)
(* import that outlived its object wrote the phase into the next one.      *)
AccessReady == InUse => secret.owner = obj.uid \/ obj.uid \in confused

(* An import brings the operator down only after a failing write, or after *)
(* an edit that kept the finalizer from a configuration deleted then: not  *)
(* because its configuration is deleted, or made again, while it runs.     *)
PanicNeedsFault == At("panic") => faults > 0 \/ edits > 0

(* The certificate the comments and the loop are after. *)
Meant(list, public) ==
    IF public /\ Listed("externalClusterTLSVerify", list)
    THEN "externalClusterTLSVerify" ELSE "internalCluster"

(* The Secret gets the address the configuration asks for, unless the list *)
(* ends in another certificate than the internal one.                      *)
RightAddress ==
    [][secret = NoSecret /\ secret' # NoSecret =>
         \/ secret'.cert = Meant(certs, sync.copy.public)
         \/ /\ Last(certs) # "internalCluster"
            /\ ~(sync.copy.public /\ Listed("externalClusterTLSVerify", certs))]_vars

(* Requests stop failing at some time.  Then the object is gone, or its    *)
(* cluster or the certificate is missing, or it is in use with its own     *)
(* Secret; or it rests in phase importing with the Secret made, because    *)
(* the last write failed unseen, or was given another's.                   *)
Settles ==
    <>[](\/ ~Here
         \/ cluster = "gone"
         \/ ClusterCert(certs, obj.public) = None
         \/ InUse /\ secret.owner = obj.uid
         \/ obj.phase = "importing" /\ secret # NoSecret /\ faults > 0
         \/ obj.uid \in confused)
=============================================================================
