-------------------------------- MODULE Drivers --------------------------------
(***************************************************************************)
(* What the configurations of one operator share: its workers, the map     *)
(* Handler.drivers with one cloud client per credential secret, the        *)
(* secrets, the names of clusters, and the process itself.                 *)
(*                                                                         *)
(* main.go starts two workers; the work queue gives one configuration to   *)
(* one of them at a time.  Every sync puts a client for its own region     *)
(* into the map and reads it back from there, sometimes twice, by the      *)
(* secret its copy of the configuration names at that moment.  The map has *)
(* no lock and is lost with the process.  Which client a request goes      *)
(* through decides in which region it acts; the requests that do not       *)
(* depend on it are Provision's and CheckAndUpdate's.                      *)
(***************************************************************************)
EXTENDS Naturals, FiniteSets

CONSTANTS
    Configs, Namespaces, Names, Regions, Secrets,
    Ids,        \* identifiers the cloud may give to clusters
    None,       \* no identifier, no client
    Wants,      \* what the configurations ask for: see Want
    Early,      \* the configurations that are there from the start
    Threads,    \* workers: main.go starts two
    MaxCrashes, \* bound: how often the operator crashes by itself
    EditKinds,  \* what users do to credentials: "secret", "rotate", "revoke"
    Edited,     \* the configurations whose credentials they touch
    MaxEdits    \* bound: how often they do it

(* secret is Spec.HuaweiCredentialSecret when the configuration is created *)
Want == [ns : Namespaces, name : Names, region : Regions, secret : Secrets]

ASSUME NoneAssumption   == None \notin Ids
ASSUME WantsAssumption  == Wants \subseteq [Configs -> Want] /\ Early \subseteq Configs
ASSUME KindsAssumption  == EditKinds \subseteq {"secret", "rotate", "revoke"}
ASSUME EditedAssumption == Edited \subseteq Configs
ASSUME BoundsAssumption == Threads \in Nat /\ MaxCrashes \in Nat /\ MaxEdits \in Nat

VARIABLES
    want,    \* the requests, fixed from the start
    obj,     \* the stored configurations
    queued,  \* keys in the work queue
    sync,    \* the sync of each configuration, if one is running
    drivers, \* Handler.drivers
    creds,   \* the credential secrets, and the access key each one stands for
    cloud,   \* the clusters
    had,     \* the secrets a configuration has named so far
    crashes, edits

vars == <<want, obj, queued, sync, drivers, creds, cloud, had, crashes, edits>>

(* A client is bound to a region and to the access key it was made with. *)
Client  == [region : Regions, secret : Secrets, key : Nat]
NoClient == [region |-> None, secret |-> None, key |-> 0]
Clients == Client \cup {NoClient}

(* removed: by the removal handler; dropped: deleted before there was a    *)
(* finalizer, so at once.                                                  *)
Object == [state : {"unborn", "live", "deleting", "removed", "dropped"},
           finalizer : BOOLEAN, phase : {"", "creating", "running"},
           secret : Secrets, cluster : Ids \cup {None}]

(* copy: the variable config of the handlers; current: nobody has written  *)
(* the object since; auth: the client on its way into the map; driver: the *)
(* client taken at the head of the handler; again: the one taken after the *)
(* configuration was read anew; made: a cluster that is not recorded yet.  *)
Sync == [at : {"idle", "writing", "take", "clusters", "find",
               "make", "record", "phase", "wait", "check",
               "remove", "strike", "unfinalize", "finish", "panic"},
         copy : Object, current : BOOLEAN, failed : BOOLEAN,
         auth : Clients, driver : Clients, again : Clients, made : Ids \cup {None}]

Stored  == {c \in Configs : obj[c].state \in {"live", "deleting"}}
Running == {c \in Configs : sync[c].at # "idle"}

(* A cluster: by is the configuration whose creation made it.  How long    *)
(* its creation and its deletion take is Provision's.                      *)
Cluster   == [state : {"live"}, region : Regions, name : Names, by : Configs]
NoCluster == [state |-> "none", region |-> None, name |-> None, by |-> None]
Gone      == [NoCluster EXCEPT !.state = "gone"]
Existing  == {i \in Ids : cloud[i].state = "live"}

TypeOK ==
    /\ want \in Wants
    /\ obj \in [Configs -> Object]
    /\ queued \subseteq Configs
    /\ sync \in [Configs -> Sync]
    /\ drivers \in [Secrets -> Clients]
    /\ creds \in [Secrets -> [there : BOOLEAN, key : Nat]]
    /\ cloud \in [Ids -> Cluster \cup {NoCluster, Gone}]
    /\ had \in [Configs -> SUBSET Secrets]
    /\ crashes \in 0 .. MaxCrashes
    /\ edits \in 0 .. MaxEdits

-----------------------------------------------------------------------------
Unborn(c) == [state |-> "unborn", finalizer |-> FALSE, phase |-> "",
              secret |-> want[c].secret, cluster |-> None]
Idle(c)   == [at |-> "idle", copy |-> Unborn(c), current |-> FALSE, failed |-> FALSE,
              auth |-> NoClient, driver |-> NoClient, again |-> NoClient, made |-> None]

Init ==
    /\ want \in Wants
    /\ obj = [c \in Configs |-> [Unborn(c) EXCEPT !.state = IF c \in Early THEN "live" ELSE @]]
    /\ queued = Early
    /\ sync = [c \in Configs |-> Idle(c)]
    /\ drivers = [s \in Secrets |-> NoClient]
    /\ creds = [s \in Secrets |-> [there |-> TRUE, key |-> 1]]
    /\ cloud = [i \in Ids |-> NoCluster]
    /\ had = [c \in Configs |-> {want[c].secret}]
    /\ crashes = 0 /\ edits = 0

-----------------------------------------------------------------------------
(* Steps of a sync.                                                        *)

At(c, step)   == sync[c].at = step
Go(c, step)   == sync' = [sync EXCEPT ![c].at = step]

(* The handler is over; the lifecycle handler is next. *)
Ended(c, failed, current) ==
    [Idle(c) EXCEPT !.at = "finish", !.failed = failed, !.current = current]
End(c, failed) == sync' = [sync EXCEPT ![c] = Ended(c, failed, sync[c].current)]
Fail(c)        == End(c, TRUE)
Nil(c)         == sync' = [sync EXCEPT ![c] = [Idle(c) EXCEPT !.at = "panic"]]

Around        == UNCHANGED <<want, creds, had, edits>>
QuietObject   == UNCHANGED <<obj, queued>>
QuietWorld    == UNCHANGED <<obj, queued, drivers, cloud, crashes>> /\ Around

(* A write of the worker: its copy is then the stored object, and the      *)
(* informer queues the key.                                                *)
Store(c, o, step) ==
    /\ obj' = [obj EXCEPT ![c] = o]
    /\ queued' = queued \cup {c}
    /\ sync' = [sync EXCEPT ![c] =
          IF step = "finish" THEN Ended(c, FALSE, TRUE)
          ELSE [Idle(c) EXCEPT !.at = step, !.copy = o, !.current = TRUE]]

(* A plain Update or UpdateStatus, refused when somebody wrote in between. *)
UpdateCopy(c, o, step) ==
    \/ sync[c].current /\ Store(c, o, step)
    \/ ~sync[c].current /\ Fail(c) /\ QuietObject

Named(c) == drivers[sync[c].copy.secret]
Valid(d) == d # NoClient /\ d.key = creds[d.secret].key

(* A client knows the clusters of its own region only. *)
Sees(d, i) == i \in Existing /\ cloud[i].region = d.region

-----------------------------------------------------------------------------
(* setupHuaweiDriver, at the head of both handlers.                        *)

Dispatch(o) ==
    CASE o.state = "deleting" -> "remove"
      [] OTHER -> [p \in {"", "creating", "running"} |->
                     IF p = "" THEN "take" ELSE IF p = "creating" THEN "wait"
                                                ELSE "check"][o.phase]

(* Variant: the region is left out. *)
ClientNoRegion(c) ==
    [region |-> None, secret |-> obj[c].secret, key |-> creds[obj[c].secret].key]

NewHuaweiClientAuth(c) ==
    [region |-> want[c].region, secret |-> obj[c].secret, key |-> creds[obj[c].secret].key]

(* Variant: a client that is not there is not missed. *)
StartUnchecked(c) ==
    /\ c \in queued /\ At(c, "idle") /\ Cardinality(Running) < Threads
    /\ LET start(step) ==
               [Idle(c) EXCEPT !.at = step, !.copy = obj[c], !.current = TRUE]
           begin == IF creds[obj[c].secret].there
                    THEN [start("writing") EXCEPT !.auth = NewHuaweiClientAuth(c)]
                    ELSE start(Dispatch(obj[c]))
       IN  sync' = IF c \in Stored THEN [sync EXCEPT ![c] = begin] ELSE sync
    /\ queued' = queued \ {c}
    /\ UNCHANGED <<obj, drivers, cloud, crashes>> /\ Around

(* A worker takes a key from the queue, with the object as it is stored    *)
(* (an informer that is behind gives it the object as it was a while ago:  *)
(* that is this step, taken earlier), and NewHuaweiClientAuth reads the    *)
(* secret.  Without one, the client that is in the map already will do.    *)
StartSync(c) ==
    /\ c \in queued /\ At(c, "idle") /\ Cardinality(Running) < Threads
    /\ LET s == obj[c].secret
           start(step) ==
               [Idle(c) EXCEPT !.at = step, !.copy = obj[c], !.current = TRUE]
           begin ==
               IF creds[s].there THEN [start("writing") EXCEPT !.auth = NewHuaweiClientAuth(c)]
               ELSE IF drivers[s] # NoClient THEN start(Dispatch(obj[c]))
               ELSE Ended(c, TRUE, TRUE)
       IN  sync' = IF c \in Stored THEN [sync EXCEPT ![c] = begin] ELSE sync
    /\ queued' = queued \ {c}
    /\ UNCHANGED <<obj, drivers, cloud, crashes>> /\ Around

(* Variant: the map has one entry, whatever the key. *)
WriteOnlyDriver(c) ==
    /\ At(c, "writing")
    /\ drivers' = [s \in Secrets |-> sync[c].auth]
    /\ sync' = [sync EXCEPT ![c].at = Dispatch(sync[c].copy), ![c].auth = NoClient]
    /\ UNCHANGED <<cloud, crashes>> /\ QuietObject /\ Around

(* The write to the map ends. *)
WriteDriver(c) ==
    /\ At(c, "writing")
    /\ drivers' = [drivers EXCEPT ![sync[c].copy.secret] = sync[c].auth]
    /\ sync' = [sync EXCEPT ![c].at = Dispatch(sync[c].copy), ![c].auth = NoClient]
    /\ UNCHANGED <<cloud, crashes>> /\ QuietObject /\ Around

-----------------------------------------------------------------------------
(* create(), with validateCreate.                                          *)

(* Another configuration of that name in the namespace. *)
SameName(c) ==
    \E d \in Stored \ {c} : want[d].ns = want[c].ns /\ want[d].name = want[c].name

(* create() takes its driver by the copy the sync began with, and reads    *)
(* the configuration again; validateCreate takes one by what that says.    *)
TakeDriver(c) ==
    /\ At(c, "take")
    /\ \/ c \notin Stored /\ Fail(c)
       \/ c \in Stored /\ SameName(c) /\ sync' = [sync EXCEPT ![c] = Ended(c, TRUE, TRUE)]
       \/ /\ c \in Stored /\ ~SameName(c)
          /\ sync' = [sync EXCEPT
                ![c].at = IF obj[c].cluster # None THEN "find" ELSE "clusters",
                ![c].copy = obj[c], ![c].current = TRUE,
                ![c].driver = Named(c),
                ![c].again = IF obj[c].cluster # None THEN NoClient
                             ELSE drivers[obj[c].secret]]
    /\ QuietWorld

(* Variant: only the configurations are asked for the name. *)
CheckNoClusters(c) ==
    /\ At(c, "clusters")
    /\ LET d == sync[c].again
       IN  \/ d = NoClient /\ Nil(c)
           \/ Valid(d) /\ sync' = [sync EXCEPT ![c].at = "make", ![c].again = NoClient]
           \/ d # NoClient /\ ~Valid(d) /\ Fail(c)
    /\ QuietWorld

(* ListClusters: a cluster of that name in the client's region.  Using a   *)
(* client that is not in the map is a nil pointer panic.                   *)
CheckClusters(c) ==
    /\ At(c, "clusters")
    /\ LET d == sync[c].again
           taken == \E i \in Existing : Sees(d, i) /\ cloud[i].name = want[c].name
       IN  \/ d = NoClient /\ Nil(c)
           \/ Valid(d) /\ ~taken
              /\ sync' = [sync EXCEPT ![c].at = "make", ![c].again = NoClient]
           \/ d # NoClient /\ (~Valid(d) \/ taken) /\ Fail(c)
    /\ QuietWorld

(* ShowCluster through the client taken at the head of create(); after any *)
(* error a cluster is created.                                             *)
FindCluster(c) ==
    /\ At(c, "find")
    /\ LET d     == sync[c].driver
           known == Valid(d) /\ Sees(d, sync[c].copy.cluster)
       IN  IF d = NoClient THEN Nil(c) ELSE Go(c, IF known THEN "phase" ELSE "make")
    /\ QuietWorld

Fresh == {i \in Ids : cloud[i] = NoCluster}
NewId == CHOOSE i \in Fresh : TRUE    \* identifiers are given once: any will do

MakeCluster(c) ==
    /\ At(c, "make")
    /\ \/ /\ Valid(sync[c].driver) /\ Fresh # {}
          /\ cloud' = [cloud EXCEPT ![NewId] =
                [state |-> "live", region |-> sync[c].driver.region,
                 name |-> want[c].name, by |-> c]]
          /\ sync' = [sync EXCEPT ![c].at = "record", ![c].made = NewId,
                                  ![c].driver = NoClient]
       \/ sync[c].driver = NoClient /\ Nil(c) /\ UNCHANGED cloud
       \/ sync[c].driver # NoClient /\ ~Valid(sync[c].driver) /\ Fail(c) /\ UNCHANGED cloud
    /\ UNCHANGED <<drivers, crashes>> /\ QuietObject /\ Around

(* Two RetryOnConflict closures: Get, change, Update. *)
RecordCluster(c) ==
    /\ At(c, "record")
    /\ \/ c \in Stored /\ Store(c, [obj[c] EXCEPT !.cluster = sync[c].made], "phase")
       \/ c \notin Stored /\ Fail(c) /\ QuietObject
    /\ UNCHANGED <<drivers, cloud, crashes>> /\ Around

RecordPhase(c) ==
    /\ At(c, "phase")
    /\ \/ c \in Stored /\ Store(c, [obj[c] EXCEPT !.phase = "creating"], "finish")
       \/ c \notin Stored /\ Fail(c) /\ QuietObject
    /\ UNCHANGED <<drivers, cloud, crashes>> /\ Around

-----------------------------------------------------------------------------
(* waitForCreationComplete and checkAndUpdate, as far as drivers go.       *)

(* The outcome of ShowCluster for the recorded cluster. *)
Shown(c) == Valid(Named(c)) /\ Sees(Named(c), sync[c].copy.cluster)

WaitForCreationComplete(c) ==
    /\ At(c, "wait")
    /\ \/ Named(c) = NoClient /\ Nil(c) /\ QuietObject
       \/ Named(c) # NoClient /\ ~Shown(c) /\ Fail(c) /\ QuietObject
       \/ /\ Named(c) # NoClient /\ Shown(c)
          /\ UpdateCopy(c, [sync[c].copy EXCEPT !.phase = "running"], "finish")
    /\ UNCHANGED <<drivers, cloud, crashes>> /\ Around

(* The configuration is read again after the first requests;               *)
(* updateUpstreamClusterState takes a driver by what it says then.         *)
CheckAndUpdate(c) ==
    /\ At(c, "check")
    /\ LET again == drivers[obj[c].secret]
       IN  \/ Named(c) = NoClient /\ Nil(c)
           \/ Named(c) # NoClient /\ (~Shown(c) \/ c \notin Stored) /\ Fail(c)
           \/ /\ Named(c) # NoClient /\ Shown(c) /\ c \in Stored
              /\ IF again = NoClient THEN Nil(c)
                 ELSE sync' = [sync EXCEPT ![c] = Ended(c, ~Valid(again), TRUE)]
    /\ QuietWorld

-----------------------------------------------------------------------------
(* OnCCEConfigRemoved: the cluster.  A driver is taken for each request.   *)

(* Variant: any error means the cluster is deleted. *)
DeleteOnAnyError(c) ==
    /\ At(c, "remove")
    /\ LET d == Named(c)
           i == sync[c].copy.cluster
       IN  \/ i = None /\ Go(c, "unfinalize") /\ UNCHANGED cloud
           \/ i # None /\ d = NoClient /\ Nil(c) /\ UNCHANGED cloud
           \/ i # None /\ d # NoClient /\ ~(Valid(d) /\ Sees(d, i))
              /\ Go(c, "strike") /\ UNCHANGED cloud
           \/ /\ Valid(d) /\ Sees(d, i)
              /\ cloud' = [cloud EXCEPT ![i] = Gone]
              /\ UNCHANGED sync
    /\ UNCHANGED <<drivers, crashes>> /\ QuietObject /\ Around

(* ShowCluster and DeleteCluster; a 404 means the cluster is deleted.      *)
DeleteCCECluster(c) ==
    /\ At(c, "remove")
    /\ LET d == Named(c)
           i == sync[c].copy.cluster
       IN  \/ i = None /\ Go(c, "unfinalize") /\ UNCHANGED cloud
           \/ i # None /\ d = NoClient /\ Nil(c) /\ UNCHANGED cloud
           \/ i # None /\ d # NoClient /\ ~Valid(d) /\ Fail(c) /\ UNCHANGED cloud
           \/ i # None /\ Valid(d) /\ ~Sees(d, i)
              /\ Go(c, "strike") /\ UNCHANGED cloud
           \/ /\ Valid(d) /\ Sees(d, i)
              /\ cloud' = [cloud EXCEPT ![i] = Gone]
              /\ UNCHANGED sync
    /\ UNCHANGED <<drivers, crashes>> /\ QuietObject /\ Around

StrikeOff(c) ==
    /\ At(c, "strike")
    /\ UpdateCopy(c, [sync[c].copy EXCEPT !.cluster = None], "unfinalize")
    /\ UNCHANGED <<drivers, cloud, crashes>> /\ Around

RemoveFinalizer(c) ==
    /\ At(c, "unfinalize")
    /\ \/ /\ sync[c].current
          /\ obj' = [obj EXCEPT ![c].state = "removed"]
          /\ sync' = [sync EXCEPT ![c] = Idle(c)]
          /\ UNCHANGED queued
       \/ ~sync[c].current /\ Fail(c) /\ QuietObject
    /\ UNCHANGED <<drivers, cloud, crashes>> /\ Around

(* Variant: a sync that failed is not repeated. *)
FinishForgotten(c) ==
    /\ At(c, "finish")
    /\ LET add == sync[c].current /\ obj[c].state = "live" /\ ~obj[c].finalizer
       IN  /\ obj' = [obj EXCEPT ![c].finalizer = @ \/ add]
           /\ queued' = queued \cup (IF add THEN {c} ELSE {})
    /\ sync' = [sync EXCEPT ![c] = Idle(c)]
    /\ UNCHANGED <<drivers, cloud, crashes>> /\ Around

(* The lifecycle handler adds its finalizer to a live object, and a sync   *)
(* that failed is repeated.                                                *)
FinishSync(c) ==
    /\ At(c, "finish")
    /\ LET add == sync[c].current /\ obj[c].state = "live" /\ ~obj[c].finalizer
       IN  /\ obj' = [obj EXCEPT ![c].finalizer = @ \/ add]
           /\ queued' = queued \cup (IF sync[c].failed \/ add THEN {c} ELSE {})
    /\ sync' = [sync EXCEPT ![c] = Idle(c)]
    /\ UNCHANGED <<drivers, cloud, crashes>> /\ Around

-----------------------------------------------------------------------------
(* What goes wrong.                                                        *)

(* The process ends in all its syncs at once; the next one starts with an  *)
(* empty map and lists every configuration.                                *)
Die ==
    /\ sync' = [c \in Configs |-> Idle(c)]
    /\ drivers' = [s \in Secrets |-> NoClient]
    /\ queued' = Stored
    /\ UNCHANGED <<obj, cloud>> /\ Around

(* That one worker touches the map while another is writing to it is fatal *)
(* when the runtime notices: one of the causes of a crash.  Otherwise the  *)
(* old value is read.                                                      *)
Panic(c) == At(c, "panic") /\ Die /\ UNCHANGED crashes
Crash    == crashes < MaxCrashes /\ crashes' = crashes + 1 /\ Die

-----------------------------------------------------------------------------
(* Users and the cloud.                                                    *)

(* Somebody writes configuration c: a sync that is under way has an old    *)
(* copy.                                                                   *)
Touch(c, o) ==
    /\ obj' = [obj EXCEPT ![c] = o]
    /\ queued' = IF o.state = "dropped" THEN queued ELSE queued \cup {c}
    /\ sync' = [sync EXCEPT ![c].current = FALSE]
    /\ UNCHANGED <<want, drivers, creds, cloud, crashes>>

UserCreates(c) ==
    /\ obj[c].state = "unborn"
    /\ Touch(c, [obj[c] EXCEPT !.state = "live"])
    /\ UNCHANGED <<had, edits>>

UserDeletes(c) ==
    /\ obj[c].state = "live"
    /\ Touch(c, [obj[c] EXCEPT !.state = IF obj[c].finalizer THEN "deleting" ELSE "dropped"])
    /\ UNCHANGED <<had, edits>>

Edit(kind) == kind \in EditKinds /\ edits < MaxEdits /\ edits' = edits + 1

UserEditsSecret(c) ==
    /\ c \in Stored \cap Edited
    /\ \E s \in Secrets \ {obj[c].secret} :
          /\ Touch(c, [obj[c] EXCEPT !.secret = s])
          /\ had' = [had EXCEPT ![c] = @ \cup {s}]
    /\ Edit("secret")

(* A new access key replaces the old one, which the cloud refuses from     *)
(* then on; the secret is deleted; it is made again.                       *)
UserRotates ==
    /\ \E s \in {obj[c].secret : c \in Stored \cap Edited} :
        \/ Edit("rotate") /\ creds[s].there /\ creds' = [creds EXCEPT ![s].key = @ + 1]
        \/ Edit("revoke") /\ creds[s].there /\ creds' = [creds EXCEPT ![s].there = FALSE]
        \/ ~creds[s].there /\ creds' = [creds EXCEPT ![s].there = TRUE] /\ UNCHANGED edits
    /\ UNCHANGED <<want, obj, queued, sync, drivers, cloud, had, crashes>>

-----------------------------------------------------------------------------
Worker(c) ==
    \/ StartSync(c) \/ WriteDriver(c)
    \/ TakeDriver(c) \/ CheckClusters(c) \/ FindCluster(c)
    \/ MakeCluster(c) \/ RecordCluster(c) \/ RecordPhase(c)
    \/ WaitForCreationComplete(c) \/ CheckAndUpdate(c)
    \/ DeleteCCECluster(c) \/ StrikeOff(c) \/ RemoveFinalizer(c)
    \/ FinishSync(c) \/ Panic(c)

User(c) == UserCreates(c) \/ UserDeletes(c) \/ UserEditsSecret(c)

Next ==
    \/ \E c \in Configs : Worker(c) \/ User(c)
    \/ Crash \/ UserRotates

Spec == Init /\ [][Next]_vars

(* The queue serves every key and a worker goes on, through a panic too.   *)
(* Users and crashes owe nothing.                                          *)
Fairness == \A c \in Configs : WF_vars(Worker(c))

FairSpec == Spec /\ Fairness
-----------------------------------------------------------------------------
(* What the workers may rely on.                                           *)

(* Two configurations that want different regions have shared a secret:    *)
(* each one's syncs put a client for its own region in the other's way.    *)
Mixed(c) ==
    \E d \in Configs \ {c} : want[d].region # want[c].region /\ had[d] \cap had[c] # {}

(* A cluster is made in the region its configuration names, whatever other *)
(* workers put into the map between the steps of the sync, unless two      *)
(* regions meet in one secret.                                             *)
HomeRegion ==
    \A i \in Existing : LET c == cloud[i].by
                        IN  cloud[i].region = want[c].region \/ Mixed(c)

(* Two checks and a creation, not atomic, keep two clusters of one name    *)
(* out of a region: for configurations of one namespace, unless one was    *)
(* deleted before it had a finalizer and its sync went on.                 *)
OneClusterPerName ==
    \A i, j \in Existing :
        LET first  == cloud[i].by
            second == cloud[j].by
        IN  i # j /\ cloud[i].name = cloud[j].name /\ cloud[i].region = cloud[j].region =>
                \/ want[first].ns # want[second].ns
                \/ "dropped" \in {obj[first].state, obj[second].state}
                \/ Mixed(first) \/ Mixed(second)

(* No worker uses a client that is not in the map, except after an edit of *)
(* the configuration's own secret: not after a restart, not because of     *)
(* another worker, not when a credential was deleted.                      *)
NilNeedsEdit == \A c \in Configs : At(c, "panic") => had[c] # {want[c].secret}

(* A cluster is struck off its configuration only when it is gone: the 404 *)
(* that shows it comes from the right region, unless two meet in a secret. *)
StruckOffWhenGone ==
    [][\A c \in Configs :
         obj[c].cluster # None /\ obj'[c].cluster = None =>
             obj[c].cluster \notin Existing \/ Mixed(c)]_vars

(* What stops configuration c until somebody acts. *)
Blocked(c) ==
    \/ Mixed(c)
    \/ SameName(c)
    \/ \E i \in Existing : cloud[i].name = want[c].name /\ i # obj[c].cluster
    \/ LET s == obj[c].secret
       IN  ~creds[s].there /\ (drivers[s] = NoClient \/ ~Valid(drivers[s]))

(* Users stop at some time.  Then every configuration comes to its running *)
(* cluster or is gone, through refused keys, deleted credentials, panics,  *)
(* restarts and all that the other worker does, or it is blocked.          *)
Settles ==
    <>[](\A c \in Configs :
            \/ c \notin Stored
            \/ obj[c].state = "live" /\ obj[c].phase = "running"
            \/ Blocked(c))
=============================================================================
