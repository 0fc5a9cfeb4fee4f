# cce-operator in TLA+

cce-operator is a Kubernetes controller. A user (or Rancher) creates a
`CCEClusterConfig`; the operator creates a Huawei Cloud CCE cluster for it,
with whatever network it needs, keeps the cluster as the configuration says,
and deletes all of it when the configuration is deleted. This directory holds a
TLA+ model of that controller, the TLC runs that check it on small instances,
and proofs about it that TLAPS checks.

Paths below are relative to the repository. *Handler* is
`pkg/controller/cce-cluster-config-handler.go`, *cleanup* is
`pkg/controller/cleanup.go`, *validate* is `pkg/controller/validate.go`.

## The system

| part | state it keeps | operations | status |
|---|---|---|---|
| Dispatch and `recordError` (handler 67-146) | `Status.FailureMessage` | route a sync by phase; record the outcome | modelled in `Provision`, `Import` and, for active -> updating, in `CheckAndUpdate` |
| Creation (handler 148-618) | `Status.Created*ID`, `Status.ClusterExternalIP`, `Status.Phase`, `Spec.HostNetwork`, `Spec.ClusterID` | make an EIP, VPC, subnet, NAT gateway, SNAT EIP and rule, cluster; record each; wait for the cluster | modelled in `Provision` |
| Removal (cleanup) | the same identifiers, cleared one by one; the finalizer | wait for nodes, delete the cluster, then the network | modelled in `Provision` |
| Validation (validate) | none | name checks, field checks, versions | partly: the name checks are in `Provision` and, between two configurations, in `Drivers`; the cluster of an imported configuration in `Import`; the node pool checks of `validateUpdate` in `CheckAndUpdate` |
| Running cluster (handler 620-1043, `upgrade.go`, `upstream.go`) | task and job IDs, `CreatedNodePoolIDs`, phase | upgrade, resize, update, create and delete node pools | modelled in `CheckAndUpdate` |
| Import and CA secret (handler 1045-1187) | a Secret, phase, external IP | adopt a cluster; write the secret | modelled in `Import` |
| Drivers (`driver.go`) | `Handler.drivers`, a map without a lock | set up and use API clients, by credential | modelled in `Drivers` |
| API wrappers (`pkg/huawei`) | none | one request each | partly: by what a request creates, needs and deletes |
| Start-up (`main.go`) | none | start two workers, list every object | partly: what a restart loses is in `Drivers` |
| utilities, generated code, charts, unused `elb.go`, `addon.go` | none | | not modelled |

**How the parts interact.** `main.go` starts two workers per controller. The
work queue of client-go never hands one key to two workers, so one
configuration is synced by one worker at a time; two configurations share only
the cloud account and the map of drivers. A sync starts from the *informer's
copy*, runs `OnCCEConfigChanged` inside `recordError`, and then wrangler's
lifecycle handler, which adds the finalizer to a live object and runs
`OnCCEConfigRemoved` for one with a deletion timestamp. Both write the object
through the API server, which refuses a write whose `resourceVersion` is old.
Everything else is the cloud: each request is a remote call that may fail or
whose reply may be lost, and what it started goes on by itself.

**What is hard.**

* *Two stores, no transaction.* A resource exists in the cloud from one step
  and is named by the object from a later one. A crash, a lost reply or a
  failed write between the two leaves something nobody will delete.
* *Stale copies.* The informer may be behind, and the removal works for minutes
  on the copy it was started from. All that protects it is the
  `resourceVersion`.
* *Retries from the top.* After any error the whole handler runs again; it must
  find what it has already made.
* *Deletion at any time*, also in the middle of a creation, and before the
  finalizer is there.
* *The cloud's order.* A rule is in its NAT gateway, the gateway in a subnet,
  the subnet in a VPC; nothing in use can be deleted.
* *Decisions from a list read earlier.* A running cluster is brought up to date
  from its status, its pools and a copy of the configuration that were read many
  requests before they are acted on.
* *What configurations share.* Every sync puts a client for its own region into
  a map that all workers use, under the secret its configuration names, and
  takes it out again at later steps, by whatever secret the copy it has then
  names.
* *One name, several objects.* The Secret with the cluster's CA goes by the
  name of the configuration, not by its uid.
* *A handshake with Rancher*, who alone takes the IDs of new node pools from
  `CreatedNodePoolIDs` into the configuration.
* *Liveness.* While the cloud works nothing changes the object, so the handler
  depends on its own requeues.

`PROJECT.json` lists every hazard at its line with the properties that cover
it. One has none: a configuration deleted before it has its finalizer
(handler 64) is gone at once with all that was made for it. `Provision` has the
behaviour (`RemoveAtOnce`, `UserDeletes`), the properties leave such an object
out, and no line of the repository promises anything about it.

## Modules

| module | what it is |
|---|---|
| `Provision` | one configuration: worker, informer, API server, cloud, users, crashes |
| `Ledger` | the abstract promise about one configuration; `Provision` implements it |
| `MCProvision` | the instances TLC checks |
| `ProvisionProofs` | types; which copies agree with the stored object; what the worker holds between its steps; a removed configuration names nothing; nodes settle first |
| `LedgerProofs` | extends it: `Provision` implements `Ledger`; records and phases are kept |
| `NetworkProofs` | extends that: the user's network survives; the network is the recorded one, the cluster runs in it; nothing is made twice |
| `LeakProofs` | extends that: what may be lost, and how much; the removal leaves nothing and goes in order |
| `CheckAndUpdate` | a running cluster: version, flavor and node pools, Rancher, the console, the cloud |
| `MCCheckAndUpdate` | the instances TLC checks |
| `UpgradeProofs` | types; the cluster stays as the worker saw it; one thing at a time, one upgrade per version |
| `PoolProofs` | extends it: node pools, the handshake with Rancher, and what `active` and coming to rest mean |
| `Drivers` | what configurations share: workers, clients, credentials, names |
| `MCDrivers` | the instance TLC checks |
| `DriverProofs` | types; whose client a worker uses, and that there is one; one cluster of a name |
| `Import` | imported clusters, and the Secret with a cluster's CA |
| `MCImport` | the instance TLC checks |
| `ImportProofs` | types; the Secret is there and right; an import does not end the process |

### Provision

State: `obj` is the stored object, `cache` the informer's copy, `local` the
worker's copy (the variable `config` of the handlers), `current` says which of
the copies (and of the object the sync was *given*) carry the stored
`resourceVersion`. `pc`, `err`, `held` are the worker: its next step, whether
`OnCCEConfigChanged` failed, and the identifiers it holds in Go variables only.
`cloud`, `uses`, `endpoints`, `busy` are Huawei Cloud: the state of every
resource, what each one depends on, the VPC endpoint services, and whether a
node of the cluster is installing, upgrading or being deleted. `queued` is the
key in the work queue. `want` is the request as submitted.

A `CCEClusterConfig` is a record of the fields these handlers decide on.
`made[k]` is the identifier recorded for kind `k`: `Status.CreatedClusterEIPID`,
`CreatedVpcID`, `CreatedSubnetID`, `CreatedNatGatewayID`,
`CreatedSNatRuleEIPID`, `CreatedSNATRuleID` and `Spec.ClusterID`. `vpc` and
`subnet` are `Spec.HostNetwork`. Phase `"running"` stands for `active` and
`updating`: what tells them apart is in `CheckAndUpdate`.

Actions, in the order of the code:

| code | actions |
|---|---|
| a sync starts, handler 67-92 | `OnCCEConfigChanged` |
| `create`, handler 148-223 | `ValidateCreate`, `FindCluster`, `AdoptCluster`, `CreateCluster`, `RecordCluster`, `RecordPhase` |
| `generateAndSetNetworking`, 225-578 | `CreateClusterEIP`, `RecordClusterEIP`, `RecordAddress`, `CreateVPC`, `CreateSubnet`, `RecordNetworkStatus`, `RecordNetworkSpec`, `CreateNatGateway`, `RecordNat`, `CreateSnatRule`, `RecordSnatEIP`, `RecordSnat` |
| `waitForCreationComplete`, 580-618 | `WaitForCreationComplete`, `SetRunning` |
| their error returns | `CallFails`, `WriteFails` |
| `recordError`, 94-146 | `RecordError`, `SyncEndFails` |
| wrangler's `OnRemove` lifecycle | `AddFinalizer`, `RemoveAtOnce`, `RemoveFinalizer` |
| `OnCCEConfigRemoved`, cleanup 19-369 | `EnsureDeletable`, `DeleteCCECluster`, `ClearExternalIP`, `DeleteSnatRules`, `DeleteEndpointService`, `DeleteNetworkResource`, `ForgetNetworkResource`, `CleanupDone`, `RemoveFails` |
| everything else | `Inform`, `UserEdits`, `UserDeletes`, `ClusterSettles`, `ClusterVanishes`, `NodesChange`, `NodesSettle`, `Crash` |

Each creating request is a step and each write is a step. A
`RetryOnConflict` closure (Get, change, Update) is one step, `Store`: it is
written against what is stored at that moment. Its retry is not modelled as a
success: the closure assigns the result of the failed Update to `config`, an
object without a name, so the second Get cannot find it; a conflict between
the Get and the Update is a failing write (`WriteFails`). A plain
`UpdateStatus` is `UpdateCopy` or `UpdateOrGiveUp`: it succeeds when the
worker's copy is current, and fails otherwise. The waits of the removal
(`time.Sleep` in a loop) are steps that are not enabled yet.

`wait`ing, the five second pauses, log lines, the bodies of requests and the
fields of the configuration that only go into them are left out. Imported
configurations are in `Import`, and the clients the requests go through in
`Drivers`.

### Ledger

What `Provision` amounts to, seen from outside: the object is the ledger of
what the operator keeps in the cloud. The three variables and what they are in
`Provision` (the refinement mapping `Book`):

| `Ledger` | `Provision` | |
|---|---|---|
| `stage` | `Stage` | from `wanted` over `ready` and `ending` to `gone`, or `dropped` without a finalizer |
| `named` | `Named` | the identifiers in `obj.made`, with their kinds |
| `real` | `Owned` | what the operator made and the cloud still has |

Every creating request is a `Make`: one new thing, while the configuration is
wanted, or ending with a creation still under way. Every write that records
one is an `Enter`, which may replace an older entry of the same kind (that is how
an identifier is lost) but enters nothing that is not there and takes no entry
out. `SetRunning` is `GetReady`, with a cluster that is there. What leaves the
cloud does so only from `ending` on (`Leave`), an entry is struck out only when
its thing has left (`StrikeOut`), and the object departs with an empty ledger
(`Depart`). Everything else, every crash, failed call and conflict among it,
changes nothing the ledger knows of. `KeepsLedger` is that claim. It is
stronger than `RecordKept` and `NothingRecorded` together: no step of any actor
may change two of the three variables at once, or one of them at the wrong
stage.

### CheckAndUpdate

What happens to a configuration once `waitForCreationComplete` has handed it
over, in phase `updating`. `obj`, `cache`, `local`, `current`, `queued`, `pc`
and `err` are as in `Provision`; only the fields these handlers decide on are
kept: the phase, whether `FailureMessage`, the cluster's zone and endpoints and
its security group are set, version and flavor (`want`), `UpgradeClusterTaskID`
(`task`), `Spec.NodePools` (`pools`, a sequence: the loops go over it in order)
and `CreatedNodePoolIDs` (`made`). `work` is what else the worker knows: the
cluster as `ShowCluster` gave it, the pools as `ListNodePools` gave them, what is
still to do in the current loop, and the pools it has made. `cluster`, `tasks`
and `pools` are the cloud's.

| code | actions |
|---|---|
| a sync starts, handler 67-92 | `OnCCEConfigChanged` |
| `checkAndUpdate`, 620-767 | `CheckCluster`, `RejectUpdate`, `CheckTask`, `WaitForCloud`, `NoteCluster`, `GetConfig`, `ListNodePools` |
| `updateUpstreamClusterState`, 769-1043 | `RecordGroup`, `UpgradeCluster`, `ResizeCluster`, `RefuseDowngrade`, `KeepShape`, `RecordTask`, `RecordJob`, `EnqueueUpdate`, `UpdateCluster`, `UpdateNodePool`, `CompareNodePools`, `CreateNodePool`, `CreatedAll`, `Announce`, `DeleteNodePool`, `DeletedAll`, `Finish` |
| their error returns, `recordError` 94-146 | `CallFails`, `WriteFails`, `RecordError` |
| everything else | `Inform`, `Crash`, `UserDeclares`, `UserDuplicates`, `UserUndeclares`, `UserRenames`, `UserReshapes`, `UserEdits`, `RancherAdopts`, `PoolSettles`, `PoolChanges`, `ClusterSettles` |

What is abstracted. A version is its minor number, as `clusterUpgradeable`
compares it; that a resize needs 1.15 is taken as given. Updating a pool changes
its name, the one field the handlers look at. The phases of a pool fall into
those that make the handler wait, the empty one, and being gone. A failed pool is
one that waits for somebody to act. A cloud that is upgrading or resizing refuses
a second request. `RancherAdopts` stands for a program outside the repository and
is modelled from what the handler needs of it and from the comment on
`CreatedNodePoolIDs`: it puts the IDs into the pools of those names and clears
the map, in one write. Not in the module: an imported configuration (`Import`),
which is never updated, and the deletion of the configuration (`Provision` has it; the removal
does not look at node pools).

### Drivers

Several configurations and all they share. `want` is what each asks for
(namespace, cluster name, region, credential secret), `obj` the stored objects,
`queued` the work queue, `sync[c]` the sync of configuration `c` with its copy
and the clients it holds, `drivers` the map `Handler.drivers`, `creds` the
credential secrets, `cloud` the clusters with the region they are in. `had` is
kept for the properties: which secrets a configuration has named so far.

| code | actions |
|---|---|
| `setupHuaweiDriver` and `NewHuaweiClientAuth`, `driver.go` 37-91 | `StartSync`, `WriteDriver` |
| `create` and `validateCreate`, handler 148-223, validate 56-119 | `TakeDriver`, `CheckClusters`, `FindCluster`, `MakeCluster`, `RecordCluster`, `RecordPhase` |
| `waitForCreationComplete`, `checkAndUpdate` | `WaitForCreationComplete`, `CheckAndUpdate` |
| `OnCCEConfigRemoved` | `DeleteCCECluster`, `StrikeOff`, `RemoveFinalizer` |
| the end of a sync | `FinishSync` |
| a nil client, the end of the process | `Panic`, `Crash` |
| everything else | `UserCreates`, `UserDeletes`, `UserEditsSecret`, `UserRotates` |

Of the handlers it keeps what depends on which client a request goes through,
and on who else is at work: in which region a cluster is looked up, made and
deleted, and whether the request panics. Every access to the map that another
worker can come between is a step of its own. A client knows its region and the
access key it was made with; the cloud refuses an old key. How long a cluster
takes, its network, the pools and the conditions for its deletion are left to
the other two modules, so making and deleting a cluster are one step each. An
informer that lags is the same as a `StartSync` taken earlier, since the copy
it hands over is all that a sync knows of it. A worker that reads the map while
another writes to it gets the old value, which is the order in which the write
is later, or the runtime notices and ends the process, which is a `Crash`.
That region and name of a configuration are never edited is an assumption of
the model; `validateUpdate` does not look at them.

### Import

One key of the queue, and the objects that follow one another under it. `obj`,
`queued`, `later` (a key waiting in `EnqueueAfter`) and `sync` are as in the
other modules, `secret` is the stored Secret with its owner's uid and the
certificate whose address it has, `cluster` the state of the cluster,
`imported`, `certs` and `external` what does not change: whether the objects
are imports, the list `GetClusterCert` returns, whether there is an external
endpoint. `confused` are the uids of objects that were taken for an earlier
one of their name.

| code | actions |
|---|---|
| a sync starts, handler 67-92 | `StartSync` |
| the imported branch of `create`, 148-166 | `Create`, `Adopt` |
| `importCluster`, 1045-1124 | `ImportCluster`, `RecordIP`, `RecordActive` |
| `createCASecret`, 1126-1190 | `GetClusterCert` (with `ClusterCert`, the loop), `FindSecret`, `MakeSecret` |
| `waitForCreationComplete`, 580-618 | `WaitForCreationComplete`, `CreationComplete` |
| `checkAndUpdate` of an import, 620-767 and 815-840 | `CheckAndUpdate` |
| `recordError`, the lifecycle handler | `RecordError`, `FinishSync` |
| everything else | `Wake`, `Panic`, `Crash`, `CollectSecret`, `UserEdits`, `UserDeletes`, `UserCreatesAgain`, `ClusterReady`, `ClusterChanges` |

The list of certificates is a sequence because `createCASecret` keeps the
address of its loop variable: under the Go version of `go.mod` all iterations
share it, and the pointer ends on the last element unless a `break` follows.
`ClusterCert` says so. A closure of `RetryOnConflict` that fails leaves
`config` empty (`Empty`), and both of `importCluster`'s errors are dropped or
overwritten, so that the handler goes on with an object without a name:
`Emptied` is that outcome, and a nil client its consequence at
`GetClusterCert`.

## Runs

The cloud has four identifiers for each kind of resource in `provision`, three
in the other runs. The number is a real bound: while the informer stays behind,
a removal can be followed by another creation on the same object again and
again (`eip_twice` shows one round), and each round takes identifiers. A worker
that needs one when none is left stands still: safety is then checked on fewer
rounds, and liveness can only become harder, since a worker that stands still
would violate it. The theorems below have no such bound.
`Wants` holds four requests that between them take every branch of the
networking code: everything created, everything given by the user, a subnet to
be made in the user's VPC, and a subnet named without its VPC.

| run | expects | what it shows |
|---|---|---|
| `provision` | pass | ten invariants and four action properties, one fault of any kind, one concurrent edit |
| `provision_live` | pass | creation and removal end, with one fault of any kind; `Provision` implements `Ledger` |
| `cluster_twice` | violation of `ClusterOnce` | one failing `ShowCluster` makes a second cluster |
| `eip_twice` | violation of `ClusterEIPOnce` | a deletion during the creation and an edit make a second EIP, with no fault at all |
| `nodes_busy` | violation of `NodesSettled` | one failing `ListNodes` deletes a cluster with busy nodes |
| `subnet_stuck` | violation of `RemovalEnds` | a subnet made in the user's VPC can never be deleted |
| `upkeep` | pass | four invariants and four action properties of a running cluster, two edits of any kind and one fault of any kind |
| `drivers` | pass | three invariants, an action property and a liveness property of two workers with two configurations, one crash and one edit of credentials |
| `import` | pass | two invariants, an action property and a liveness property of imports and Secrets, one fault, one edit, two objects of one name |
| `upkeep_live` | pass | the operator comes to rest or is blocked for a named reason, one edit and one fault |
| `pool_missing` | violation of `DeclaredPoolsMade` | a pool renamed, and a new one under its old name: the new one is never made |
| `pool_gone` | violation of `DeclaredPoolsBack` | a pool deleted in the console is never made again |

`upkeep` starts with one declared pool, two names, two versions and two flavors.
Two edits are the least that bring two changes into one sync (a version and a
pool, a pool undeclared while another is made), or a change and its reverse
between two requests of one sync; with the first pool they make three pools at
most, and a lost reply one more, so four identifiers do not run out without
being noticed. `upkeep_live` starts with two pools, so that the creation of the
second may fail after the first, and has one edit. Edits here are of nine kinds
(`AllEditKinds`), the autoscaler and the console among them; a property that
must leave out some says so in its text through `did`, the kinds that have
happened. Of those faults `Provision` does not have, `task` is an upgrade or a
resize that fails in the cloud and `pool` a pool that ends in `ERROR`.

`drivers` has three pairs of requests: twins (one namespace, name, region and
secret), twins in two namespaces, and two configurations that share nothing
until one of them is given the secret of the other. Two workers is what
`main.go` starts, and with two configurations both are always free. One
configuration is there from the start, the other may come at any time; only the
first has its credentials edited, for the two are alike. One edit, of three
kinds, is enough to bring two regions into one secret, to leave a copy with a
secret nobody has set up, and to have a key refused while it is still in the
map; one crash empties the map at any of these moments. Two clusters are enough
to violate `OneClusterPerName`; a creation that finds no identifier waits, which
only `Settles` could suffer from. `import` has every order of one to three
different certificates, imported and created clusters, with and without an
external endpoint, and two objects of one name: every mistake of identity needs
only a predecessor.

Faults: `call` (a request fails and has no effect), `reply` (it takes effect
and the reply is lost), `write` (a write to the API server fails), `crash` (the
operator dies; the next one lists every object anew). One fault is enough to
reach every error path, since each is the return of one failing step and the
sync starts over. Edits are changes of fields that are not modelled; one edit
makes any copy stale at any moment. Identifiers are opaque and given once, so
`NewId` picks one of the fresh ones; which one makes no difference to any
property. Deadlock is not checked: a system whose object is gone and whose
queue is empty has nothing left to do.

**Fairness.** The worker is weakly fair: client-go retries a queued key for
ever. So are the informer's deliveries and the cloud's own progress: a cluster
that is being created or deleted is so for a finite time, and nodes settle.
Users, faults and crashes owe nothing. `CreationSettles` and
`RemovalSettles` use it, and `Settles` and `DeclaredPoolsBack`, which also ask
that Rancher takes over the IDs it finds and that pools and clusters end what
they were asked to do, well or not. In `drivers` the only assumption is that the worker of
each configuration is weakly fair, through panics: the queue serves every key,
and a process that ends is started again by its Deployment. In `import` the
worker is, and so are the delay of `EnqueueAfter`, the end of a creation and the
garbage collector of Kubernetes.

`LeakBound` says how much is lost: two resources per fault, one per edit. It
speaks of the whole life of a configuration, its deletion and the time after it
included; only an object that went without a finalizer is left out.
`NothingLeft` is its exact form with neither. `CleanupInOrder` asks that the
removal's copy names what the object names: with more requests and identifiers
than `provision` has, a copy from before a late sync of the creation lacks the
gateway that is in the subnet, and the cloud refuses. `CreationSettles` and `RemovalSettles` name the exceptions the
code has, each of them a finding: the name of a cluster whose ID was lost, an
orphan that keeps the network in use, the subnet in the user's VPC.

`QuietMeansDone` is what a user relies on: nothing queued and nothing new means
active, as declared, no task and no handshake open. It leaves out pools deleted
in the console and renamed pools, which are the two findings. `Settles` names
what stops the operator until somebody acts: an invalid list of pools, a wanted
version below the cluster's, a failed upgrade task that is still wanted, a
failed pool, and a declared pool that is not there.

`Mixed` and `confused` name what the properties of `Drivers` and `Import` have
to leave out, and a reader should know what hides behind them. TLC shows each of
these as a counterexample when the exception is taken out of the property. The
repository promises the contrary nowhere, so they are not listed as findings:

* Two configurations with one secret and two regions swap their clients
  (`driver.go` 50): a cluster may be made in the other one's region
  (`HomeRegion`), a name may be taken twice, and a removal may see a 404 from
  the wrong region and strike its cluster off (`StruckOffWhenGone`).
* A `HuaweiCredentialSecret` that is changed during a sync makes the handler
  take a client nobody has set up, and use a nil pointer (`NilNeedsEdit`:
  handler 149 and 818, validate 57).
* An `importCluster` whose first status write fails goes on with an empty
  object and panics (`PanicNeedsFault`). When the second one fails the error is
  dropped, and the configuration rests in phase `importing` with its Secret
  made (`Settles`).
* A Secret made for an earlier object of the name is taken for the new one's,
  and Kubernetes collects it (`AccessReady`). An import that goes on after its
  object was deleted without a finalizer writes `active` into the next one.
* The Secret may get the address of another certificate than the one that
  matched (`RightAddress`): the last of the list.
* A VPC exists from handler 279 on and is recorded at 342: a failing request in
  between costs it, which is why `LeakBound` has two per fault.

## Proofs

TLAPS checks these about `Provision` for every set of identifiers, every set of
requests and every number of faults and edits. They assume what `Provision`
assumes of its constants and nothing else: `User` and `None` are no identifiers
the cloud gives and differ from each other (`IdsAssumption`), requests have the
four fields of the networking code (`WantsAssumption`), the kinds of fault are
the four named ones (`FaultsAssumption`), and the bounds are natural numbers
(`BoundsAssumption`).

| theorem | states |
|---|---|
| `TypeCorrect` | `Spec => []TypeOK` |
| `CopiesTracked` | `Spec => []Tracked`: a copy whose write would be accepted equals the stored object; a deletion is never taken back, and the removal runs on deleted objects only |
| `HandsTracked` | `Spec => []InHand`: a Go variable holds an identifier exactly between the request that brought it and the write that records it, and `create` decides on what is really recorded |
| `RemovedNamesNothing` | `Spec => []NothingRecorded` |
| `NodesSettleFirst` | `Spec => NodesSettledFirst`, an action property |
| `LedgerImplemented` | `Spec => KeepsLedger`: `Provision` implements `Ledger` |
| `RecordsKept` | `Spec => RecordKept`, an action property |
| `PhasesForward` | `Spec => PhaseForward`, an action property |
| `ClusterKnown` | `Spec => []CreatingHasCluster` |
| `UserNetworkSafe` | `Spec => []UserNetworkKept` |
| `NetworkStaysKnown` | `Spec => []NetworkKnown` |
| `ClusterAtHome` | `Spec => []ClusterHome` |
| `NothingMadeTwice` | `Spec => MadeOnce`, an action property |
| `NoLeak` | `Spec => []LeakNeedsFault` |
| `LeaksBounded` | `Spec => []LeakBound` |
| `RemovalComplete` | `Spec => []NothingLeft` |
| `RemovalInOrder` | `Spec => []CleanupInOrder` |

*Why `Tracked` and `InHand`.* None of the properties is inductive. A plain
`UpdateStatus` writes the worker's whole copy back; that it loses no identifier
follows only because an accepted copy is the stored object (`CopiesAgree`).
That in turn survives every writer because each write, by whomever, makes the
other copies old. `DeletionKept` then gives that every step of the removal has
a deleted object before it, and `LocalKnown` that the tests at the head of each
creating request (`Status.ClusterExternalIP == ""` and so on) are about the
stored object, though the worker's copy may be behind in other fields.

*`NothingRecorded`* (module `ProvisionProofs`) needs three more facts. The removal
never looks at the SNAT rule: it strikes it off with its NAT gateway, so
`GatewayFirst` shows that a rule is never recorded on an object without one.
`CleanedUp`: what the removal has got through is off the worker's copy.
`GoneForGood`: no copy of an object that is gone can be written, so nothing is
recorded on it afterwards. `NodesSettledFirst` needs one: the nodes are looked
at one step before the deletion of the cluster, and `NodesStay` says that they
are still quiet then, for nothing but a configuration in use makes them busy.

*`KeepsLedger`* (module `LedgerProofs`) needs of every step of the code that it is
one step of the ledger, or none. `LedgerInv` says why it is:

* `PhaseKnown`: the informer's copy, however old, tells a configuration that is
  running from a new one, so nothing is made for one that is ready.
* `Alive`, `FinalizerFirst`: whatever is made is made for an object that has not
  departed, and one that is ending has its finalizer.
* `Handed`: what a write is about to record is in the cloud. A write may lose an
  entry but cannot enter what is not there.
* `ReadyCluster`, `PhaseEarned`, `CreatingHasCluster`: a phase is written only
  when the cluster it stands for is recorded, and `running` only when it lives.
* `DeletedByUs`: a cluster is being deleted only when the configuration is.
* `RuleInGateway`: the recorded rule is in the recorded gateway. The removal
  never asks whether the rule is gone, it strikes it off with the gateway; that
  it has left by then holds because a gateway with rules cannot be deleted.

The proof has one case per action for the invariant and the ledger's step
together, and the two action properties come out of the same cases.

*`NetworkInv`* (module `NetworkProofs`) holds until the deletion and has three
parts. `AddressKept`: an EIP is recorded only together with its address.
`NetworkPaired`: `Spec` names an own VPC only with the subnet in it, both as in
`Status`; `create` works on a network only when `Spec` lacks one; and between
the two writes that record it `Status` names what the worker holds, so an
attempt that breaks off between them leaves a VPC in `Status` that the next one
writes over, and never a pair that does not belong together. `HomeKept`: the
named subnet is in the named VPC, and the recorded cluster, or the one about to
be recorded, in that subnet. To keep the cases few every step of the system is
first brought to one of five forms: it asks for a resource, passes over a
request, records, strikes off, or stands aside. `MadeOnce` follows
from the first form, whose test (`obj.made["nat"] = None` and so on) is about the
stored object by `LocalKnown`.

*`LeakInv`* (module `LeakProofs`) cannot be about `Orphans`: their number is not
inductive, because a fault costs nothing at first. A creation that breaks off
leaves the VPC recorded, and only the next attempt writes over it. So `LeakInv`
counts `Bad`, the resources that are lost (`Stray`) or will be: a recorded one
that `create` will not recognise (`Doomed`), and the EIP a lost cluster holds, on
which the removal gives up (`Hostage`). `Bad` has at most `2 * faults + edits`
members; with no fault it has only EIPs, and before a deletion it is empty.
`BadGrows` is the step: `Bad` does not grow, or grows by two with a fault, or by
the EIP when an edit makes the removal start over. All four theorems are read off
this set: `Orphans` is part of it; once the object is gone with nothing recorded
and nothing in hand, `Owned` is; and an orphan that would hold up the removal
is none.

These are about `CheckAndUpdate` (modules `UpgradeProofs` and `PoolProofs`), for every set of
names, identifiers, versions and flavors, every first list of pools, and every
number of faults and edits. They assume that `None` is neither a name nor an
identifier (`NoneAssumption`), that versions are natural numbers and that there
is a version and a flavor (`ShapeAssumption`), that kinds of faults and edits
are the named ones (`KindsAssumption`), that the bounds are natural numbers
(`BoundsAssumption`) and that a request lists names and a shape
(`RequestsAssumption`).

| theorem | states |
|---|---|
| `TypeCorrect` | `Spec => []TypeOK`, where a recorded task is one that was started |
| `ClusterSteady` | `Spec => []Steady`: between the reading of its status and a change the worker asks for, the cluster is available and as the worker saw it |
| `PoolsOneAtATime` | `Spec => OneAtATime`, an action property |
| `UpgradedOnce` | `Spec => []UpgradeOnce` |
| `CopiesTracked` | `Spec => []CopiesAgree`: a copy whose write would be accepted is the stored object |
| `ListTrue` | `Spec => []ListInv`: what the worker knows of the pools while it compares them |
| `NamedStay` | `Spec => NamedPoolsKept`, an action property |
| `AnnouncedStay` | `Spec => AnnouncedKept`, an action property |
| `OnePool` | `Spec => []OnePoolPerName` |
| `ActiveMeant` | `Spec => ActiveEarned`, an action property |
| `RestEarned` | `Spec => []QuietMeansDone` |

*Why `Steady` and `TasksOrdered`.* `OneAtATime` speaks of the cluster at the
moment a pool is created or deleted, while the code looks at it many steps before.
`Steady` carries the observation along: the cluster leaves `available` only at the
worker's own request, after which the worker leaves the steps that rely on it;
this is where one worker per key matters. `UpgradeOnce` compares any two tasks
and is not inductive: a new task must be above every one that was not a failure.
`TasksOrdered` adds that only the last task may be running, and only while the
cluster is being upgraded to a newer version, and that the target of a task that
is done has been reached. With `Steady` the worker's test (`Upgradeable`) is
then about the cluster as it is, so a request whose reply or record was lost is
not repeated: either the cluster is busy, or it has reached the version, or the
task has failed.

*Node pools* (module `PoolProofs`). The handler compares two lists, the declared
and the existing pools, many steps after it read them, and while users, Rancher
and the cloud go on. Every step is first shown to have one of fifteen forms
(`EveryStep`: `Listing`, `Matching`, `Creating`, `Announcing`, `Editing`,
`Adopting` and so on), which say what it does to the pools and the lists and
nothing else; each invariant is then proved over the forms.

* `ListInv`: nothing is announced while the worker compares, and until it makes a
  pool itself the list has every pool there is. So a pool it makes is for an
  entry without an ID.
* `DropInv`, for `NamedPoolsKept`: while the worker compares, `Spec` gets no ID
  that the worker's copy lacks, for only Rancher puts IDs there and it has
  nothing to take over; so a pool to be deleted is not named, and what is made
  and announced meanwhile is new.
* `SpecInv`, for `AnnouncedKept`: while nobody takes an entry out or renames one,
  `Spec` only grows behind the worker's back, and an announced ID finds the entry
  it was made for.
* `NameInv`, `DistinctInv`, `OneNameInv`, for `OnePoolPerName`: an ID stands beside
  the name its pool was made with; an object from which a copy passed the
  validation has no name twice, and stays so; and the worker knows the name of
  every pool there is, from the list or because it has made the pool itself.
  That the names are compared as well as the IDs is what a lost reply needs.
* `CalmInv`, `WantInv`, for `ActiveEarned`: as long as a sync has changed nothing
  (`acted`), the list is what there is, and whatever is not right is on one of
  the lists of what is still to be done; at the end these are empty.
* `RestInv`, for `QuietMeansDone`: with no key in the queue and a current copy at
  the informer nobody has written since the worker took its copy, so the sync
  that is under way is the last one. `Undisturbed` carries through it what it
  has found done, and it ends without having acted only if everything was.

These are about `Drivers` (module `DriverProofs`), for any number of workers,
configurations, regions, secrets, crashes and edits. They assume that no
identifier is `None` (`NoneAssumption`), that requests are of type `Want` and the
first configurations are configurations (`WantsAssumption`), that kinds of edits are the
named ones (`KindsAssumption`), that the edited configurations are some of
them (`EditedAssumption`) and that the bounds are natural numbers
(`BoundsAssumption`).

| theorem | states |
|---|---|
| `TypeCorrect` | `Spec => []TypeOK` |
| `ClustersAtHome` | `Spec => []HomeRegion` |
| `StruckOffGone` | `Spec => StruckOffWhenGone`, an action property |
| `NilOnlyAfterEdit` | `Spec => []NilNeedsEdit` |
| `OneClusterAName` | `Spec => []OneClusterPerName` |

*Why `ClientInv` and `ReadyInv`.* A worker cannot say who put the client it
takes out of the map there. `MapKnown` says it for every entry at all times: the
client is for the region of a configuration that has named this secret at some
time. So a configuration that takes the client of a secret it has named either
gets one for its own region or is `Mixed`, and `Mixed` never ends, since `had` only
grows. `SyncKnown` carries this through a sync (`Home` of the clients it holds)
together with what it knows of clusters: an identifier a configuration has is of a
cluster made for it (`OwnCluster`). `HomeRegion` follows where a cluster is made,
`StruckOffWhenGone` where a 404 is read. `ReadyInv` is about presence: no
client leaves the map while the process lives, every sync sets up its own before
it looks, and where every lookup goes to one secret (`had[c]` has no other) it
finds what was set up. Keys are never 0, so a client is never taken for none.

*Why `LiveInv` and `TwinInv`.* `OneClusterPerName` rests on three steps of one sync
that others come between. `OneChosen`: of the twins in a namespace one at most
is between `validateCreate` and its creation, because it found no other one
stored, and one on that way is stored until it is dropped. `NoRival`: what
`ListClusters` showed is still true when the cluster is made, because only
another twin on that way could have changed it. There is a second way to the creation, a
`ShowCluster` that fails: `LiveKept` shows that it leads there only with a
client the cloud refuses, since the recorded cluster exists until the
configuration's own removal ends it, and `KeyInv` that a refused client is
refused for good, since keys are not given twice.

These are about `Import` (module `ImportProofs`), for every set of lists of
certificates and any number of objects of one name, faults and edits. They
assume that the lists are of certificates and `None` is not one
(`CertsAssumption`), and that there is at least one object (`BoundsAssumption`).

| theorem | states |
|---|---|
| `TypeCorrect` | `Spec => []TypeOK` |
| `AddressRight` | `Spec => RightAddress`, an action property |
| `SecretReady` | `Spec => []AccessReady` |
| `PanicFromFault` | `Spec => []PanicNeedsFault` |

*Why `Sound`, `Secured` and `Anchored`.* `Sound` adds to the types that a copy whose
write would be accepted is the stored object (`Agrees`), that the handlers do
not go on with an empty object but for `createCASecret` (`Held`), and that the
certificate in hand was chosen for the copy in hand (`Chosen`). `Secured` is
`AccessReady` one step ahead: at the write of the phase the Secret is there, if
the object in store is still the one the Secret was made for. It needs `Older`, that
a copy is never of a later object than the stored one; otherwise a new object
could meet an old sync with its number. `Anchored` speaks of the calm states,
with no fault and no edit: there every object past its first phase has its finalizer, or the sync
that brought it there is still on its way to add it with a copy that will be
accepted. So an object cannot disappear under an import.

With these, every invariant and every action property the passing runs check has
a theorem. Only TLC checks the liveness properties, which need fairness and
ENABLED: `CreationSettles` and `RemovalSettles` of `Provision`, and `Settles` of
`CheckAndUpdate`, `Drivers` and `Import`. The findings are counterexamples, and
TLC's by nature.

## Not modelled

* `elb.go`, `addon.go` and the other wrappers of `pkg/huawei` nobody calls.
* Generated clients and deep copies. Of the client and the queue the handlers
  use, the models have `Get`, `Update`, `UpdateStatus`, `EnqueueAfter` and
  `RetryOnConflict`, as external definitions.
* Flags, wiring and helpers for pointers.
* The checks of single fields in validate, and the bodies of requests: they
  read fields no handler decides on.
* `upstream.go` copies lists between the API's types and the configuration's,
  one field at a time; only the fields the handlers compare are modelled.
* A Secret that a user deletes by hand: nothing in the repository looks for it.

## Plan

1. *(done)* `Provision`, its runs, its type invariant and first safety theorems.
2. *(done)* `CheckAndUpdate`, its runs, and the theorems about upgrades.
3. *(done)* `Ledger`, the abstract promise, with `Provision` shown to implement it.
4. *(done)* `Drivers`: two workers, two configurations, one map, and the name
   check between them.
5. *(done)* `Import` and the choice of the certificate in `createCASecret`.
6. `NodePools`, the abstract promise of a running cluster (a declared pool is made
   once, a named one stays), with `CheckAndUpdate` shown to implement it.
7. `Versions`: `clusterUpgradeable` and the version checks of `validate` as
   operators against a reference order.
8. *(done)* The refinement, and the safety properties of `Drivers` and `Import`,
   as theorems.
9. *(done)* Theorems for the other safety properties of `Provision`,
   `CheckAndUpdate` and `Drivers`.
10. With 6: the refinement of `NodePools` as a theorem.
