# kuidapps in TLA+

kuidapps is a Kubernetes operator. One manager process (`src/main.go`) runs a
set of controllers that turn a `Topology` and a `NetworkDesign` into claims on
IP addresses and AS numbers, derive a configuration for every node, and deploy
it through SDCIO. The controllers never call one another: all they share is
what they store in the API server, read back through informer caches that lag
behind it. This directory holds TLA+ modules of those controllers, TLC
configurations that check them on small instances, and theorems that TLAPS
checks for all instances.

## Inventory

| component | state it keeps | operations | what is hard |
| --- | --- | --- | --- |
| Network controller (`pkg/reconcilers/network`) | `Network` status: `Ready`, `UsedReferences`; owned SDCIO `Config`s | detect a change of spec or design and reset the child conditions; push configs; sum up; tear down | decides on cached copies while two other controllers write the same object |
| Network parameters controller (`networkparams`) | condition `NetworkParamReady`; owned `IPClaim`s, `ASClaim`s | claim for every node and link of the topology | partial applies; a condition that doubles as an early return |
| Network device controller (`networkdevice`) | condition `NetworkDeviceReady`; owned `NetworkDevice`s | run the device builder, store its result, collect the providers' verdicts | late results of an earlier derivation |
| Conditions and status API (`apis/network`) | none | constructors, overall status, hash of the spec | one constructor names another condition |
| Event handlers (`eventhandler`) | none | map events of nodes, links, designs, devices, topologies to work-queue requests | lost wake-ups |
| Link controller (`link`) | claims on two `Endpoint`s | claim both, release both | partial claims of competing links |
| Lease (`lease`) | a `coordination/v1` Lease | acquire or renew | expiry, two-step acquire |
| Network package controller (`networkpackage`) | finalizer and condition of a `PackageRevision`; the `Network` it creates; the configs in the package | create the Network of a package, wait for it, write configs into the package | polling, retries, conditions of an earlier spec |
| Network design controller (`networkdesign`) | AS index, claims of the design, its condition | claim prefixes and AS numbers when the topology is ready | partial failure deletes what is in use; wake-up by another object |
| Topology controller (`topology`) | Nodes, Links and an index of the topology, its condition | create them from a containerlab file | specs that change while it applies; failures it does not retry |
| Containerlab import (`clab`) | none | Nodes and Links of a lab | links that do not parse, excluded nodes |
| Device builder (`devbuilder`) | none between calls | derive addresses, sessions, reflectors and instances of every node | agreement of the two ends of a link; order of maps; names of claims |
| Design and device API (`apis/network`) | none | predicates, address families and claims of a design; lists with keys | words and names that other components repeat |
| Manager (`main.go`) | work queues, caches | start, restart | everything in memory is lost |

### Interaction

The pipeline of a `Network` is

    spec or design changes
      -> network controller: record UsedReferences, reset both child conditions
      -> params controller:  store claims,   NetworkParamReady  = True
      -> device controller:  store devices,  NetworkDeviceReady = True
      -> network controller: push configs,   Ready

and each arrow is a status update of the same object, which the informer
delivers to all three controllers. A status update carries the
`resourceVersion` of the copy it was made from; the API server refuses it when
the object has moved on. Every safety property of the pipeline rests on that,
and every hazard is a place where work is done *before* the write that could be
refused: claims, devices and configs are stored first and reported afterwards.

Around the pipeline:

    Topology (containerlab text) -> topology controller -> Nodes, Links; Ready
      -> design controller: AS index, claims of prefixes and ASes; Ready
      -> a Network of that topology
    PackageRevision with a Network -> package controller (under a lease):
      Network with the GitOps annotation -> params and device controllers
      -> configs written into the package, which GitOps deploys
    Links -> link controller -> claims on Endpoints

## Modules

| module | models |
| --- | --- |
| `NetworkPipeline` | the three Network controllers, their informers and the rest of the cluster |
| `NetworkStatus` | what the pipeline promises to a reader of the stored status |
| `MCNetworkPipeline` | instances of the pipeline for TLC |
| `NetworkPipelineProofs` | TLAPS theorems about the pipeline, and that it implements `NetworkStatus` |
| `NetworkPackage` | the package controller above the pipeline in GitOps mode |
| `NetworkPackageProofs` | TLAPS theorems about packages and pipeline together |
| `Fabric` | the topology and design controllers, their informers, users and failures |
| `ContainerLab` | which Nodes and Links follow from a containerlab file |
| `NetworkDesign` | predicates, address families and claims of a design |
| `MCFabric` | labs and designs for TLC |
| `FabricProofs` | TLAPS theorems about the topology and design controllers |
| `DeviceConfig` | the configuration of a device as keyed lists, and the operations on it |
| `DeviceBuilder` | the device builder: underlay, route reflectors, bridges and routers |
| `MCDeviceBuilder` | designs, topologies and overlay networks for TLC |
| `DeviceBuilderProofs` | TLAPS theorems about the device builder: types, success and overlays |
| `BuilderSessionProofs` | TLAPS theorem that the BGP sessions it builds agree |
| `BuilderOrderProofs` | TLAPS theorem that the order of its iterations shows only in the order of one list |
| `LinkClaim` | the Link controller, its two informers, users and the inventory of Endpoints |
| `MCLinkClaim` | two Links between the same two Endpoints |
| `LinkClaimProofs` | TLAPS theorems about the Link controller |
| `Lease` | `AcquireLease` by processes with clocks and caches of their own |
| `MCLease` | two managers of kuidapps and a controller of another program |
| `LeaseProofs` | TLAPS theorems about the lease |

How they fit together: `NetworkPackage` extends `NetworkPipeline` and drives the
same actions; `Fabric` composes two controllers and uses `ContainerLab` and
`NetworkDesign`; `DeviceBuilder` uses `NetworkDesign` and `DeviceConfig`, and
stands for what `NetworkPipeline` abstracts to the inputs of a derivation.
`LinkClaim` and `Lease` are independent of the others: Links and Endpoints are
read by the pipeline only as the topology it derives from, and a worker that
does not get the lease puts its package back and changes nothing.

### NetworkPipeline

State and code:

- `net` is the stored `Network`: phase of its life, generation of its spec,
  finalizers, the two child conditions, `Ready`, and `UsedReferences`. `cache`
  is the informer's copy.
- A reconcile works on a copy. What matters of a copy is whether a write made
  from it will be accepted, so the model keeps no version numbers: `fresh` is
  the set of copies (of the controllers and the cache) whose
  `resourceVersion` is the stored one. A write that changes something empties
  it; a write that changes nothing leaves the `resourceVersion` alone, as in
  the API server. Timestamps and messages of conditions are left out, so a
  condition that is set again with the same status and reason is no change.
- `claims`, `devices`, `configs` are the owned objects of each node;
  `devCache`, `cfgCache` the informer's view of them. `from` names the inputs
  (spec generation, design version) an object was derived from and stands for
  its whole content; `prov` is the inputs of the provider's config.
- `pc`, `work` are the position of each controller in its `Reconcile` and the
  inputs it carries; `queue` is which work queues hold the Network.

One action is at most one request to the API server with the local work that
precedes it, which is the granularity at which the controllers interleave:

| action | code |
| --- | --- |
| `Start(c)` | `Reconcile` up to the first request: `Get` from the cache, early returns, the choice between deletion and the live branch |
| `AddFinalizer(c)` | `finalizer.AddFinalizer`; on success the copy is the stored object and `Proceed` chooses what follows |
| `ApplyChildren(c)`, `ApplyRefused(c)` | `apply` of each controller, whole; or its error before anything was sent |
| `Status(c)` | the status update that ends a live reconcile: `ParamsStatus`, `DeviceStatus`, `NetworkStatus` |
| `Delete(c)`, `RemoveFinalizer(c)` | the deletion branch |
| `Fail(c)` | `handleError` and the status update after it |
| `SyncNetwork`, `SyncDevice`, `SyncConfig` | the informers catch up and the watches of `SetupWithManager` fill the queues |
| `ClaimReady`, `ProviderReconcile`, `ConfigReconcile`, `ProviderFails`, `ConfigFails` | kuid's backends, the provider of the NetworkDevices, SDCIO (external) |
| `SpecChange`, `DesignChange`, `DeleteNetwork` | users |
| `RequestFails(c)` | a request fails for another reason than a conflict; an apply or a delete has reached any subset of its objects |
| `Restart` | the manager dies and comes back: copies, queues and caches are rebuilt |

Choices that a reader should know of:

- Caches skip versions but never go back. The design is read from its cache,
  which is a variable of its own; reading an old design is the same as the
  design changing later. Claims are polled by the builder at each use, so their
  cache is not kept apart.
- A missing condition reads as `False` (`GetCondition`).
- `DidAChildConditionFail` is always true (it ranges over the map it has just
  filled); both branches end in the same `SetOverallStatus`, so it leaves no
  trace in the model.
- The params and device controllers, when there is no design, set a condition
  on their copy and requeue without storing it.
- A controller has one worker (`MaxConcurrentReconciles` is the default) and
  the deployment one replica (`artifacts/deployment.yaml`), without leader
  election.
- `APIApply` and `APIDelete` of the resources library, finalizers, providers,
  SDCIO and kuid's backends are external and modelled from how they are used.
- The set of nodes is constant while the pipeline runs, and its design is never
  deleted.

### Properties of the pipeline

`ReadyNeedsChildren`, `DevicesNotOlderThanUsed` and `ParamReadyHasClaims` are
invariants, and so is `OwnersHoldFinalizers`, checked as a part of
`OwnershipInvariant`; `UsedReferencesAdvance`,
`DeviceReadyUntilChange` and `DeployOnlyWhenReady` action properties;
`Converges` and `DeletionCompletes` liveness properties;
`ImplementsNetworkStatus` the refinement. `PipelineInvariant` and
`OwnershipInvariant` are the inductive invariants of the proofs and are checked
by TLC as well. Each is stated in words where it is defined.

### Fairness

`FairSpec` assumes weak fairness of each controller's next step (one worker per
controller that nothing blocks for good: requests return or fail), of each
informer, and of each external actor that retries until it succeeds (backends,
providers, SDCIO). Nothing is assumed of users, failures or restarts, which
`MaxEvents` bounds. Wake-ups come only from the watches and requeues the code
has; no resync period is assumed.

### LinkClaim

`links` and `owner` are the stored Links and the claim of each stored Endpoint;
`linkCache`, `epCache` what the informers show, `linkStale`, `epStale` where
they lag behind. `worker` is the reconcile in progress: its place (`pc`),
whether its copy of the Link can still be written (`fresh`), the Endpoints left
to claim or release and which of the copies taken by `getEndpoints` can still be
written. The actions are the requests of `link/reconciler.go`:

| action | code |
| --- | --- |
| `Start(l)` | `Reconcile` up to the first request; `GetEndpoints` when the finalizer is there |
| `AddFinalizer(l)` | `finalizer.AddFinalizer`, then `getEndpoints` |
| `Claim(l)` | one round of the loop of `apply`; the first error starts `delete` |
| `Release(l)` | `releaseEndpoint` of one end, after a failed apply or for a deleted Link |
| `RemoveFinalizer(l)`, `Report(l)` | the request that ends the reconcile |
| `SyncLink`, `SyncEndpoint` | informers; `Watchers` is `EndpointEventHandler` |
| `CreateLink`, `DeleteLink` | users |
| `CreateEndpoint`, `TouchEndpoint`, `RemoveEndpoint` | the inventory (external) |
| `RequestFails`, `Restart` | failures, lost answers included |

Delays (`RequeueAfter`) are not timed: a Link that is requeued may start at
once. A write that records another failure may or may not be a new version,
since messages are not kept apart.

`LinkInvariant` is the inductive invariant of the proofs.
`EndpointsChangeHands` (no claim passes from one Link to another without a
release by its holder), `ClaimNeedsFinalizer` and `ReadyMeansClaimed` are safety
properties. `DeletedLinksGo` and `LinksSettle` are liveness properties.
`LinksSettle` has a proviso: in the end, reconciles start from up-to-date
Endpoints. It is needed. The write of a condition wakes the Link itself, and a
reconcile that starts before the informer has delivered the claims conflicts on
them, undoes nothing that it can see, records Failed and is queued again; if
the informer stays behind each time, the Link flaps for ever. The retries after
1 and 5 seconds make that unlikely but not impossible.

What the code does *not* promise, and no property states: a Failed Link may
still hold an end (the undo reads a cache that shows it free); two Links with
both ends in common may each keep one that way and wait for the other; a Link
deleted while the cache does not show its claim leaves it on the Endpoint. These
are listed as hazards or noted under "Noticed while modelling".

Fairness: the worker goes on, the work queue serves each queued Link (strong
fairness of `Start(l)`, since the one worker is shared), the informers deliver.

### Lease

`lease` is the stored Lease (holder and renew time), `cache` and `current` each
process's view of it, `fresh` the copies that can still be written, `pc` the
place of each process in `AcquireLease` or after it. `now` is ideal time; the
clock of `p` shows `now + Skew[p]`, at most `MaxSkew` ahead, and `since` is the
ideal time at which `p` read it. `Get`/`Create`/`Check`/`Update` are the
requests and decisions of `AcquireLease` in their order, `Finish` the end of the
caller's reconcile: nothing releases or renews the lease.

A holder may *rely* on the lease until `Duration` after it read its clock, less
`MaxSkew` for the clocks of the others. `LeaseExclusive` says that two
identities never rely on it at once, `NoEarlyTakeover` that it is not taken from
one that does. A process that works longer than that is not protected, and
processes of the same identity do not exclude one another: the package
controller gives its own name, so an old pod and its replacement share the
lease (`MCLease` has both and a third process of another identity). No progress
is claimed: two identities may keep each other waiting.

### NetworkPackage

`revs` are the stored `PackageRevision`s of one package (phase, whether the
gates of other controllers are done, finalizer, condition), `revCache` the
informer's view, `output` the configs in each package; `pkgPc`, `rev`, `copy`
and `pkgQueue` are the one worker. Revision `r` carries the same Network with
spec `r`, the generation `r` of `NetworkPipeline`. No stored value of a revision
returns once it is left, so a copy can be written exactly if it equals the
stored one. The actions are the requests of `Reconcile` in their order: `Take`,
`PkgAddFinalizer`, `ApplyNetworkCR` (create or update), `CheckNetwork`,
`ReportReady`, `ExportConfigs`, `PkgStatus` or `PkgFail`; `PkgDelete` and
`PkgRemoveFinalizer`.

`CreateNetwork` always ends in an error: after a successful create the code
updates the empty object that its `Get` returned. The retry finds the Network
and goes on, so every new package fails once (`PackagesSettle` shows that it
recovers). The network controller returns at once for a GitOps Network and its
steps are left out of `Pipeline`. A revision is published when the one before it
is ready. A Network is created only when nothing of an earlier one of that name
is left (`NothingLeft`).

Fairness is that of the pipeline and of the package worker; the caches of
devices and revisions, the backends and the garbage collector are weakly fair
together (`Deliveries`), which is less than fairness to each. Every lease that
the worker waits for ends.

### Fabric, ContainerLab

`object` are the Topology and the NetworkDesign as stored (phase, which of its
specs, finalizer, condition), `cache` the informer's view, `owned` what each of
them owns, `ownedCache` what the caches list of that; `fresh` again has the
caches and copies that are up to date. `pc`, `copy` and `verdict` are the
reconcile in progress. One module has both controllers, since their `Reconcile`s
share `Take`, the finalizer, `Apply`, `Delete` and `Report`; what differs are
`TopologyGate` and `DesignGate` (with `IsTopologyReady`), the two applies of the
design (`index`, then the rest), and `Undo`, which only the design has.

- Owned objects are known by their names, built from `GetLabNodes`,
  `GetLabLinks`, `GetIPClaims`, `GetASClaims`. Their content is not modelled, nor
  are foreign writes to them.
- An `APIApply` or `APIDelete` is one step that a failing request may end
  anywhere (`ApplyFails`, `RequestFails`). Failures come in outages that hit one
  controller at a time and end; an outage counts as one event.
- The caches of the owned objects of one owner catch up together.
- A condition that is written again with the same message is no change and
  wakes nobody: that is why an error of the Topology that repeats itself is final.
- `CollectGarbage` is the cluster's, by owner references.
- No resync period is assumed: what depends on it never happens.

Fairness (`FairSpec`): each controller goes on (one worker each), each cache
catches up, outages end; nothing is assumed of users, failures and restarts.

### NetworkDesign, DeviceConfig, DeviceBuilder

`NetworkDesign` translates `networkdesign_interfaces.go` as operators on a
record. A claim is known by the parts of its name and stands for what is
assigned to it as well: two claims never get the same address. `DeviceConfig`
translates `device.go` and `devices.go`: a list that is updated by key is a
function from keys to elements, since the code sorts it. The interfaces of a
network instance are a sequence: that list alone is appended to and never sorted
(`Adjoin`). An IGP has one instance per network
instance, since its name comes from the design. Parameters that are only copied
are left out.

`DeviceBuilder` is a machine: `pending` are the links to process, `work` the
positions of the interfaces of bridges and routers that are left, taken in their
order (`Turn`), `nodes`, `nodeSet` the maps of the builder,
`edgeIPs` and `toPeer` the state of the reflector mesh, `devices` the result. Each
step handles one link, one reflector or one interface (`ProcessLink`,
`PeerEdges`, `PeerReflector`, `BridgeInterface`, `RouterInterface`), or ends the
build with an error or a panic; links, nodes and reflectors are taken in any
order, as from a Go map or a cache. The loop over the edges adds only entries
with keys of their own and is one step. `minRx` is one cell: the BFD parameters
of the design, which `getBFDLinkParameters` hands out by pointer; one timer
stands for the five. The device controller builds again at every reconcile, so
a behaviour has two builds from the same input and `built` keeps the first.
The claims that exist (`ParamClaims`) are those of the params controller, so
`SoundInputBuilds` checks the two ends of an agreement that the code keeps in
two places by formatting the same names. `InputsAssumption` is what the encoding
of inputs needs: an override of a timer has a value. `ListsAssumption` says that
bridges, routers and their interfaces are lists, so that one of them comes
first. `SessionsAgree` speaks of
well cabled topologies (`WellCabled`): two links between the same two nodes that
share one end share both, no endpoint is called `system0`, and a reflector is
named by a claim of a node. Without the first, one of two links that leave the
same endpoint overwrites the session of the other at the far end; without the
second, the loopback addresses are overwritten. All inputs of the runs are well
cabled.

## Runs

`CHECK_DEADLOCK FALSE` but for `lease`: once the Network is deployed or gone, the
Links, packages or objects are settled and the queues are empty, the system
really stops, and a build ends.

| run | instance | shows |
| --- | --- | --- |
| `pipeline` | 1 node, 2 specs, 2 designs, any one change, deletion, failure or restart, fair | the inductive invariants, all safety and action properties, the refinement of `NetworkStatus`, and that the Network ends up deployed, or gone once it is deleted |
| `pipeline_victory` | 1 node, one failing Config | *violation*, see below |
| `pipeline_param_reset` | 1 node, no events | *violation* |
| `pipeline_outdated` | 1 node, one spec change | *violation* |
| `link` | 2 Links between the same 2 Endpoints in opposite order; any one deletion, foreign write or removal, failed request or restart; fair | the inductive invariant; claims change hands only through a release and under a finalizer; Ready means claimed; deleted Links go; Links settle |
| `lease` | 3 processes, 2 identities, clocks 0 or 1 apart, duration 2, time up to 4 | the lease is exclusive and not taken early |
| `package_gitops` | 1 node, 2 revisions, the second may be withdrawn, a failed request or a restart, fair | the inductive invariant; no orphan Network, nothing exported and no Ready too early, every revision is finished or gone |
| `package_withdrawal` | no nodes, 2 revisions, both may be withdrawn, a restart, fair | every revision is finished or gone, and with the last one the Network |
| `package_configs` | 1 node, 2 revisions, no events | *violation* |
| `fabric` | 4 labs, 2 designs, one change of spec, deletion, outage or restart, fair | the inductive invariant, types included; nothing is owned without a finalizer; Ready means applied; what is needed stays; both objects settle |
| `builder` | 3 nodes, 2 to 4 links, all admitted addressings with mixtures of protocols, BFD and reflectors, overrides, foreign links, missing labels and claims; overlays of 0 to 2 bridges and routers | sessions agree, sound input builds, rebuilding changes at most the order of interfaces, services are complete |
| `builder_addressing` | the design of `3node-ipv4only` | *violation* |

Bounds. A safety property of the pipeline relates at most the references in
use, the ones a controller works with and the ones of the stored spec, so two
generations show every order between two of them. One node shows every
interleaving of the controllers. One event is enough for each kind of failure to
hit each step of each controller, but for the steps that another event has to
bring about: in `pipeline`, `link` and `fabric` no request fails and nothing restarts
during a deletion, and in `fabric` no restart hits an outage. There the
theorems hold for any number of events, and that progress follows is not
checked. In the two passing runs of packages a withdrawal is no event: a restart, and in
one of them a failed request, does hit it. Changes on top of changes and partial
states of several nodes are left to the theorems, which hold for any number of
nodes, generations and events.

Two Links between the same two Endpoints in opposite order are the smallest
conflict in which each may hold what the other needs. For the lease, a time of
twice the duration lets it be acquired, expire and be taken over, with every
order of two clock readings one tick apart; the theorems cover any number of
processes, clocks and durations.

Two revisions are one upgrade of a package. Withdrawing the second leaves the
first with a Network it no longer has or never gets back. Withdrawing both, in
either order and at any moment, is what `package_withdrawal` adds: the first may be
deleted while the second applies the Network, which is then created anew, and the
last one to go has to take it along. That run has a network without nodes (no
claims, no devices), which leaves the three controllers their conditions,
finalizers and retries; with a node there are more than 5 million states before
the first restart. What an owned object adds is in `package_gitops`, where the second
revision may be withdrawn. One Topology and
one design are all that each controller sees at a time; the four labs are one
that imports, one with a link that does not parse, one that is no lab and none;
an outage lets any number of requests fail. For the builder two edges and a core
give every role a node can have in a session, two parallel links and two links
of one node every way in which iterations share state.

## What the runs found

- **Ready is declared before victory** (`pipeline_victory`). The network
  controller sets `Ready` to False when Configs are processing or failed and
  then calls `SetOverallStatus`, which sees only the child conditions and sets
  it to True again (`network/reconciler.go:199-206`).
- **The device stage resets the parameters** (`pipeline_param_reset`).
  `NetworkDeviceFailed` builds a condition of type `NetworkParamReady`
  (`condition.go:114`). Each transient failure of the device controller, the
  claims not being ready on the first attempt included, sends the Network back
  to the parameters; `Converges` shows that it recovers.
- **Outdated configs are deployed** (`pipeline_outdated`). After a spec change
  the `NetworkDevice`s are rewritten but keep the `Ready` condition and the
  provider config of the previous spec, which are accepted at once. The network
  controller deploys them and is woken again by the provider's update, so
  the state is transient (`Converges`), but it is announced as `Ready`.
- **Packages get the configs of another spec** (`package_configs`). The same
  acceptance of old conditions, but here it is final: the package controller
  writes what the cache lists, the configs of the previous revision or none,
  and sets a condition that makes it return early from then on
  (`networkpackage/reconciler.go:176, 196`).
- **The addressings of the CRD and of the code differ** (`builder_addressing`).
  The CRD admits `ipv4only` and `ipv6only`, the predicates test for
  `ipv4numbered` and `ipv6numbered`, which it does not admit. The repository's own
  `3node-ipv4only` design enables no address family. The instance leaves out the
  reflector of that design; with it the build fails instead, because the claim
  that names the reflector is one of the family that is not enabled.

### Noticed while modelling

No document promises anything to the contrary, so no property states these; the
models have them where it says so.

Pipeline and packages:

- `network/reconciler.go:115`: a Network that gets the GitOps annotation after
  the network controller stored its finalizer is never released by it.
- `network/reconciler.go:268`: what was created just before a deletion and is not
  in the cache yet is left to the garbage collector.
- `networkparams/reconciler.go:92`: the watch on Links has the handler of Nodes,
  which drops every Link.
- `networkparams/reconciler.go:140`: claims are released independently of the
  configs that still use the addresses (modelled).
- `networkpackage/reconciler.go:137`: the identity in the lease is the name of the
  controller, so two pods share it (modelled in `Lease`).
- `networkpackage/reconciler.go:148`: a revision whose package lost its Network
  can never be deleted.
- `networkpackage/reconciler.go:269`: a Network that exists already is updated
  without getting the annotation.

Links, topology and design:

- `link/reconciler.go:132`: an undo that reads a stale Endpoint leaves a claim on
  it (modelled).
- `networkdesign/reconciler.go:211`: `delete` names the ASIndex twice and leaves
  the ASClaims out (modelled, `DeletedKinds`).
- `clabkuid.go:85`: one link that does not parse and no Link of the lab is
  created, while the Topology is Ready (modelled, `GetLabLinks`).
- `clabkuid.go:162`: a link to an excluded node is imported (modelled).
- `clabkuid.go:57, 217`: the namespace is always `default`, and the rack is read
  from the label of the region.

Builder:

- `builder.go:303`: a node without a device type label is not remembered, and
  the caller dereferences it (modelled, `LinkPanics`).
- `link.go:156`: an override of a BFD timer that the design lacks is a nil
  dereference (modelled, `LinkPanics`).
- `builder.go:113`: so is the address of an edge in a family it does not have
  (modelled, `EdgesPanic`).
- `api.go:70` and `networkparams/reconciler.go:325`: the `continue` goes on with
  the next endpoint, so links of other topologies are kept (modelled).
- `builder.go:789`: an IRB interface on a node where the bridge has no port makes
  an instance without a type (modelled).
- `devices.go:181`: the interfaces of a network instance are appended as the links
  come from the cache and, unlike the other lists, never sorted: the spec of the
  NetworkDevice of a node with two links may change from one reconcile to the
  next though nothing else did (modelled, `Adjoin`; excepted in
  `SameUpToOrder`).
- `device.go:346`: the levels of an ISIS interface are dropped (modelled).
- `networkdesign_interfaces.go:579`: the condition negates the loopback, unlike
  the one for IPv4 in line 574 (modelled); line 474: IBGP without an AS is AS 0.
- `builder.go:103, 132`: a reflector on an edge gets a session with itself, and
  reflectors do not peer with each other (modelled).

What the builder's properties except, because nothing in the repository says
what should happen, is there to be read in `SoundInput`, `WellCabled`,
`OrderMatters` and `WellFormedServices`: a node without a device type label and a link that
overrides a timer the design lacks make it panic; links of other topologies, and
EBGP without an AS pool, make it fail for ever; a reflector named in both
families, links that disagree on BFD, and timers overridden by several links make
its result depend on the order of iteration, beyond the order of the interfaces
of a network instance, which always does.

## What is proved

`NetworkPipelineProofs` proves, for every value of the constants that satisfies
`PipelineAssumption`:

- `TypeCorrect`: `TypeOK`.
- `PipelineCorrect`: `PipelineInvariant`, with `ReadyIsEarned`,
  `DevicesUpToDate` and the action properties `ReferencesAdvance`,
  `DeviceReadyStable`, `DeploysOnlyWhenReady` as consequences.
- `OwnershipCorrect`: `OwnershipInvariant`, with `OwnersAndClaims` and
  `ClaimsOfReadyParams`.

The argument. None of the safety properties is inductive: a controller may be
about to write a condition that no longer holds. What saves them is that such a
write is refused, so the invariant speaks of the copies in `fresh` only.
`CopiesInv` says that a copy is never ahead of the stored object and that a
fresh copy saw the spec, the finalizers and the deletion it acts on.
`StagesInv` says what a controller may conclude from a fresh copy: the device
controller is never about to write while `NetworkDeviceReady` holds, the params
controller never while `NetworkParamReady` holds, and when the *cache* shows
both children ready under the references of its own spec and the design of the
moment, the stored Network has both too, since references only advance and the
cached ones are squeezed between what is stored and what the design allows.
`DerivationsInv` carries that to the inputs the device controller works with.
`OwnershipInvariant` is separate: deletion and finalizers never go back, so a
decision to tear down, even one made on an old copy, is still right.

Per action there is one lemma, grouped by what the action may disturb
(`OwnStep` for steps that store nothing, `StatusWrite` for the updates that
land), and `StepMoves` collects what any step may do to the stored status; the
action properties follow from it.

`LeaseProofs` proves, for every value of the constants that satisfies
`LeaseAssumption`: `LeaseTypeCorrect` (`TypeOK`), `LeaseCorrect`
(`LeaseInvariant`), and from it `LeaseIsExclusive` and
`TakeoverOnlyAfterExpiry`. `LeaseExclusive` alone is not inductive: what matters
is an update that is about to be accepted. `LeaseInvariant` says that the stored
lease names the identity of whoever relies on it and is as recent as its
acquisition, that a copy that can still be written (`fresh`) either belongs to
that identity or was judged expired by its own clock, and that every acquisition
that is still relied on came before that judgement; the two clocks then differ by at
most `MaxSkew`, which is what `Reliable` leaves as a margin.

The last part of `NetworkPipelineProofs` is `PipelineImplementsStatus`: every behaviour of
`Spec` satisfies `ImplementsNetworkStatus`, the refinement that the run
`pipeline` checks. The abstract state is read off `net`, so the work is in the
steps. Most of them do not touch the stored status and stutter; the status
updates of the params and device controllers are `ParamsResult`,
`DevicesResult` or `DevicesFail`, those of the network controller `DetectChange`
or `Report`, a deletion is `Delete`, an error on the way to it `TeardownFails`.
One fact is needed that the invariants above do not give (`WritersInv`): a
controller whose write would land has seen the deletion if there is one, and the
device controller derives for parameters that are ready.

`NetworkPackageProofs` proves, for the package controller and the pipeline
together: `PackageTypes` (`PackageTypeOK`), `PackageCorrect`
(`PackageInvariant`), and from it `NoOrphans` (`NoOrphanNetwork`),
`GitOpsReadyIsEarned` (`ReadyNeedsChildren`) and `ExportsOnlyWhenReady`. The
invariants of the pipeline cannot be reused: in GitOps mode the network
controller does not run, `Ready` is written by another controller, and nobody
sums up after the other two. What makes it right is in `ReportInv`: a params or
device controller whose copy can still be written withdraws only a condition
that is not yet reported, and a copy of the package controller that can still
be written shows both children ready. `RevisionsInv` is about the finalizer of
the revisions: only the worker removes one, of a revision it has seen deleted,
after it has deleted the Network, so a live Network always has a revision that
will delete it.

`FabricProofs` proves, for any sequences of topologies and designs
(`FabricAssumption`: there is at least one of each): `FabricCorrect` and
`FabricInvariants` (`FabricInvariant`, which has the types), and from it
`FinalizersFirst` (`OwnersHoldFinalizer`), `ReadyAfterApply`
(`ReadyMeansApplied`) and `ClaimsAreSpared` (`NothingNeededIsReleased`).
`CopiesInv` says what a reconcile has seen of its object at each of its steps, that
the finalizer is stored before anything is owned, and that an object once
finalized stays so until it is gone (`Kept`); `AppliesInv` that
what an apply has reached is still there while the copy is up to date, since the
only one who takes it away is the same worker. `Local(o)` splits the invariant
by owner: a step of one controller leaves the part of the other alone
(`ElsewhereStep`), and each action has one lemma about its own.

`LinkClaimProofs` proves, for any Links and Endpoints (`LinkAssumption`: there
is a Link, each has two ends, and the values for a free and a missing Endpoint
are no Links):
`LinkTypes` (`TypeOK`), `LinkCorrect` (`LinkInvariant`), and from it
`ClaimsAreReleased` (`ClaimNeedsFinalizer`), `NoTakeover`
(`EndpointsChangeHands`) and `ReadyOnlyWhenClaimed` (`ReadyMeansClaimed`). The Endpoint copies of a reconcile
are as old as the cache was when it started, so the invariant says what the
refusal of stale writes leaves: a copy that can still be written shows the
Endpoint free or held by this Link (`WorkerInv`), an end already claimed is
still held unless the inventory removed it (`Held`), and what the cache is not
known to be behind on is as stored (`LinkCachesInv`).

`DeviceBuilderProofs` proves, for any inputs that satisfy `InputsAssumption`,
that is for every design, topology and overlay network: `BuildCorrect` and
`BuilderTypes` (`BuilderTypeOK`), and `SoundBuilds` (`SoundInputBuilds`). The
invariant (`GatherInv`) says that a node is remembered as the design and its
claims say, and that the shared timer stays set once the design has one; from
sound input every guard then finds what it asks for, the claims because those of
the params controller cover, for nodes, ends and reflectors, the ones asked for
(`NodesHaveClaims`, `EndsHaveClaims`, `ReflectorsHaveClaims`).

The same module proves `OverlaysComplete` (`OverlayComplete`). Its invariant
(`OverlayInv`) looks both ways: every item that was processed has what it asks
for on its device (`Serves`), and all that a device has comes from a processed
item (`ComesFromItems`), so that an instance without a type or a VPN is one that
only IRB interfaces of a bridge have joined so far. `BridgeTouches` and
`RouterTouches` reduce the two builders of an item to one relation (`Touches`)
that adds its sub-interface and undoes nothing; a later item could only replace
the sub-interface of an earlier one if both had the same key, and then they are
one item (`SubsTellItemsApart`). That lemma is where `WellFormedServices` is
needed, and the proof showed two of its parts: an interface of a bridge that
names a bridge is not a port, and a port called `irb0` would share the key of an
IRB interface. The argument does not use the order of the items.

`BuilderSessionProofs` proves `SessionsOfCablesAgree` (`SessionsAgree`). The
property is about finished builds; the invariant (`SessionsInv`) is about those
under way. Every device has its base configuration, and on each sub-interface
the addresses that belong to its name (`Made`), so an address tells the device
that has it. Every session is one over a link, and then the peer has its half
already, because both ends are configured in one step (`LinkSession`), or one
of the mesh, where the two halves are made by different loops (`MeshSession`):
`MeshInv` says that each edge has its half from the first loop, and each
reflector that was visited has its own from the second. A link may overwrite a
session of an earlier one; that it then overwrites both halves is where
`WellCabled` is needed (`LinkDevices`). Sessions of links are keyed by addresses
of endpoints, those of the mesh by loopbacks, so neither loop disturbs the other
(`LinkSessionKept`). The lemmas before that say what each operation of
`DeviceConfig` leaves alone (`Same`) or adds.

`BuilderOrderProofs` proves `RebuildsAreTheSameUpToOrder` (`SameUpToOrder`) for
any inputs that satisfy `InputsAssumption` and `ListsAssumption`: two builds may
differ in the order of the interfaces within a network instance, since the code
appends these in the order of the links, and in nothing else. It does not say that
a reconcile rewrites nothing. The property compares two behaviours of the builder
that have only the input in common, so the invariant (`OrderInv`, the theorem
`BuildsAreDeterminedUpToOrder`) says, but for that order, what a state of a build is
as a function of the input and of the *set* of what was walked:

- `UnderlayOf(ds, rx, L)` describes the configurations after the links in `L`,
  without their order. Every list of a device that is kept by key is the one of
  the base configuration after a set of writes, one for each end in `L` on that
  device (`Filled`): interfaces, sub-interfaces, BFD, OSPF areas, ISIS
  interfaces, BGP neighbors, dynamic neighbors and the peer group.
  `UnderlayUnique` shows that this leaves no choice, and `ProcessLinkFilled` that
  a link whose writes disagree with none of the others keeps it true. The writes
  could disagree on a shared endpoint, on BFD of the peer group and on the shared
  timer: these are parts of `OrderMatters`. Links of other topologies and a link
  from a node to itself are included; for the latter the base configuration is
  made twice, and the second time changes nothing (`BaseAgain`). Of the interface
  list it keeps the range only, so two descriptions of one set are `Alike`, and the
  sessions of reflectors added to configurations that are alike leave them so
  (`SessionsAlike`).
- `MeshOf` adds the sessions of the reflectors visited so far, which are all
  on different devices, the last part of `OrderMatters`
  (`PeerReflectorFilled`, `ReflectorsUnique`).
- The bridges and routers of another network are walked in one order only, but
  nothing describes what a step makes of the configurations except the step.
  The invariant (`HistoryInv`) has a history: a function from what was left to
  do to the configurations at that moment, which the first build extends
  (`HistoryGrows`) and in which the second one moves (`HistoryRepeats`), since
  one interface alone comes first (`FirstUnique`).

The invariant quantifies over all configurations and histories, which TLC cannot
enumerate; the run `builder` checks `SameUpToOrder` itself.

Only model-checked:

- the liveness properties `Converges`, `DeletionCompletes`, `LinksSettle`,
  `DeletedLinksGo`, `PackagesSettle`, `FabricSettles`: they rest on fairness and
  ENABLED, which the proof system does not handle;
- the violations, each of which is a behaviour and not a theorem.

## Not modelled

- Nodes and Links that join or leave under a running pipeline, and the watches on
  Nodes, Links and Endpoints for Networks: the sets are constant in
  `NetworkPipeline`.
- The content of claims, Nodes, Links and packages beyond what names them or
  what they are derived from; labels that are only copied; parameters of
  protocols that are only copied.
- The list of Endpoints of the containerlab import, which no controller asks for.
- Garbage collection beyond `CollectGarbage`, and a deletion that waits for it.
- Health checks, flags, logging, events, generated code and the helpers of tests.
- kuid's backends, providers of NetworkDevices, SDCIO, the package server and the
  resources library are external and modelled by how the code uses them.

## Plan

Done: `NetworkPipeline`, `NetworkStatus` and their proofs; `Lease` and its
proofs; `LinkClaim`; `NetworkPackage`; `Fabric` with `ContainerLab`; the device
builder with `NetworkDesign` and `DeviceConfig`; the proofs of the safety
properties of all of them, and of the refinement.

Left, in this order:

1. The hazards without a property, each with its reason in PROJECT.json; the
   first of them is a wake-up that the params controller answers with its early
   return.
2. Nodes that join and leave under the pipeline.
