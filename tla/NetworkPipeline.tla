-------------------------- MODULE NetworkPipeline --------------------------
(***************************************************************************)
(* The reconcile pipeline of one Network custom resource.                  *)
(*                                                                         *)
(* Three controllers of one manager process work on the same object:       *)
(*   "network"  NetworkController            (reconcilers/network)         *)
(*   "params"   NetworkParametersController  (reconcilers/networkparams)   *)
(*   "device"   NetworkDeviceController      (reconcilers/networkdevice)   *)
(* They exchange nothing but what they store in the API server: two child  *)
(* conditions of the Network hand the work from one to the next, and the   *)
(* objects they own (claims, NetworkDevices, Configs) carry the results.   *)
(*                                                                         *)
(* A step of a controller is at most one request to the API server, with   *)
(* the local work that precedes it.  Every read is served by the manager's *)
(* informer caches, which lag behind the server.  A write of the Network   *)
(* carries the resourceVersion of the copy it was made from and is refused *)
(* when the stored object has moved on; the model keeps no version numbers *)
(* but the set of copies that are still up to date.                        *)
(***************************************************************************)
EXTENDS Naturals

CONSTANTS
    Nodes,      \* nodes of the topology that terminate infrastructure links
    MaxSpec,    \* bound on the generations of the Network spec
    MaxDesign,  \* bound on the resourceVersions of the NetworkDesign
    EventKinds, \* the kinds of changes, failures and restarts that occur
    MaxEvents,  \* bound on their number
    IsDefault,  \* the network is the "default" one (Network.IsDefaultNetwork)
    GitOps      \* the network carries the annotation kuid.dev/gitops

\* Changes by users, failures of the providers of NetworkDevices and
\* Configs, failed requests of a controller, restarts of the manager.
AllEventKinds == {"spec", "design", "delete", "provider", "sdcio", "request",
                  "restart"}

ASSUME PipelineAssumption ==
    /\ MaxSpec \in Nat /\ MaxSpec >= 1
    /\ MaxDesign \in Nat /\ MaxDesign >= 1
    /\ EventKinds \subseteq AllEventKinds
    /\ MaxEvents \in Nat
    /\ IsDefault \in BOOLEAN
    /\ GitOps \in BOOLEAN

VARIABLES
    net,       \* the Network as the API server stores it
    cache,     \* the Network as the informer cache shows it
    fresh,     \* copies of the Network whose resourceVersion is the stored one
    design,    \* resourceVersion of the topology's default NetworkDesign, 0: none
    claims,    \* IPClaims and ASClaim of each node
    devices,   \* NetworkDevice of each node, in the API server
    devCache,  \* ... in the informer cache
    configs,   \* SDCIO Config of each node, in the API server
    cfgCache,  \* ... in the informer cache
    pc,        \* the request each controller sends next
    work,      \* the inputs its copy of the Network gave it
    queue,     \* controllers whose work queue holds the Network
    events     \* changes, failures and restarts so far

vars == <<net, cache, fresh, design, claims, devices, devCache,
          configs, cfgCache, pc, work, queue, events>>

children == <<claims, devices, devCache, configs, cfgCache>>

-----------------------------------------------------------------------------
(* The objects.                                                            *)

Controllers == {"network", "params", "device"}

\* A condition is absent, True, or False with reason Processing or Failed.
Conditions == {"Unknown", "Ready", "Processing", "Failed"}

\* What a derivation starts from: a generation of the Network spec and a
\* resourceVersion of the design.  It stands for the content of everything
\* derived from it, and for Status.UsedReferences.
Inputs   == [spec : 0 .. MaxSpec, design : 0 .. MaxDesign]
NoInputs == [spec |-> 0, design |-> 0]

NotOlder(a, b) == a.spec >= b.spec /\ a.design >= b.design

NetworkObject ==
    [phase : {"live", "deleting", "gone"}, spec : 1 .. MaxSpec,
     fins : SUBSET Controllers, param : Conditions, dev : Conditions,
     ready : Conditions, used : Inputs]

NewNetwork ==
    [phase |-> "live", spec |-> 1, fins |-> {}, param |-> "Unknown",
     dev |-> "Unknown", ready |-> "Unknown", used |-> NoInputs]

\* from: what the device spec was derived from; prov: what the provider's
\* config in the status was computed from; st: the Ready condition.
DeviceObject == [from : Inputs, prov : Inputs, st : Conditions]
NoDevice     == [from |-> NoInputs, prov |-> NoInputs, st |-> "Unknown"]

ConfigObject == [from : Inputs, st : Conditions]
NoConfig     == [from |-> NoInputs, st |-> "Unknown"]

Exists(o) == o.from # NoInputs

PCs == {"idle", "finalize", "delete", "unfinalize", "reset", "pending",
        "apply", "status", "fail"}

TypeOK ==
    /\ net \in NetworkObject
    /\ cache \in NetworkObject
    /\ fresh \in SUBSET (Controllers \cup {"cache"})
    /\ design \in 0 .. MaxDesign
    /\ claims \in [Nodes -> {"none", "pending", "ready"}]
    /\ devices \in [Nodes -> DeviceObject]
    /\ devCache \in [Nodes -> DeviceObject]
    /\ configs \in [Nodes -> ConfigObject]
    /\ cfgCache \in [Nodes -> ConfigObject]
    /\ pc \in [Controllers -> PCs]
    /\ work \in [Controllers -> Inputs]
    /\ queue \in SUBSET Controllers
    /\ events \in 0 .. MaxEvents

Init ==
    /\ net = NewNetwork
    /\ cache = NewNetwork
    /\ fresh = {"cache"}
    /\ design \in {0, 1}
    /\ claims = [n \in Nodes |-> "none"]
    /\ devices = [n \in Nodes |-> NoDevice]
    /\ devCache = [n \in Nodes |-> NoDevice]
    /\ configs = [n \in Nodes |-> NoConfig]
    /\ cfgCache = [n \in Nodes |-> NoConfig]
    /\ pc = [c \in Controllers |-> "idle"]
    /\ work = [c \in Controllers |-> NoInputs]
    /\ queue = Controllers
    /\ events = 0

-----------------------------------------------------------------------------
(* Conditions of the Network.                                              *)

IsFalse(condition) == condition # "Ready"

\* Variant: stops at the first child condition.
AreChildConditionsReadyParamOnly(cr) == ~IsFalse(cr.param)

AreChildConditionsReady(cr) == ~IsFalse(cr.param) /\ ~IsFalse(cr.dev)

\* Variant: forgets the device condition.
SetOverallStatusParamOnly(cr) ==
    [cr EXCEPT !.ready = IF IsFalse(cr.param) THEN "Failed" ELSE "Ready"]

\* The last word on the Ready condition in every status the network
\* controller writes, whatever it had set before.
SetOverallStatus(cr) ==
    [cr EXCEPT !.ready =
        IF IsFalse(cr.param) \/ IsFalse(cr.dev) THEN "Failed" ELSE "Ready"]

\* Variant: a reason that is none of the API's.
NetworkParamFailedUnknownReason(cr) == [cr EXCEPT !.param = "Error"]

NetworkParamFailed(cr) == [cr EXCEPT !.param = "Failed"]

\* NetworkDeviceFailed carries the type NetworkParamReady.
NetworkDeviceFailed(cr) == [cr EXCEPT !.param = "Failed"]

\* Variant: the device condition survives the change.
ResetParamConditionOnly(cr, refs) ==
    [cr EXCEPT !.used = refs, !.param = "Processing"]

\* hasConfigChanged records the references, Reconcile resets the children.
ResetChildConditions(cr, refs) ==
    [cr EXCEPT !.used = refs, !.param = "Processing", !.dev = "Processing"]

\* Variant: an error of the network controller forgets the references.
HandleErrorForgettingRefs(c, cr) ==
    CASE c = "network" ->
            SetOverallStatus([cr EXCEPT !.ready = "Failed", !.used = NoInputs])
      [] c = "params"  -> NetworkParamFailed(cr)
      [] c = "device"  -> NetworkDeviceFailed(cr)

\* handleError of each controller, on the copy it holds.
HandleError(c, cr) ==
    CASE c = "network" -> SetOverallStatus([cr EXCEPT !.ready = "Failed"])
      [] c = "params"  -> NetworkParamFailed(cr)
      [] c = "device"  -> NetworkDeviceFailed(cr)

-----------------------------------------------------------------------------
(* Reads and writes of the Network.                                        *)

\* The reconcile returns and leaves q in the work queues.
Return(c, q) ==
    /\ pc' = [pc EXCEPT ![c] = "idle"]
    /\ work' = [work EXCEPT ![c] = NoInputs]
    /\ queue' = q

\* The reconcile goes on to the request `to', with the inputs refs.
Goto(c, to, refs, q) ==
    /\ pc' = [pc EXCEPT ![c] = to]
    /\ work' = [work EXCEPT ![c] = refs]
    /\ queue' = q

Requeue(c) == queue \cup {c}

\* Status().Update from an up-to-date copy puts every other copy out of date;
\* a write that changes nothing leaves the resourceVersion alone.  It is the
\* last request of every reconcile that sends one: a conflict is an error and
\* queues the Network again.
StatusUpdate(c, new, q) ==
    \/ /\ c \in fresh
       /\ net' = new
       /\ fresh' = IF new = net THEN fresh \ {c} ELSE {}
       /\ Return(c, q)
    \/ /\ c \notin fresh
       /\ UNCHANGED <<net, fresh>>
       /\ Return(c, Requeue(c))

-----------------------------------------------------------------------------
(* From the copy cr of a live Network that has the controller's finalizer  *)
(* to the next request.  q is the queue without this reconcile's request.  *)

CurrentRefs(cr) == [spec |-> cr.spec, design |-> design]

NetworkProceed(cr, q) ==
    \/ /\ design = 0
       /\ Goto("network", "fail", NoInputs, q)
    \/ /\ design # 0
       /\ cr.used # CurrentRefs(cr)
       /\ Goto("network", "reset", CurrentRefs(cr), q)
    \/ /\ design # 0
       /\ cr.used = CurrentRefs(cr)
       /\ ~AreChildConditionsReady(cr)
       /\ Goto("network", "pending", NoInputs, q)
    \/ /\ design # 0
       /\ cr.used = CurrentRefs(cr)
       /\ AreChildConditionsReady(cr)
       /\ Goto("network", "apply", NoInputs, q)

\* Without a design the params and device controllers set a condition on
\* their copy, do not store it, and requeue.
ParamsProceed(cr, q) ==
    \/ /\ design = 0
       /\ Return("params", q \cup {"params"})
    \/ /\ design # 0
       /\ Goto("params", "apply", NoInputs, q)

\* Variant: derives again although NetworkDeviceReady holds.
DeviceProceedAlways(cr, q) ==
    \/ /\ IsFalse(cr.param)
       /\ Return("device", q)
    \/ /\ ~IsFalse(cr.param)
       /\ design = 0
       /\ Return("device", q \cup {"device"})
    \/ /\ ~IsFalse(cr.param)
       /\ design # 0
       /\ Goto("device", "apply", CurrentRefs(cr), q)

\* Variant: does not wait for the parameters.
DeviceProceedEarly(cr, q) ==
    \/ /\ ~IsFalse(cr.dev)
       /\ Return("device", q)
    \/ /\ IsFalse(cr.dev)
       /\ design = 0
       /\ Return("device", q \cup {"device"})
    \/ /\ IsFalse(cr.dev)
       /\ design # 0
       /\ Goto("device", "apply", CurrentRefs(cr), q)

DeviceProceed(cr, q) ==
    \/ /\ IsFalse(cr.param) \/ ~IsFalse(cr.dev)
       /\ Return("device", q)
    \/ /\ ~IsFalse(cr.param) /\ IsFalse(cr.dev)
       /\ design = 0
       /\ Return("device", q \cup {"device"})
    \/ /\ ~IsFalse(cr.param) /\ IsFalse(cr.dev)
       /\ design # 0
       /\ Goto("device", "apply", CurrentRefs(cr), q)

Proceed(c, cr, q) ==
    \/ c = "network" /\ NetworkProceed(cr, q)
    \/ c = "params"  /\ ParamsProceed(cr, q)
    \/ c = "device"  /\ DeviceProceed(cr, q)

\* Variant: the params controller returns before it looks at the deletion.
ActsNotWhenParamsReady(c, cr) ==
    \/ cr.phase = "gone"
    \/ c = "network" /\ GitOps
    \/ c = "params" /\ ~IsFalse(cr.param)

\* Early returns that precede the deletion branch, and, for the params
\* controller, the one that precedes AddFinalizer.
ActsNot(c, cr) ==
    \/ cr.phase = "gone"
    \/ c = "network" /\ GitOps
    \/ c = "params" /\ cr.phase = "live" /\ ~IsFalse(cr.param)

\* Reconcile takes the Network from the work queue and a copy from the cache.
Start(c) ==
    /\ pc[c] = "idle"
    /\ c \in queue
    /\ LET q == queue \ {c} IN
       \/ /\ ActsNot(c, cache)
          /\ Return(c, q)
       \/ /\ ~ActsNot(c, cache)
          /\ cache.phase = "deleting"
          /\ Goto(c, "delete", NoInputs, q)
       \/ /\ ~ActsNot(c, cache)
          /\ cache.phase = "live" /\ c \notin cache.fins
          /\ Goto(c, "finalize", NoInputs, q)
       \/ /\ ~ActsNot(c, cache)
          /\ cache.phase = "live" /\ c \in cache.fins
          /\ Proceed(c, cache, q)
    /\ fresh' = IF "cache" \in fresh /\ pc'[c] # "idle"
                THEN fresh \cup {c} ELSE fresh
    /\ UNCHANGED <<net, cache, design, children, events>>

\* Variant: the finalizer is added to the copy and never stored.
AddFinalizerToCopy(c) ==
    /\ pc[c] = "finalize"
    /\ Proceed(c, cache, queue)
    /\ fresh' = IF pc'[c] = "idle" THEN fresh \ {c} ELSE fresh
    /\ UNCHANGED <<net, cache, design, children, events>>

\* AddFinalizer: on success the copy is the object just stored.
AddFinalizer(c) ==
    /\ pc[c] = "finalize"
    /\ \/ LET new == [net EXCEPT !.fins = @ \cup {c}] IN
          /\ c \in fresh
          /\ net' = new
          /\ Proceed(c, new, queue)
          /\ fresh' = IF pc'[c] = "idle" THEN {} ELSE {c}
       \/ /\ c \notin fresh
          /\ Goto(c, "fail", NoInputs, queue)
          /\ UNCHANGED <<net, fresh>>
    /\ UNCHANGED <<cache, design, children, events>>

\* handleError, then Status().Update and a requeue, at once or in 2 seconds.
Fail(c) ==
    /\ pc[c] = "fail"
    /\ StatusUpdate(c, HandleError(c, net), Requeue(c))
    /\ UNCHANGED <<cache, design, children, events>>

-----------------------------------------------------------------------------
(* Owned objects.  resources.APIApply(owner) creates or updates what is new *)
(* and deletes what the cache lists as owned and is not new; an update     *)
(* leaves the object's status as it is.  APIDelete deletes what the cache  *)
(* lists as owned.  S is the set of nodes whose objects were reached before *)
(* the call ended.                                                         *)

\* Variant: the branches for default and other networks are swapped.
ApplyClaimsOfOtherNetworks(S) ==
    /\ claims' = [n \in Nodes |->
          IF n \in S /\ ~IsDefault /\ claims[n] = "none"
          THEN "pending" ELSE claims[n]]
    /\ UNCHANGED <<devices, devCache, configs, cfgCache>>

ApplyClaims(S) ==
    /\ claims' = [n \in Nodes |->
          IF n \in S /\ IsDefault /\ claims[n] = "none"
          THEN "pending" ELSE claims[n]]
    /\ UNCHANGED <<devices, devCache, configs, cfgCache>>

ApplyDevices(S, refs) ==
    /\ devices' = [n \in Nodes |->
          IF n \in S THEN [devices[n] EXCEPT !.from = refs] ELSE devices[n]]
    /\ UNCHANGED <<claims, devCache, configs, cfgCache>>

\* The config comes from the status of the NetworkDevice, as the cache has it.
ApplyConfigs(S) ==
    /\ configs' = [n \in Nodes |->
          IF n \notin S THEN configs[n]
          ELSE IF Exists(devCache[n])
               THEN [configs[n] EXCEPT !.from = devCache[n].prov]
               ELSE IF Exists(cfgCache[n]) THEN NoConfig ELSE configs[n]]
    /\ UNCHANGED <<claims, devices, devCache, cfgCache>>

DeleteChildren(c, S) ==
    \/ /\ c = "params"
       /\ claims' = [n \in Nodes |-> IF n \in S THEN "none" ELSE claims[n]]
       /\ UNCHANGED <<devices, devCache, configs, cfgCache>>
    \/ /\ c = "device"
       /\ devices' = [n \in Nodes |->
             IF n \in S /\ Exists(devCache[n]) THEN NoDevice ELSE devices[n]]
       /\ UNCHANGED <<claims, devCache, configs, cfgCache>>
    \/ /\ c = "network"
       /\ configs' = [n \in Nodes |->
             IF n \in S /\ Exists(cfgCache[n]) THEN NoConfig ELSE configs[n]]
       /\ UNCHANGED <<claims, devices, devCache, cfgCache>>

\* DeviceBuilder.Build of the default network needs every claim to be ready.
BuildSucceeds == IsDefault => \A n \in Nodes : claims[n] = "ready"

\* A NetworkDevice without a provider config fails apply before it starts.
ConfigsAvailable ==
    \A n \in Nodes : Exists(devCache[n]) => devCache[n].prov # NoInputs

\* A claim that was created is an event for the controller that owns it.
ClaimWatchers == {"params"}

Apply(c, S) ==
    \/ /\ c = "params"
       /\ ApplyClaims(S)
    \/ /\ c = "device"
       /\ BuildSucceeds
       /\ ApplyDevices(S, work["device"])
    \/ /\ c = "network"
       /\ ConfigsAvailable
       /\ ApplyConfigs(S)

ApplyEvents(c) ==
    IF c = "params" /\ claims' # claims THEN queue \cup ClaimWatchers ELSE queue

ApplyChildren(c) ==
    /\ pc[c] = "apply"
    /\ Apply(c, Nodes)
    /\ Goto(c, "status", NoInputs, ApplyEvents(c))
    /\ UNCHANGED <<net, cache, fresh, design, events>>

\* Nothing was sent: the inputs of the derivation are incomplete.
ApplyRefused(c) ==
    /\ pc[c] = "apply"
    /\ \/ c = "device" /\ ~BuildSucceeds
       \/ c = "network" /\ ~ConfigsAvailable
    /\ Goto(c, "fail", NoInputs, queue)
    /\ UNCHANGED <<net, cache, fresh, design, children, events>>

Delete(c) ==
    /\ pc[c] = "delete"
    /\ DeleteChildren(c, Nodes)
    /\ Goto(c, "unfinalize", NoInputs, queue)
    /\ UNCHANGED <<net, cache, fresh, design, events>>

\* RemoveFinalizer sends nothing when the copy lacks the finalizer; the
\* object disappears with its last finalizer.
RemoveFinalizer(c) ==
    /\ pc[c] = "unfinalize"
    /\ \/ /\ c \in fresh /\ c \in net.fins
          /\ net' = [net EXCEPT !.fins = @ \ {c},
                                !.phase = IF net.fins = {c} THEN "gone" ELSE @]
          /\ fresh' = {}
          /\ Return(c, queue)
       \/ /\ c \notin net.fins
          /\ fresh' = fresh \ {c}
          /\ Return(c, queue)
          /\ UNCHANGED net
       \/ /\ c \notin fresh
          /\ Goto(c, "fail", NoInputs, queue)
          /\ UNCHANGED <<net, fresh>>
    /\ UNCHANGED <<cache, design, children, events>>

-----------------------------------------------------------------------------
(* The status each controller writes at the end.                           *)

ParamsStatus ==
    /\ pc["params"] = "status"
    /\ StatusUpdate("params", [net EXCEPT !.param = "Ready"], queue)
    /\ UNCHANGED <<cache, design, children, events>>

\* AreAllDeviceConfigsReady, over the owned objects the cache lists.
NotReady(objects) == {n \in Nodes : Exists(objects[n]) /\ IsFalse(objects[n].st)}
Failures(objects) == {n \in NotReady(objects) : objects[n].st = "Failed"}

DeviceResult(cr) ==
    IF NotReady(devCache) = {} THEN [cr EXCEPT !.dev = "Ready"]
    ELSE IF Failures(devCache) # {} THEN NetworkDeviceFailed(cr)
    ELSE [cr EXCEPT !.dev = "Processing"]

DeviceStatus ==
    /\ pc["device"] = "status"
    /\ StatusUpdate("device", DeviceResult(net), queue)
    /\ UNCHANGED <<cache, design, children, events>>

\* The verdict on the Configs is written to the copy, and SetOverallStatus
\* then replaces it.
NetworkResult(cr) ==
    SetOverallStatus(
        IF NotReady(cfgCache) = {} THEN [cr EXCEPT !.ready = "Ready"]
        ELSE IF Failures(cfgCache) # {} THEN [cr EXCEPT !.ready = "Failed"]
        ELSE [cr EXCEPT !.ready = "Processing"])

NetworkStatus ==
    /\ \/ /\ pc["network"] = "reset"
          /\ StatusUpdate("network",
                SetOverallStatus(ResetChildConditions(net, work["network"])), queue)
       \/ /\ pc["network"] = "pending"
          /\ StatusUpdate("network", SetOverallStatus(net), queue)
       \/ /\ pc["network"] = "status"
          /\ StatusUpdate("network", NetworkResult(net), queue)
    /\ UNCHANGED <<cache, design, children, events>>

Status(c) ==
    \/ c = "params"  /\ ParamsStatus
    \/ c = "device"  /\ DeviceStatus
    \/ c = "network" /\ NetworkStatus

Controller(c) ==
    \/ Start(c)
    \/ AddFinalizer(c)
    \/ ApplyChildren(c)
    \/ ApplyRefused(c)
    \/ Status(c)
    \/ Delete(c)
    \/ RemoveFinalizer(c)
    \/ Fail(c)

-----------------------------------------------------------------------------
(* Informers: the caches catch up and the watches of SetupWithManager and  *)
(* the event handlers put the Network into work queues.                    *)

NetworkWatchers == Controllers
DesignWatchers  == {"network"}
ConfigWatchers  == {"network"}

\* Variant: the device controller does not watch the NetworkDevices it applies.
DeviceReadersOnly == {"network"}

DeviceWatchers == {"device", "network"}

SyncNetwork ==
    /\ "cache" \notin fresh
    /\ cache' = net
    /\ fresh' = fresh \cup {"cache"}
    /\ queue' = queue \cup NetworkWatchers
    /\ UNCHANGED <<net, design, children, pc, work, events>>

SyncDevice(n) ==
    /\ devCache[n] # devices[n]
    /\ devCache' = [devCache EXCEPT ![n] = devices[n]]
    /\ queue' = queue \cup DeviceWatchers
    /\ UNCHANGED <<net, cache, fresh, design, claims, devices, configs,
                   cfgCache, pc, work, events>>

SyncConfig(n) ==
    /\ cfgCache[n] # configs[n]
    /\ cfgCache' = [cfgCache EXCEPT ![n] = configs[n]]
    /\ queue' = queue \cup ConfigWatchers
    /\ UNCHANGED <<net, cache, fresh, design, claims, devices, devCache,
                   configs, pc, work, events>>

-----------------------------------------------------------------------------
(* The rest of the cluster: kuid's IPAM and AS backends, the provider of   *)
(* the NetworkDevices, SDCIO, users, and the failures of requests and of   *)
(* the manager process.                                                    *)

ClaimReady(n) ==
    /\ claims[n] = "pending"
    /\ claims' = [claims EXCEPT ![n] = "ready"]
    /\ queue' = queue \cup ClaimWatchers
    /\ UNCHANGED <<net, cache, fresh, design, devices, devCache, configs,
                   cfgCache, pc, work, events>>

ProviderReconcile(n) ==
    LET d == devices[n] IN
    /\ Exists(d)
    /\ d.st # "Ready" \/ d.prov # d.from
    /\ devices' = [devices EXCEPT ![n].prov = d.from, ![n].st = "Ready"]
    /\ UNCHANGED <<net, cache, fresh, design, claims, devCache, configs,
                   cfgCache, pc, work, queue, events>>

ConfigReconcile(n) ==
    /\ Exists(configs[n])
    /\ configs[n].st # "Ready"
    /\ configs' = [configs EXCEPT ![n].st = "Ready"]
    /\ UNCHANGED <<net, cache, fresh, design, claims, devices, devCache,
                   cfgCache, pc, work, queue, events>>

Event(kind) ==
    /\ kind \in EventKinds
    /\ events < MaxEvents
    /\ events' = events + 1

ProviderFails(n) ==
    /\ Event("provider")
    /\ Exists(devices[n])
    /\ devices' = [devices EXCEPT ![n].st = "Failed"]
    /\ UNCHANGED <<net, cache, fresh, design, claims, devCache, configs,
                   cfgCache, pc, work, queue>>

ConfigFails(n) ==
    /\ Event("sdcio")
    /\ Exists(configs[n])
    /\ configs' = [configs EXCEPT ![n].st = "Failed"]
    /\ UNCHANGED <<net, cache, fresh, design, claims, devices, devCache,
                   cfgCache, pc, work, queue>>

SpecChange ==
    /\ Event("spec")
    /\ net.phase = "live" /\ net.spec < MaxSpec
    /\ net' = [net EXCEPT !.spec = @ + 1]
    /\ fresh' = {}
    /\ UNCHANGED <<cache, design, children, pc, work, queue>>

DesignChange ==
    /\ Event("design")
    /\ design < MaxDesign
    /\ design' = design + 1
    /\ queue' = queue \cup DesignWatchers
    /\ UNCHANGED <<net, cache, fresh, children, pc, work>>

DeleteNetwork ==
    /\ Event("delete")
    /\ net.phase = "live"
    /\ net' = [net EXCEPT !.phase = IF net.fins = {} THEN "gone" ELSE "deleting"]
    /\ fresh' = {}
    /\ UNCHANGED <<cache, design, children, pc, work, queue>>

\* A request fails for another reason than a conflict: an apply or a delete
\* has reached only some of its objects, a status update none.
RequestFails(c) ==
    /\ Event("request")
    /\ \/ /\ pc[c] \in {"finalize", "unfinalize"}
          /\ Goto(c, "fail", NoInputs, queue)
          /\ UNCHANGED <<fresh, children>>
       \/ /\ pc[c] = "apply"
          /\ \E S \in SUBSET Nodes : Apply(c, S)
          /\ Goto(c, "fail", NoInputs, ApplyEvents(c))
          /\ UNCHANGED fresh
       \/ /\ pc[c] = "delete"
          /\ \E S \in SUBSET Nodes : DeleteChildren(c, S)
          /\ Goto(c, "fail", NoInputs, queue)
          /\ UNCHANGED fresh
       \/ /\ pc[c] \in {"reset", "pending", "status", "fail"}
          /\ Return(c, Requeue(c))
          /\ fresh' = fresh \ {c}
          /\ UNCHANGED children
    /\ UNCHANGED <<net, cache, design>>

\* The manager restarts: its caches are filled before the controllers start,
\* and every object listed is an event.
Restart ==
    /\ Event("restart")
    /\ cache' = net
    /\ devCache' = devices
    /\ cfgCache' = configs
    /\ fresh' = {"cache"}
    /\ pc' = [c \in Controllers |-> "idle"]
    /\ work' = [c \in Controllers |-> NoInputs]
    /\ queue' = Controllers
    /\ UNCHANGED <<net, design, claims, devices, configs>>

Cluster ==
    \/ \E n \in Nodes : \/ ClaimReady(n)
                        \/ ProviderReconcile(n)
                        \/ ConfigReconcile(n)
                        \/ ProviderFails(n)
                        \/ ConfigFails(n)
    \/ SpecChange
    \/ DesignChange
    \/ DeleteNetwork
    \/ \E c \in Controllers : RequestFails(c)
    \/ Restart

Informers ==
    \/ SyncNetwork
    \/ \E n \in Nodes : SyncDevice(n) \/ SyncConfig(n)

Next ==
    \/ \E c \in Controllers : Controller(c)
    \/ Informers
    \/ Cluster

Spec == Init /\ [][Next]_vars

\* A controller has one worker, which is never blocked for good; informers
\* deliver; the external controllers retry until they succeed.
Fairness ==
    /\ \A c \in Controllers : WF_vars(Controller(c))
    /\ WF_vars(SyncNetwork)
    /\ \A n \in Nodes :
          /\ WF_vars(SyncDevice(n))
          /\ WF_vars(SyncConfig(n))
          /\ WF_vars(ClaimReady(n))
          /\ WF_vars(ProviderReconcile(n))
          /\ WF_vars(ConfigReconcile(n))

FairSpec == Spec /\ Fairness

-----------------------------------------------------------------------------
(* Properties.                                                             *)

Live == net.phase = "live"

ChildrenReady == net.param = "Ready" /\ net.dev = "Ready"

\* Ready of a live Network implies both child conditions, although one
\* controller writes Ready and two others the conditions it summarises
\* (SetOverallStatus, NetworkDeviceFailed): none of them can land a write
\* made from a copy that predates the others'.
ReadyNeedsChildren ==
    Live /\ net.ready = "Ready" => ChildrenReady

\* NetworkDeviceReady means that every NetworkDevice was derived from inputs
\* no older than Status.UsedReferences, whatever was reapplied from a stale
\* copy since: no late reconcile of the device controller brings older
\* device configs back.
DevicesNotOlderThanUsed ==
    Live /\ net.dev = "Ready" =>
        \A n \in Nodes : Exists(devices[n]) => NotOlder(devices[n].from, net.used)

\* While the Network is live, no controller owns objects on its behalf
\* without holding a finalizer on it: AddFinalizer precedes every apply.
OwnersHoldFinalizers ==
    Live => /\ (\E n \in Nodes : claims[n] # "none")  => "params" \in net.fins
            /\ (\E n \in Nodes : Exists(devices[n]))  => "device" \in net.fins
            /\ (\E n \in Nodes : Exists(configs[n]))  => "network" \in net.fins

\* NetworkParamReady of the default network means that the claims of every
\* node have been stored by the params controller.
ParamReadyHasClaims ==
    Live /\ IsDefault /\ net.param = "Ready" =>
        \A n \in Nodes : claims[n] # "none"

\* Status.UsedReferences only moves forward (hasConfigChanged): a reset made
\* from an older copy or design never replaces the references of a newer one.
UsedReferencesAdvance == [][NotOlder(net'.used, net.used)]_vars

\* Only a detected change takes NetworkDeviceReady away ("the uber network
\* reconciler will change the condition if a change was detected",
\* networkdevice/reconciler.go).
DeviceReadyUntilChange ==
    [][Live /\ net.dev = "Ready" /\ net'.dev # "Ready"
         => net'.used # net.used]_vars

\* The same sentence in networkparams/reconciler.go, of NetworkParamReady.
ParamReadyUntilChange ==
    [][Live /\ net.param = "Ready" /\ net'.param # "Ready"
         => net'.used # net.used]_vars

PushesConfig(n) == configs'[n].from \notin {configs[n].from, NoInputs}

\* A Config is pushed only while the stored Network of the moment has both
\* child conditions, although the network controller checked them on a
\* cached copy.
DeployOnlyWhenReady ==
    [][Live /\ (\E n \in Nodes : PushesConfig(n)) => ChildrenReady]_vars

\* "If a change is detected a reconcile will be triggered and the child
\* status will be reset" (network_types.go), and configs are deployed after
\* "the specific network device configs needs to be derived"
\* (network/reconciler.go): no Config is pushed that was computed from inputs
\* older than the references in use.
NoOutdatedDeploy ==
    [][Live => \A n \in Nodes :
          PushesConfig(n) => NotOlder(configs'[n].from, net.used)]_vars

\* "After applying the configs to SDCIO, check the condition if all the
\* configs were successfull before we declare victory"
\* (network/reconciler.go): Ready is not set while a Config the controller
\* can see is not ready.
VictoryAfterConfigs ==
    [][Live /\ net.ready # "Ready" /\ net'.ready = "Ready"
         => NotReady(cfgCache) = {}]_vars

-----------------------------------------------------------------------------
(* Why the safety properties hold: an inductive invariant.                 *)

\* Copies: they are never ahead of the stored object, and one that is up to
\* date saw the spec the cache shows, finalizers and deletion included.
CopiesInv ==
    /\ "cache" \in fresh => cache = net
    /\ cache.spec <= net.spec
    /\ NotOlder(net.used, cache.used)
    /\ NotOlder(CurrentRefs(net), net.used)
    /\ \A c \in Controllers :
          c \in fresh =>
             /\ cache.spec = net.spec
             /\ pc[c] # "idle"
             /\ pc[c] = "finalize" => c \notin net.fins
             /\ pc[c] \in {"apply", "status"} => c \in net.fins
             /\ pc[c] \in {"delete", "unfinalize"} => ~Live

Writing == {"finalize", "apply", "status", "fail"}

\* Stages: who may still withdraw a condition, and what the network
\* controller may conclude from the cache.
StagesInv ==
    /\ Live /\ net.dev = "Ready" => "device" \in net.fins
    /\ Live /\ "device" \in fresh /\ pc["device"] \in Writing => net.dev # "Ready"
    /\ Live /\ "params" \in fresh /\ pc["params"] \in Writing => net.param # "Ready"
    /\ Live /\ AreChildConditionsReady(cache) /\ cache.used = CurrentRefs(cache)
          => ChildrenReady
    /\ Live /\ pc["network"] = "apply" => ChildrenReady
    /\ pc["network"] = "reset" /\ "network" \in fresh =>
          /\ work["network"] # net.used
          /\ NotOlder(work["network"], net.used)
          /\ NotOlder(CurrentRefs(net), work["network"])

\* Derivations: the inputs the device controller works with.
DerivationsInv ==
    /\ Live /\ net.dev = "Ready" =>
          /\ cache.spec >= net.used.spec
          /\ pc["device"] = "apply" => NotOlder(work["device"], net.used)
    /\ "device" \in fresh /\ pc["device"] = "apply" =>
          NotOlder(work["device"], net.used)
    /\ "device" \in fresh /\ pc["device"] = "status" =>
          \A n \in Nodes :
             Exists(devices[n]) => NotOlder(devices[n].from, net.used)

\* No step of a controller, a cache or the cluster leaves these states: a
\* write that lands was made from a copy that is still the stored Network.
PipelineInvariant ==
    /\ CopiesInv
    /\ StagesInv
    /\ DerivationsInv
    /\ ReadyNeedsChildren
    /\ DevicesNotOlderThanUsed

\* Deletion and finalizers never go back, so nothing is torn down under a
\* live Network, whatever stale copy a controller works from: what was
\* created stays, and its creator keeps its finalizer.
OwnershipInvariant ==
    /\ cache.phase # "live" => ~Live
    /\ Live => cache.fins \subseteq net.fins
    /\ \A c \in Controllers :
          /\ pc[c] \in {"delete", "unfinalize"} => ~Live
          /\ Live /\ pc[c] \in {"apply", "status"} => c \in net.fins
    /\ Live /\ IsDefault /\ pc["params"] = "status" =>
          \A n \in Nodes : claims[n] # "none"
    /\ OwnersHoldFinalizers
    /\ ParamReadyHasClaims

-----------------------------------------------------------------------------
(* Liveness and refinement.                                                *)

\* Once changes, failures and restarts are over, the pipeline settles: the
\* Network is Ready and every device runs what the current spec and design
\* give (or there is no design, or the Network is being deleted).
Deployed ==
    /\ net.ready = "Ready"
    /\ net.used = CurrentRefs(net)
    /\ \A n \in Nodes : configs[n] = [from |-> net.used, st |-> "Ready"]

Converges == <>[](Live /\ design # 0 => Deployed)

\* A deleted Network goes away, since every controller that holds a finalizer
\* releases it: there is always a later moment at which none waits for that.
DeletionCompletes == []<>(net.phase # "deleting")

\* The stored status moves as NetworkStatus says.
Abstract == INSTANCE NetworkStatus WITH
    phase <- net.phase, used <- net.used, param <- net.param,
    dev <- net.dev, ready <- net.ready

ImplementsNetworkStatus == Abstract!Spec

=============================================================================
