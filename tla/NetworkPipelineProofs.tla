----------------------- MODULE NetworkPipelineProofs -----------------------
(***************************************************************************)
(* Theorems about NetworkPipeline for every value of its constants.        *)
(***************************************************************************)
EXTENDS NetworkPipeline, TLAPS

-----------------------------------------------------------------------------
(* Types.                                                                  *)

\* The control state of the controllers.
ControlType ==
    /\ pc \in [Controllers -> PCs]
    /\ work \in [Controllers -> Inputs]
    /\ queue \in SUBSET Controllers

\* Leaving a reconcile or going on to a request keeps the control state typed.
LEMMA GotoType ==
    ASSUME ControlType, NEW c \in Controllers, NEW to \in PCs,
           NEW refs \in Inputs, NEW q \in SUBSET Controllers,
           Goto(c, to, refs, q)
    PROVE  ControlType'
  BY DEF ControlType, Goto

\* Where no input is needed the work record is still well typed.
LEMMA NoInputsType == NoInputs \in Inputs
  BY PipelineAssumption DEF NoInputs, Inputs

\* A reconcile that returns keeps the control state typed.
LEMMA ReturnType ==
    ASSUME ControlType, NEW c \in Controllers, NEW q \in SUBSET Controllers,
           Return(c, q)
    PROVE  ControlType' /\ pc'[c] = "idle"
  BY NoInputsType DEF ControlType, Return, PCs

\* The references a controller computes from a copy are inputs.
LEMMA RefsType ==
    ASSUME NEW cr \in NetworkObject, design \in 0 .. MaxDesign
    PROVE  CurrentRefs(cr) \in Inputs
  BY PipelineAssumption DEF CurrentRefs, NetworkObject, Inputs

\* Choosing the next request keeps the control state typed.
LEMMA ProceedType ==
    ASSUME ControlType, design \in 0 .. MaxDesign, NEW c \in Controllers,
           NEW cr \in NetworkObject, NEW q \in SUBSET Controllers,
           Proceed(c, cr, q)
    PROVE  ControlType'
<1> USE DEF PCs
<1>0. CurrentRefs(cr) \in Inputs /\ NoInputs \in Inputs
  BY RefsType, NoInputsType
<1>1. CASE c = "network" /\ NetworkProceed(cr, q)
  BY <1>0, <1>1, GotoType DEF NetworkProceed, Controllers
<1>2. CASE c = "params" /\ ParamsProceed(cr, q)
  <2>1. q \cup {"params"} \in SUBSET Controllers
    BY DEF Controllers
  <2>2. QED BY <1>0, <1>2, <2>1, GotoType, ReturnType DEF ParamsProceed
<1>3. CASE c = "device" /\ DeviceProceed(cr, q)
  <2>1. q \cup {"device"} \in SUBSET Controllers
    BY DEF Controllers
  <2>2. QED BY <1>0, <1>3, <2>1, GotoType, ReturnType DEF DeviceProceed
<1>4. QED BY <1>1, <1>2, <1>3 DEF Proceed

\* The results the controllers write are Networks.
LEMMA ResultTypes ==
    ASSUME NEW cr \in NetworkObject, NEW refs \in Inputs
    PROVE  /\ SetOverallStatus(cr) \in NetworkObject
           /\ NetworkParamFailed(cr) \in NetworkObject
           /\ NetworkDeviceFailed(cr) \in NetworkObject
           /\ ResetChildConditions(cr, refs) \in NetworkObject
           /\ \A c \in Controllers : HandleError(c, cr) \in NetworkObject
           /\ DeviceResult(cr) \in NetworkObject
           /\ NetworkResult(cr) \in NetworkObject
<1> USE DEF NetworkObject, Conditions
<1>1. \A x \in NetworkObject : SetOverallStatus(x) \in NetworkObject
  BY DEF SetOverallStatus
<1>2. NetworkParamFailed(cr) \in NetworkObject /\ NetworkDeviceFailed(cr) \in NetworkObject
  BY DEF NetworkParamFailed, NetworkDeviceFailed
<1>3. ResetChildConditions(cr, refs) \in NetworkObject
  BY DEF ResetChildConditions
<1>4. \A s \in Conditions : [cr EXCEPT !.ready = s] \in NetworkObject
  OBVIOUS
<1>5. HandleError("network", cr) \in NetworkObject
  BY <1>1, <1>4 DEF HandleError
<1>6. \A c \in Controllers : HandleError(c, cr) \in NetworkObject
  BY <1>2, <1>5 DEF HandleError, Controllers
<1>7. DeviceResult(cr) \in NetworkObject
  BY <1>2 DEF DeviceResult
<1>8. NetworkResult(cr) \in NetworkObject
  BY <1>1, <1>4 DEF NetworkResult
<1>9. QED BY <1>1, <1>2, <1>3, <1>6, <1>7, <1>8

\* A status update stores a Network and ends the reconcile.
LEMMA StatusUpdateType ==
    ASSUME TypeOK, NEW c \in Controllers, NEW new \in NetworkObject,
           NEW q \in SUBSET Controllers, StatusUpdate(c, new, q)
    PROVE  /\ net' \in NetworkObject
           /\ fresh' \in SUBSET (Controllers \cup {"cache"})
           /\ ControlType'
<1>1. ControlType /\ Requeue(c) \in SUBSET Controllers
  BY DEF TypeOK, ControlType, Requeue
<1>2. ControlType'
  BY <1>1, ReturnType DEF StatusUpdate
<1>3. QED BY <1>2 DEF StatusUpdate, TypeOK

\* Objects that an apply reached, all of them or some, are typed.
LEMMA ApplyTypes ==
    ASSUME TypeOK, NEW c \in Controllers, NEW S \in SUBSET Nodes, Apply(c, S)
    PROVE  /\ claims' \in [Nodes -> {"none", "pending", "ready"}]
           /\ devices' \in [Nodes -> DeviceObject]
           /\ devCache' \in [Nodes -> DeviceObject]
           /\ configs' \in [Nodes -> ConfigObject]
           /\ cfgCache' \in [Nodes -> ConfigObject]
           /\ ApplyEvents(c) \in SUBSET Controllers
<1>0. NoInputs \in Inputs /\ work["device"] \in Inputs
  BY NoInputsType DEF TypeOK, Controllers
<1>1. ApplyEvents(c) \in SUBSET Controllers
  BY DEF ApplyEvents, ClaimWatchers, Controllers, TypeOK
<1>2. CASE ApplyClaims(S)
  BY <1>1, <1>2 DEF ApplyClaims, TypeOK
<1>3. CASE ApplyDevices(S, work["device"])
  BY <1>0, <1>1, <1>3 DEF ApplyDevices, TypeOK, DeviceObject
<1>4. CASE ApplyConfigs(S)
  BY <1>0, <1>1, <1>4 DEF ApplyConfigs, TypeOK, DeviceObject, ConfigObject, NoConfig, Conditions
<1>5. QED BY <1>2, <1>3, <1>4 DEF Apply

\* So are the objects left by a delete.
LEMMA DeleteTypes ==
    ASSUME TypeOK, NEW c \in Controllers, NEW S \in SUBSET Nodes,
           DeleteChildren(c, S)
    PROVE  /\ claims' \in [Nodes -> {"none", "pending", "ready"}]
           /\ devices' \in [Nodes -> DeviceObject]
           /\ devCache' \in [Nodes -> DeviceObject]
           /\ configs' \in [Nodes -> ConfigObject]
           /\ cfgCache' \in [Nodes -> ConfigObject]
<1>0. NoInputs \in Inputs
  BY NoInputsType
<1>1. QED BY <1>0 DEF DeleteChildren, TypeOK, DeviceObject, ConfigObject,
                   NoDevice, NoConfig, Conditions

\* The number of events stays within its bound.
LEMMA EventType ==
    ASSUME TypeOK, NEW kind, Event(kind)
    PROVE  events' \in 0 .. MaxEvents
  BY PipelineAssumption DEF TypeOK, Event

-----------------------------------------------------------------------------
(* Type correctness.                                                       *)

\* Every variable keeps its type, whatever the bounds.
THEOREM TypeCorrect == Spec => []TypeOK
<1>1. Init => TypeOK
  BY PipelineAssumption, NoInputsType
  DEF Init, TypeOK, NewNetwork, NetworkObject, DeviceObject, ConfigObject,
      NoDevice, NoConfig, Conditions, PCs, Controllers
<1>2. TypeOK /\ [Next]_vars => TypeOK'
  <2> SUFFICES ASSUME TypeOK, [Next]_vars PROVE TypeOK'
    OBVIOUS
  <2> USE DEF children
  <2>0. ControlType /\ NoInputs \in Inputs
    BY NoInputsType DEF TypeOK, ControlType
  <2>1. ASSUME NEW c \in Controllers, Start(c) PROVE TypeOK'
    <3>1. /\ cache \in NetworkObject /\ queue \ {c} \in SUBSET Controllers
          /\ design \in 0 .. MaxDesign
      BY DEF TypeOK
    <3>2. ControlType'
      BY <2>0, <2>1, <3>1, ReturnType, GotoType, ProceedType DEF Start, PCs
    <3>3. fresh' \in SUBSET (Controllers \cup {"cache"})
      BY <2>1 DEF Start, TypeOK
    <3>4. QED BY <2>1, <3>2, <3>3 DEF Start, TypeOK, ControlType
  <2>2. ASSUME NEW c \in Controllers, AddFinalizer(c) PROVE TypeOK'
    <3> DEFINE new == [net EXCEPT !.fins = @ \cup {c}]
    <3>1. new \in NetworkObject /\ queue \in SUBSET Controllers
      BY DEF TypeOK, NetworkObject
    <3>2. CASE c \in fresh
      <4>1. net' = new /\ Proceed(c, new, queue)
        BY <2>2, <3>2 DEF AddFinalizer
      <4>2. ControlType'
        BY <2>0, <3>1, <4>1, ProceedType DEF TypeOK
      <4>3. fresh' \in SUBSET (Controllers \cup {"cache"})
        BY <2>2, <3>2 DEF AddFinalizer
      <4>4. QED BY <2>2, <3>1, <4>1, <4>2, <4>3 DEF AddFinalizer, TypeOK, ControlType
    <3>3. CASE c \notin fresh
      <4>1. ControlType'
        BY <2>0, <2>2, <3>1, <3>3, GotoType DEF AddFinalizer, PCs
      <4>2. QED BY <2>2, <3>3, <4>1 DEF AddFinalizer, TypeOK, ControlType
    <3>4. QED BY <3>2, <3>3
  <2>3. ASSUME NEW c \in Controllers, ApplyChildren(c) PROVE TypeOK'
    <3>1. Apply(c, Nodes)
      BY <2>3 DEF ApplyChildren
    <3>2. ControlType'
      BY <2>0, <2>3, <3>1, ApplyTypes, GotoType DEF ApplyChildren, PCs
    <3>3. QED BY <2>3, <3>1, <3>2, ApplyTypes DEF ApplyChildren, TypeOK, ControlType
  <2>4. ASSUME NEW c \in Controllers, ApplyRefused(c) PROVE TypeOK'
    <3>1. ControlType'
      BY <2>0, <2>4, GotoType DEF ApplyRefused, PCs, TypeOK
    <3>2. QED BY <2>4, <3>1 DEF ApplyRefused, TypeOK, ControlType
  <2>5. ASSUME ParamsStatus PROVE TypeOK'
    <3>1. "params" \in Controllers /\ [net EXCEPT !.param = "Ready"] \in NetworkObject
      BY DEF TypeOK, NetworkObject, Conditions, Controllers
    <3>2. QED BY <2>5, <3>1, StatusUpdateType DEF ParamsStatus, TypeOK, ControlType
  <2>6. ASSUME DeviceStatus PROVE TypeOK'
    <3>1. "device" \in Controllers /\ DeviceResult(net) \in NetworkObject
      BY <2>0, ResultTypes DEF TypeOK, Controllers
    <3>2. QED BY <2>6, <3>1, StatusUpdateType DEF DeviceStatus, TypeOK, ControlType
  <2>7. ASSUME NetworkStatus PROVE TypeOK'
    <3>1. "network" \in Controllers /\ work["network"] \in Inputs /\ net \in NetworkObject
      BY DEF TypeOK, Controllers
    <3>2. /\ SetOverallStatus(ResetChildConditions(net, work["network"])) \in NetworkObject
          /\ SetOverallStatus(net) \in NetworkObject
          /\ NetworkResult(net) \in NetworkObject
      BY <3>1, ResultTypes
    <3>3. QED BY <2>7, <3>1, <3>2, StatusUpdateType DEF NetworkStatus, TypeOK, ControlType
  <2>8. ASSUME NEW c \in Controllers, Delete(c) PROVE TypeOK'
    <3>1. ControlType'
      BY <2>0, <2>8, GotoType DEF Delete, PCs, TypeOK
    <3>2. QED BY <2>8, <3>1, DeleteTypes DEF Delete, TypeOK, ControlType
  <2>9. ASSUME NEW c \in Controllers, RemoveFinalizer(c) PROVE TypeOK'
    <3>1. ControlType'
      BY <2>0, <2>9, GotoType, ReturnType DEF RemoveFinalizer, PCs, TypeOK
    <3>2. fresh' \in SUBSET (Controllers \cup {"cache"})
      BY <2>9 DEF RemoveFinalizer, TypeOK
    <3>3. \A ph \in {"live", "deleting", "gone"} :
             [net EXCEPT !.fins = @ \ {c}, !.phase = ph] \in NetworkObject
      BY DEF TypeOK, NetworkObject
    <3>4. net.phase \in {"live", "deleting", "gone"}
      BY DEF TypeOK, NetworkObject
    <3>5. net' \in NetworkObject
      <4>1. CASE net.fins = {c}
        BY <2>9, <3>3, <4>1 DEF RemoveFinalizer, TypeOK
      <4>2. CASE net.fins # {c}
        BY <2>9, <3>3, <3>4, <4>2 DEF RemoveFinalizer, TypeOK
      <4>3. QED BY <4>1, <4>2
    <3>6. QED BY <2>9, <3>1, <3>2, <3>5 DEF RemoveFinalizer, TypeOK, ControlType
  <2>10. ASSUME NEW c \in Controllers, Fail(c) PROVE TypeOK'
    <3>1. HandleError(c, net) \in NetworkObject /\ Requeue(c) \in SUBSET Controllers
      BY <2>0, ResultTypes DEF TypeOK, Requeue
    <3>2. QED BY <2>10, <3>1, StatusUpdateType DEF Fail, TypeOK, ControlType
  <2>11. CASE Informers
    BY <2>11 DEF Informers, SyncNetwork, SyncDevice, SyncConfig, TypeOK,
                 NetworkWatchers, DeviceWatchers, ConfigWatchers, Controllers
  <2>12. ASSUME NEW n \in Nodes, ClaimReady(n) \/ ProviderReconcile(n) \/ ConfigReconcile(n)
         PROVE  TypeOK'
    <3>1. CASE ClaimReady(n)
      BY <3>1 DEF ClaimReady, TypeOK, ClaimWatchers, Controllers
    <3>2. CASE ProviderReconcile(n)
      <4>1. devices' \in [Nodes -> DeviceObject]
        BY <3>2 DEF ProviderReconcile, TypeOK, DeviceObject, Conditions
      <4>2. QED BY <3>2, <4>1 DEF ProviderReconcile, TypeOK
    <3>3. CASE ConfigReconcile(n)
      <4>1. configs' \in [Nodes -> ConfigObject]
        BY <3>3 DEF ConfigReconcile, TypeOK, ConfigObject, Conditions
      <4>2. QED BY <3>3, <4>1 DEF ConfigReconcile, TypeOK
    <3>4. QED BY <2>12, <3>1, <3>2, <3>3
  <2>13. ASSUME NEW n \in Nodes, ProviderFails(n) \/ ConfigFails(n) PROVE TypeOK'
    <3>1. CASE ProviderFails(n)
      <4>1. devices' \in [Nodes -> DeviceObject]
        BY <3>1 DEF ProviderFails, TypeOK, DeviceObject, Conditions
      <4>2. QED BY <3>1, <4>1, EventType DEF ProviderFails, TypeOK
    <3>2. CASE ConfigFails(n)
      <4>1. configs' \in [Nodes -> ConfigObject]
        BY <3>2 DEF ConfigFails, TypeOK, ConfigObject, Conditions
      <4>2. QED BY <3>2, <4>1, EventType DEF ConfigFails, TypeOK
    <3>3. QED BY <2>13, <3>1, <3>2
  <2>14. CASE SpecChange
    BY <2>14, EventType, PipelineAssumption DEF SpecChange, TypeOK, NetworkObject
  <2>15. CASE DesignChange
    BY <2>15, EventType, PipelineAssumption
    DEF DesignChange, TypeOK, DesignWatchers, Controllers
  <2>16. CASE DeleteNetwork
    BY <2>16, EventType DEF DeleteNetwork, TypeOK, NetworkObject
  <2>17. ASSUME NEW c \in Controllers, RequestFails(c) PROVE TypeOK'
    <3>0. events' \in 0 .. MaxEvents
      BY <2>17, EventType DEF RequestFails
    <3>1. queue \in SUBSET Controllers /\ Requeue(c) \in SUBSET Controllers
      BY DEF TypeOK, Requeue
    <3>2. CASE pc[c] \in {"finalize", "unfinalize"}
      <4>1. ControlType'
        BY <2>0, <2>17, <3>1, <3>2, GotoType DEF RequestFails, PCs
      <4>2. QED BY <2>17, <3>0, <3>2, <4>1 DEF RequestFails, TypeOK, ControlType
    <3>3. CASE pc[c] = "apply"
      <4>1. PICK S \in SUBSET Nodes : Apply(c, S)
        BY <2>17, <3>3 DEF RequestFails
      <4>2. ControlType'
        BY <2>0, <2>17, <3>1, <3>3, <4>1, ApplyTypes, GotoType DEF RequestFails, PCs
      <4>3. QED BY <2>17, <3>0, <3>3, <4>1, <4>2, ApplyTypes
                DEF RequestFails, TypeOK, ControlType
    <3>4. CASE pc[c] = "delete"
      <4>1. PICK S \in SUBSET Nodes : DeleteChildren(c, S)
        BY <2>17, <3>4 DEF RequestFails
      <4>2. ControlType'
        BY <2>0, <2>17, <3>1, <3>4, GotoType DEF RequestFails, PCs
      <4>3. QED BY <2>17, <3>0, <3>4, <4>1, <4>2, DeleteTypes
                DEF RequestFails, TypeOK, ControlType
    <3>5. CASE pc[c] \in {"reset", "pending", "status", "fail"}
      <4>1. ControlType'
        BY <2>0, <2>17, <3>1, <3>5, ReturnType DEF RequestFails
      <4>2. QED BY <2>17, <3>0, <3>5, <4>1 DEF RequestFails, TypeOK, ControlType
    <3>6. QED BY <2>17, <3>2, <3>3, <3>4, <3>5 DEF RequestFails
  <2>18. CASE Restart
    BY <2>0, <2>18, EventType DEF Restart, TypeOK, PCs
  <2>19. CASE UNCHANGED vars
    BY <2>19 DEF vars, TypeOK
  <2>20. QED
    BY <2>1, <2>2, <2>3, <2>4, <2>5, <2>6, <2>7, <2>8, <2>9, <2>10, <2>11,
       <2>12, <2>13, <2>14, <2>15, <2>16, <2>17, <2>18, <2>19
    DEF Next, Controller, Status, Cluster
<1>3. QED BY <1>1, <1>2, PTL DEF Spec

-----------------------------------------------------------------------------
(* The order of inputs.                                                    *)

\* Not being older is reflexive and transitive.
LEMMA NotOlderOrder ==
    /\ \A a \in Inputs : NotOlder(a, a)
    /\ \A a, b, d \in Inputs : NotOlder(a, b) /\ NotOlder(b, d) => NotOlder(a, d)
    /\ \A a, b \in Inputs : NotOlder(a, b) /\ NotOlder(b, a) => a = b
  BY PipelineAssumption DEF NotOlder, Inputs

\* What the types give the arithmetic.
LEMMA InputTypes ==
    ASSUME TypeOK
    PROVE  /\ net.spec \in Nat /\ cache.spec \in Nat /\ design \in Nat
           /\ net.used \in Inputs /\ cache.used \in Inputs
           /\ net.used.spec \in Nat /\ net.used.design \in Nat
           /\ cache.used.spec \in Nat /\ cache.used.design \in Nat
           /\ CurrentRefs(net) \in Inputs /\ CurrentRefs(cache) \in Inputs
           /\ \A c \in Controllers : work[c] \in Inputs
           /\ \A n \in Nodes : devices[n].from \in Inputs
<1>1. net \in NetworkObject /\ cache \in NetworkObject /\ design \in 0 .. MaxDesign
  BY DEF TypeOK
<1>2. CurrentRefs(net) \in Inputs /\ CurrentRefs(cache) \in Inputs
  BY <1>1, RefsType
<1>3. QED BY <1>1, <1>2, PipelineAssumption DEF TypeOK, NetworkObject, Inputs, DeviceObject

-----------------------------------------------------------------------------
(* The inductive invariant, one lemma per kind of step.                    *)

\* Steps that touch neither the Network and its copies nor what the devices
\* are derived from.
LEMMA QuietStep ==
    ASSUME TypeOK, PipelineInvariant,
           UNCHANGED <<net, cache, fresh, design, pc, work>>,
           \A n \in Nodes : devices'[n].from = devices[n].from
    PROVE  PipelineInvariant'
<1>1. CopiesInv'
  BY DEF PipelineInvariant, CopiesInv, CurrentRefs, NotOlder, Live
<1>2. StagesInv'
  BY DEF PipelineInvariant, StagesInv, CurrentRefs, NotOlder, Live, Writing,
         AreChildConditionsReady, IsFalse, ChildrenReady
<1>3. DerivationsInv' /\ ReadyNeedsChildren' /\ DevicesNotOlderThanUsed'
  BY DEF PipelineInvariant, DerivationsInv, NotOlder, Live, Exists,
         ReadyNeedsChildren, DevicesNotOlderThanUsed, ChildrenReady
<1>4. QED BY <1>1, <1>2, <1>3 DEF PipelineInvariant

\* Every other copy of the Network is out of date after these steps.
LEMMA SpecChangeStep ==
    ASSUME TypeOK, PipelineInvariant, SpecChange
    PROVE  PipelineInvariant'
<1> USE DEF SpecChange, children
<1>0. net \in NetworkObject
  BY DEF TypeOK
<1>1. /\ net'.phase = net.phase /\ net'.fins = net.fins /\ net'.param = net.param
      /\ net'.dev = net.dev /\ net'.ready = net.ready /\ net'.used = net.used
      /\ net'.spec = net.spec + 1
  BY <1>0 DEF NetworkObject
<1>2. CopiesInv'
  BY <1>1, InputTypes DEF PipelineInvariant, CopiesInv, CurrentRefs, NotOlder
<1>3. StagesInv'
  BY <1>1 DEF PipelineInvariant, StagesInv, CurrentRefs, NotOlder, Live, Writing,
         AreChildConditionsReady, IsFalse, ChildrenReady
<1>4. DerivationsInv' /\ ReadyNeedsChildren' /\ DevicesNotOlderThanUsed'
  BY <1>1 DEF PipelineInvariant, DerivationsInv, NotOlder, Live, Exists,
         ReadyNeedsChildren, DevicesNotOlderThanUsed, ChildrenReady
<1>5. QED BY <1>2, <1>3, <1>4 DEF PipelineInvariant

\* Deleting the Network: nothing is claimed of one that is not live.
LEMMA DeleteNetworkStep ==
    ASSUME TypeOK, PipelineInvariant, DeleteNetwork
    PROVE  PipelineInvariant'
<1> USE DEF DeleteNetwork, children
<1>0. net \in NetworkObject
  BY DEF TypeOK
<1>1. /\ net'.phase # "live" /\ net'.used = net.used /\ net'.spec = net.spec
  BY <1>0 DEF NetworkObject
<1>2. CopiesInv'
  BY <1>1, InputTypes DEF PipelineInvariant, CopiesInv, CurrentRefs, NotOlder
<1>3. StagesInv'
  BY <1>1 DEF PipelineInvariant, StagesInv, Live
<1>4. DerivationsInv' /\ ReadyNeedsChildren' /\ DevicesNotOlderThanUsed'
  BY <1>1 DEF PipelineInvariant, DerivationsInv, Live, ReadyNeedsChildren,
         DevicesNotOlderThanUsed
<1>5. QED BY <1>2, <1>3, <1>4 DEF PipelineInvariant

\* A new design only widens the gap to the references in use.
LEMMA DesignChangeStep ==
    ASSUME TypeOK, PipelineInvariant, DesignChange
    PROVE  PipelineInvariant'
<1> USE DEF DesignChange, children
<1>1. CopiesInv'
  BY InputTypes DEF PipelineInvariant, CopiesInv, CurrentRefs, NotOlder, Live
<1>2. cache.used # CurrentRefs(cache)'
  BY InputTypes DEF PipelineInvariant, CopiesInv, CurrentRefs, NotOlder
<1>3. StagesInv'
  <2>1. Live' /\ AreChildConditionsReady(cache)' /\ cache'.used = CurrentRefs(cache)'
           => ChildrenReady'
    BY <1>2
  <2>2. pc["network"] = "reset" /\ "network" \in fresh =>
           NotOlder(CurrentRefs(net)', work["network"])
    BY InputTypes DEF PipelineInvariant, StagesInv, CurrentRefs, NotOlder, Inputs, Controllers
  <2>3. QED BY <2>1, <2>2 DEF PipelineInvariant, StagesInv, Live, Writing, ChildrenReady,
                              CurrentRefs, NotOlder
<1>4. DerivationsInv' /\ ReadyNeedsChildren' /\ DevicesNotOlderThanUsed'
  BY DEF PipelineInvariant, DerivationsInv, NotOlder, Live, Exists,
         ReadyNeedsChildren, DevicesNotOlderThanUsed, ChildrenReady
<1>5. QED BY <1>1, <1>3, <1>4 DEF PipelineInvariant

\* The cache catches up.
LEMMA CacheStep ==
    ASSUME TypeOK, PipelineInvariant, SyncNetwork \/ Restart
    PROVE  PipelineInvariant'
<1> USE DEF SyncNetwork, Restart, children
<1>1. /\ cache' = net /\ net' = net /\ design' = design /\ devices' = devices
      /\ \A c \in Controllers : c \in fresh' => c \in fresh /\ pc'[c] = pc[c]
      /\ \A c \in Controllers :
            \/ pc'[c] = "idle"
            \/ pc'[c] = pc[c] /\ work'[c] = work[c]
  BY DEF TypeOK, Controllers
<1>2. CopiesInv'
  BY <1>1, InputTypes DEF PipelineInvariant, CopiesInv, CurrentRefs, NotOlder, Live
<1>3. StagesInv'
  BY <1>1 DEF PipelineInvariant, StagesInv, CurrentRefs, NotOlder, Live, Writing,
         AreChildConditionsReady, IsFalse, ChildrenReady, Controllers
<1>4. DerivationsInv' /\ ReadyNeedsChildren' /\ DevicesNotOlderThanUsed'
  BY <1>1, InputTypes DEF PipelineInvariant, CopiesInv, DerivationsInv, NotOlder, Live, Exists,
         ReadyNeedsChildren, DevicesNotOlderThanUsed, ChildrenReady, Controllers, CurrentRefs
<1>5. QED BY <1>2, <1>3, <1>4 DEF PipelineInvariant

\* A step of controller c that leaves the Network and its cache alone: what
\* c must establish about its own request, its copy and its devices.
OwnStepOK(c) ==
    /\ UNCHANGED <<net, cache, design>>
    /\ \A d \in Controllers \cup {"cache"} : d \in fresh' => d \in fresh \/ d = c
    /\ \A d \in Controllers \ {c} : pc'[d] = pc[d] /\ work'[d] = work[d]
    /\ c \in fresh' =>
          /\ cache.spec = net.spec
          /\ pc'[c] # "idle"
          /\ pc'[c] = "finalize" => c \notin net.fins
          /\ pc'[c] \in {"apply", "status"} => c \in net.fins
          /\ pc'[c] \in {"delete", "unfinalize"} => ~Live
          /\ c = "device" /\ Live /\ pc'[c] \in Writing => net.dev # "Ready"
          /\ c = "params" /\ Live /\ pc'[c] \in Writing => net.param # "Ready"
          /\ c = "network" /\ pc'[c] = "reset" =>
                /\ work'[c] # net.used
                /\ NotOlder(work'[c], net.used)
                /\ NotOlder(CurrentRefs(net), work'[c])
          /\ c = "device" /\ pc'[c] = "apply" => NotOlder(work'[c], net.used)
          /\ c = "device" /\ pc'[c] = "status" =>
                \A n \in Nodes :
                   Exists(devices'[n]) => NotOlder(devices'[n].from, net.used)
    /\ c = "network" /\ Live /\ pc'[c] = "apply" => ChildrenReady
    /\ c = "device" /\ Live /\ net.dev = "Ready" /\ pc'[c] = "apply" =>
          NotOlder(work'[c], net.used)
    /\ \/ \A n \in Nodes : Exists(devices'[n]) => devices'[n].from = devices[n].from
       \/ /\ c = "device"
          /\ Live /\ net.dev = "Ready" =>
                \A n \in Nodes :
                   Exists(devices'[n]) => NotOlder(devices'[n].from, net.used)

\* A step of controller c on its own copy, which stores nothing.
LEMMA OwnStep ==
    ASSUME TypeOK, PipelineInvariant, NEW c \in Controllers, OwnStepOK(c)
    PROVE  PipelineInvariant'
<1>1. CopiesInv'
  BY DEF PipelineInvariant, CopiesInv, CurrentRefs, NotOlder, Live, OwnStepOK, Controllers
<1>2. StagesInv'
  BY DEF PipelineInvariant, StagesInv, CurrentRefs, NotOlder, Live,
         AreChildConditionsReady, IsFalse, ChildrenReady, OwnStepOK, Controllers
<1>3. \/ \A n \in Nodes : Exists(devices[n])' => Exists(devices[n]) /\ devices'[n].from = devices[n].from
      \/ c = "device" /\ (Live /\ net.dev = "Ready" =>
            \A n \in Nodes : Exists(devices[n])' => NotOlder(devices'[n].from, net.used))
  BY DEF OwnStepOK, Exists
<1>4. DevicesNotOlderThanUsed'
  BY <1>3 DEF PipelineInvariant, DevicesNotOlderThanUsed, Live, OwnStepOK
<1>5. DerivationsInv'
  <2>1. (Live /\ net.dev = "Ready" =>
          /\ cache.spec >= net.used.spec
          /\ pc["device"] = "apply" => NotOlder(work["device"], net.used))'
    BY DEF PipelineInvariant, DerivationsInv, Live, OwnStepOK, Controllers, NotOlder
  <2>2. ("device" \in fresh /\ pc["device"] = "apply" =>
          NotOlder(work["device"], net.used))'
    BY DEF PipelineInvariant, DerivationsInv, OwnStepOK, Controllers, NotOlder
  <2>3. ("device" \in fresh /\ pc["device"] = "status" =>
          \A n \in Nodes :
             Exists(devices[n]) => NotOlder(devices[n].from, net.used))'
    <3>1. CASE c = "device"
      BY <3>1 DEF OwnStepOK, Exists, NotOlder
    <3>2. CASE c # "device"
      BY <1>3, <3>2 DEF PipelineInvariant, DerivationsInv, OwnStepOK, Controllers, NotOlder
    <3>3. QED BY <3>1, <3>2
  <2>4. QED BY <2>1, <2>2, <2>3 DEF DerivationsInv
<1>6. ReadyNeedsChildren'
  BY DEF PipelineInvariant, ReadyNeedsChildren, ChildrenReady, Live, OwnStepOK
<1>7. QED BY <1>1, <1>2, <1>4, <1>5, <1>6 DEF PipelineInvariant

\* A status update that lands and changes the Network: no other copy is up to
\* date any more, and c is done.
StatusWriteOK(c, new) ==
    /\ net' = new /\ fresh' = {} /\ pc'[c] = "idle"
    /\ UNCHANGED <<cache, design, devices>>
    /\ \A d \in Controllers \ {c} : pc'[d] = pc[d] /\ work'[d] = work[d]
    /\ new.phase = net.phase /\ new.fins = net.fins /\ new.spec = net.spec
    /\ NotOlder(new.used, net.used)
    /\ NotOlder(CurrentRefs(net), new.used)
    /\ Live /\ new.ready = "Ready" => new.param = "Ready" /\ new.dev = "Ready"
    /\ Live /\ new.dev = "Ready" =>
          /\ "device" \in new.fins
          /\ cache.spec >= new.used.spec
          /\ pc'["device"] = "apply" => NotOlder(work["device"], new.used)
          /\ \A n \in Nodes : Exists(devices[n]) => NotOlder(devices[n].from, new.used)
    /\ Live /\ (\/ AreChildConditionsReady(cache) /\ cache.used = CurrentRefs(cache)
                \/ pc'["network"] = "apply")
          => new.param = "Ready" /\ new.dev = "Ready"

\* What a landed write must satisfy to keep the invariant.
LEMMA StatusWrite ==
    ASSUME TypeOK, PipelineInvariant, NEW c \in Controllers,
           NEW new \in NetworkObject, StatusWriteOK(c, new)
    PROVE  PipelineInvariant'
<1> USE DEF StatusWriteOK
<1>1. CopiesInv'
  <2>1. NotOlder(new.used, cache.used)
    <3>1. new.used \in Inputs
      BY DEF NetworkObject
    <3>2. QED BY <3>1, InputTypes, NotOlderOrder DEF PipelineInvariant, CopiesInv
  <2>2. QED BY <2>1, InputTypes DEF PipelineInvariant, CopiesInv, CurrentRefs, NotOlder
<1>2. StagesInv'
  BY DEF StagesInv, Live, AreChildConditionsReady, IsFalse, ChildrenReady, CurrentRefs
<1>3. DerivationsInv' /\ ReadyNeedsChildren' /\ DevicesNotOlderThanUsed'
  <2>1. pc'["device"] = "apply" => work'["device"] = work["device"]
    BY DEF Controllers
  <2>2. QED BY <2>1 DEF DerivationsInv, ReadyNeedsChildren, DevicesNotOlderThanUsed,
                       Live, ChildrenReady, NotOlder, Exists
<1>4. QED BY <1>1, <1>2, <1>3 DEF PipelineInvariant

\* A status update either lands and changes something or is a step of c alone.
LEMMA StatusUpdateStep ==
    ASSUME TypeOK, PipelineInvariant, NEW c \in Controllers,
           NEW new \in NetworkObject, NEW q, StatusUpdate(c, new, q),
           UNCHANGED <<cache, design, devices>>,
           c \in fresh /\ new # net => StatusWriteOK(c, new)
    PROVE  PipelineInvariant'
<1>1. pc'[c] = "idle" /\ \A d \in Controllers \ {c} : pc'[d] = pc[d] /\ work'[d] = work[d]
  BY DEF StatusUpdate, Return, TypeOK
<1>2. CASE c \in fresh /\ new # net
  BY <1>2, StatusWrite
<1>3. CASE ~(c \in fresh /\ new # net)
  <2>1. net' = net /\ c \notin fresh' /\ fresh' \subseteq fresh
    BY <1>3 DEF StatusUpdate
  <2>2. OwnStepOK(c)
    BY <1>1, <2>1 DEF OwnStepOK
  <2>3. QED BY <2>2, OwnStep
<1>4. QED BY <1>2, <1>3

\* What Proceed leaves for the next request.
LEMMA ProceedStep ==
    ASSUME TypeOK, NEW c \in Controllers, NEW cr \in NetworkObject, NEW q,
           Proceed(c, cr, q)
    PROVE  /\ \A d \in Controllers \ {c} : pc'[d] = pc[d] /\ work'[d] = work[d]
           /\ c = "network" =>
                 /\ pc'[c] \in {"fail", "reset", "pending", "apply"}
                 /\ pc'[c] = "reset" => /\ work'[c] = CurrentRefs(cr)
                                        /\ cr.used # CurrentRefs(cr)
                 /\ pc'[c] = "apply" => /\ AreChildConditionsReady(cr)
                                        /\ cr.used = CurrentRefs(cr)
           /\ c = "params" => pc'[c] \in {"idle", "apply"}
           /\ c = "device" =>
                 /\ pc'[c] \in {"idle", "apply"}
                 /\ pc'[c] = "apply" => /\ cr.dev # "Ready"
                                        /\ work'[c] = CurrentRefs(cr)
<1> USE DEF Goto, Return, TypeOK, Controllers
<1>1. CASE c = "network" /\ NetworkProceed(cr, q)
  BY <1>1 DEF NetworkProceed
<1>2. CASE c = "params" /\ ParamsProceed(cr, q)
  BY <1>2 DEF ParamsProceed
<1>3. CASE c = "device" /\ DeviceProceed(cr, q)
  BY <1>3 DEF DeviceProceed, IsFalse
<1>4. QED BY <1>1, <1>2, <1>3 DEF Proceed

\* Taking the Network from the queue with a copy from the cache.
LEMMA StartStep ==
    ASSUME TypeOK, PipelineInvariant, NEW c \in Controllers, Start(c)
    PROVE  PipelineInvariant'
<1>0. cache \in NetworkObject
  BY DEF TypeOK
<1>1. /\ UNCHANGED <<net, cache, design, devices>>
      /\ \A d \in Controllers \cup {"cache"} : d \in fresh' => d \in fresh \/ d = c
      /\ c \in fresh' => cache = net /\ pc'[c] # "idle"
  BY DEF Start, children, PipelineInvariant, CopiesInv
<1>2. /\ cache.spec >= net.used.spec /\ design >= net.used.design
         => NotOlder(CurrentRefs(cache), net.used)
      /\ NotOlder(CurrentRefs(net), net.used)
      /\ design >= net.used.design
  BY DEF NotOlder, CurrentRefs, PipelineInvariant, CopiesInv
<1>3. CASE /\ pc'[c] \in {"idle", "delete", "finalize"}
           /\ \A d \in Controllers \ {c} : pc'[d] = pc[d] /\ work'[d] = work[d]
           /\ pc'[c] = "delete" => cache.phase = "deleting"
           /\ pc'[c] = "finalize" => c \notin cache.fins /\ ~ActsNot(c, cache)
                                    /\ cache.phase = "live"
  <2>1. OwnStepOK(c)
    BY <1>1, <1>3 DEF OwnStepOK, PipelineInvariant, StagesInv, ActsNot, IsFalse, Live
  <2>2. QED BY <2>1, OwnStep
<1>4. CASE /\ ~ActsNot(c, cache) /\ cache.phase = "live" /\ c \in cache.fins
           /\ Proceed(c, cache, queue \ {c})
  <2>1. c \in fresh' => cache.spec = net.spec /\ c \in net.fins
    BY <1>1, <1>4
  <2>2. CASE c = "network"
    <3>1. pc'[c] = "reset" /\ c \in fresh' =>
             /\ work'[c] # net.used
             /\ NotOlder(work'[c], net.used)
             /\ NotOlder(CurrentRefs(net), work'[c])
      BY <1>0, <1>1, <1>2, <1>4, <2>2, ProceedStep, InputTypes, NotOlderOrder
    <3>2. Live /\ pc'[c] = "apply" => ChildrenReady
      BY <1>0, <1>4, <2>2, ProceedStep DEF PipelineInvariant, StagesInv
    <3>3. OwnStepOK(c)
      BY <1>0, <1>1, <1>4, <2>1, <2>2, <3>1, <3>2, ProceedStep DEF OwnStepOK
    <3>4. QED BY <3>3, OwnStep
  <2>3. CASE c = "params"
    <3>1. OwnStepOK(c)
      BY <1>0, <1>1, <1>4, <2>1, <2>3, ProceedStep DEF OwnStepOK, ActsNot, IsFalse
    <3>2. QED BY <3>1, OwnStep
  <2>4. CASE c = "device"
    <3>1. Live /\ net.dev = "Ready" /\ pc'[c] = "apply" => NotOlder(work'[c], net.used)
      BY <1>0, <1>2, <1>4, <2>4, ProceedStep DEF PipelineInvariant, DerivationsInv
    <3>2. c \in fresh' /\ pc'[c] = "apply" =>
             NotOlder(work'[c], net.used) /\ net.dev # "Ready"
      BY <1>0, <1>1, <1>2, <1>4, <2>4, ProceedStep
    <3>3. OwnStepOK(c)
      BY <1>0, <1>1, <1>4, <2>1, <2>4, <3>1, <3>2, ProceedStep DEF OwnStepOK
    <3>4. QED BY <3>3, OwnStep
  <2>5. QED BY <2>2, <2>3, <2>4 DEF Controllers
<1>5. QED BY <1>3, <1>4 DEF Start, Goto, Return, TypeOK

\* Storing the finalizer makes the copy the only one up to date.
LEMMA AddFinalizerStep ==
    ASSUME TypeOK, PipelineInvariant, NEW c \in Controllers, AddFinalizer(c)
    PROVE  PipelineInvariant'
<1> DEFINE new == [net EXCEPT !.fins = @ \cup {c}]
<1>0. net \in NetworkObject /\ new \in NetworkObject
  BY DEF TypeOK, NetworkObject
<1>1. CASE c \in fresh
  <2>1. /\ net' = new /\ Proceed(c, new, queue)
        /\ fresh' = IF pc'[c] = "idle" THEN {} ELSE {c}
        /\ pc[c] = "finalize"
        /\ UNCHANGED <<cache, design, devices>>
    BY <1>1 DEF AddFinalizer, children
  <2>2. /\ new.phase = net.phase /\ new.spec = net.spec /\ new.used = net.used
        /\ new.param = net.param /\ new.dev = net.dev /\ new.ready = net.ready
        /\ new.fins = net.fins \cup {c}
    BY <1>0 DEF NetworkObject
  <2>3. /\ c = "device" /\ Live => net.dev # "Ready"
        /\ c = "params" /\ Live => net.param # "Ready"
        /\ cache.spec = net.spec
    BY <1>1, <2>1 DEF PipelineInvariant, CopiesInv, StagesInv, Writing
  <2>4. CurrentRefs(new) = CurrentRefs(net) /\ CurrentRefs(net)' = CurrentRefs(net)
    BY <2>1, <2>2 DEF CurrentRefs
  <2>5. /\ \A d \in Controllers \ {c} : pc'[d] = pc[d] /\ work'[d] = work[d]
        /\ pc'[c] \in {"idle", "fail", "reset", "pending", "apply"}
        /\ pc'["network"] = "reset" /\ "network" \in fresh' =>
              /\ work'["network"] # net.used
              /\ work'["network"] = CurrentRefs(net)
        /\ c = "network" /\ pc'[c] = "apply" => new.param = "Ready" /\ new.dev = "Ready"
        /\ c = "device" /\ pc'[c] = "apply" => work'[c] = CurrentRefs(net)
    BY <1>0, <2>1, <2>2, <2>4, ProceedStep DEF Controllers, AreChildConditionsReady, IsFalse
  <2>6. CopiesInv'
    BY <2>1, <2>2, <2>3, <2>5
    DEF PipelineInvariant, CopiesInv, NotOlder, CurrentRefs, Controllers, Live
  <2>7. StagesInv'
    <3>1. (Live /\ net.dev = "Ready" => "device" \in net.fins)'
      BY <2>1, <2>2 DEF PipelineInvariant, StagesInv, Live
    <3>2. (/\ Live /\ "device" \in fresh /\ pc["device"] \in Writing => net.dev # "Ready"
           /\ Live /\ "params" \in fresh /\ pc["params"] \in Writing => net.param # "Ready")'
      BY <2>1, <2>2, <2>3 DEF Live
    <3>3. (Live /\ AreChildConditionsReady(cache) /\ cache.used = CurrentRefs(cache)
              => ChildrenReady)'
      BY <2>1, <2>2 DEF PipelineInvariant, StagesInv, Live, AreChildConditionsReady,
                        IsFalse, CurrentRefs, ChildrenReady
    <3>4. (Live /\ pc["network"] = "apply" => ChildrenReady)'
      BY <2>1, <2>2, <2>5 DEF PipelineInvariant, StagesInv, Live, ChildrenReady, Controllers
    <3>5. (pc["network"] = "reset" /\ "network" \in fresh =>
              /\ work["network"] # net.used
              /\ NotOlder(work["network"], net.used)
              /\ NotOlder(CurrentRefs(net), work["network"]))'
      <4>1. NotOlder(CurrentRefs(net), net.used) /\ NotOlder(CurrentRefs(net), CurrentRefs(net))
        BY InputTypes, NotOlderOrder DEF PipelineInvariant, CopiesInv
      <4>2. QED BY <2>1, <2>2, <2>4, <2>5, <4>1 DEF NotOlder
    <3>6. QED BY <3>1, <3>2, <3>3, <3>4, <3>5 DEF StagesInv
  <2>8. DerivationsInv' /\ ReadyNeedsChildren' /\ DevicesNotOlderThanUsed'
    <3>1. c = "device" /\ pc'[c] = "apply" => NotOlder(work'[c], net.used)
      BY <2>5 DEF PipelineInvariant, CopiesInv
    <3>2. c # "device" => "device" \notin fresh'
      BY <2>1
    <3>3. QED BY <2>1, <2>2, <2>3, <2>5, <3>1, <3>2
          DEF PipelineInvariant, DerivationsInv, ReadyNeedsChildren,
              DevicesNotOlderThanUsed, Live, ChildrenReady, NotOlder, Exists, Controllers
  <2>9. QED BY <2>6, <2>7, <2>8 DEF PipelineInvariant
<1>2. CASE c \notin fresh
  <2>1. OwnStepOK(c)
    BY <1>2 DEF AddFinalizer, OwnStepOK, Goto, TypeOK, children, PipelineInvariant, Live
  <2>2. QED BY <2>1, OwnStep
<1>3. QED BY <1>1, <1>2

\* Devices are rewritten only by the device controller, from its work.
LEMMA ApplyStep ==
    ASSUME TypeOK, PipelineInvariant, NEW c \in Controllers,
           NEW S \in SUBSET Nodes, Apply(c, S), pc[c] = "apply"
    PROVE  /\ c # "device" => devices' = devices
           /\ c = "device" => \A n \in Nodes :
                 devices'[n].from = IF n \in S THEN work["device"] ELSE devices[n].from
           /\ c = "device" /\ Live /\ net.dev = "Ready" => \A n \in Nodes :
                 Exists(devices'[n]) => NotOlder(devices'[n].from, net.used)
           /\ c = "device" /\ "device" \in fresh /\ S = Nodes => \A n \in Nodes :
                 NotOlder(devices'[n].from, net.used)
<1>1. CASE c # "device"
  BY <1>1 DEF Apply, ApplyClaims, ApplyConfigs
<1>2. CASE c = "device"
  <2>1. ApplyDevices(S, work["device"])
    BY <1>2 DEF Apply
  <2>2. \A n \in Nodes :
           devices'[n].from = IF n \in S THEN work["device"] ELSE devices[n].from
    BY <2>1 DEF ApplyDevices, TypeOK, DeviceObject
  <2>3. QED BY <1>2, <2>2 DEF PipelineInvariant, DerivationsInv, DevicesNotOlderThanUsed,
                               Exists, NotOlder
<1>3. QED BY <1>1, <1>2

\* An apply that reached everything.
LEMMA ApplyChildrenStep ==
    ASSUME TypeOK, PipelineInvariant, NEW c \in Controllers, ApplyChildren(c)
    PROVE  PipelineInvariant'
<1>1. /\ Apply(c, Nodes) /\ pc[c] = "apply" /\ pc'[c] = "status"
      /\ UNCHANGED <<net, cache, fresh, design>>
      /\ \A d \in Controllers \ {c} : pc'[d] = pc[d] /\ work'[d] = work[d]
  BY DEF ApplyChildren, Goto, TypeOK
<1>2. /\ c # "device" => devices' = devices
      /\ c = "device" /\ Live /\ net.dev = "Ready" => \A n \in Nodes :
            Exists(devices'[n]) => NotOlder(devices'[n].from, net.used)
      /\ c = "device" /\ "device" \in fresh => \A n \in Nodes :
            NotOlder(devices'[n].from, net.used)
  BY <1>1, ApplyStep
<1>3. c \in fresh => /\ cache.spec = net.spec /\ c \in net.fins
                     /\ c = "device" /\ Live => net.dev # "Ready"
                     /\ c = "params" /\ Live => net.param # "Ready"
  BY <1>1 DEF PipelineInvariant, CopiesInv, StagesInv, Writing
<1>4. OwnStepOK(c)
  BY <1>1, <1>2, <1>3 DEF OwnStepOK
<1>5. QED BY <1>4, OwnStep

\* An apply that sent nothing.
LEMMA ApplyRefusedStep ==
    ASSUME TypeOK, PipelineInvariant, NEW c \in Controllers, ApplyRefused(c)
    PROVE  PipelineInvariant'
<1>1. OwnStepOK(c)
  BY DEF ApplyRefused, OwnStepOK, Goto, TypeOK, children, PipelineInvariant,
         CopiesInv, StagesInv, Writing
<1>2. QED BY <1>1, OwnStep

\* Deleting devices leaves no older device behind.
LEMMA DeletedDevices ==
    ASSUME TypeOK, NEW c \in Controllers, NEW S \in SUBSET Nodes,
           DeleteChildren(c, S)
    PROVE  \A n \in Nodes : Exists(devices'[n]) => devices'[n].from = devices[n].from
<1>1. CASE c = "device"
  BY <1>1 DEF DeleteChildren, Exists, NoDevice, TypeOK
<1>2. CASE c # "device"
  BY <1>2 DEF DeleteChildren
<1>3. QED BY <1>1, <1>2

\* Deleting the owned objects.
LEMMA DeleteStep ==
    ASSUME TypeOK, PipelineInvariant, NEW c \in Controllers, Delete(c)
    PROVE  PipelineInvariant'
<1>1. \A n \in Nodes : Exists(devices'[n]) => devices'[n].from = devices[n].from
  BY DeletedDevices DEF Delete
<1>2. OwnStepOK(c)
  BY <1>1 DEF Delete, OwnStepOK, Goto, TypeOK, PipelineInvariant, CopiesInv, Writing
<1>3. QED BY <1>2, OwnStep

\* Releasing a finalizer, and the object with the last one.
LEMMA RemoveFinalizerStep ==
    ASSUME TypeOK, PipelineInvariant, NEW c \in Controllers, RemoveFinalizer(c)
    PROVE  PipelineInvariant'
<1> USE DEF RemoveFinalizer, children
<1>0. net \in NetworkObject
  BY DEF TypeOK
<1>1. CASE c \in fresh /\ c \in net.fins /\ fresh' = {} /\ UNCHANGED <<cache, design, devices>>
           /\ net' = [net EXCEPT !.fins = @ \ {c},
                                 !.phase = IF net.fins = {c} THEN "gone" ELSE @]
  <2>1. ~Live /\ pc[c] = "unfinalize"
    BY <1>1 DEF PipelineInvariant, CopiesInv
  <2>2. net'.phase # "live" /\ net'.spec = net.spec /\ net'.used = net.used
    BY <1>0, <1>1, <2>1 DEF NetworkObject, Live
  <2>3. CopiesInv' /\ StagesInv'
    BY <1>1, <2>2 DEF PipelineInvariant, CopiesInv, StagesInv, Live, CurrentRefs, NotOlder
  <2>4. DerivationsInv' /\ ReadyNeedsChildren' /\ DevicesNotOlderThanUsed'
    BY <1>1, <2>2 DEF DerivationsInv, Live, ReadyNeedsChildren, DevicesNotOlderThanUsed
  <2>5. QED BY <2>3, <2>4 DEF PipelineInvariant
<1>2. CASE /\ UNCHANGED <<net, cache, design, devices>>
           /\ c \notin fresh' /\ fresh' \subseteq fresh /\ pc'[c] \in {"idle", "fail"}
           /\ \A d \in Controllers \ {c} : pc'[d] = pc[d] /\ work'[d] = work[d]
  <2>1. OwnStepOK(c)
    BY <1>2 DEF OwnStepOK
  <2>2. QED BY <2>1, OwnStep
<1>3. QED BY <1>1, <1>2 DEF Goto, Return, TypeOK

\* What is left to show of a status update that changes conditions only.
ConditionsOK(c, new) ==
    /\ new.phase = net.phase /\ new.fins = net.fins
    /\ new.spec = net.spec /\ new.used = net.used
    /\ Live /\ new.ready = "Ready" => new.param = "Ready" /\ new.dev = "Ready"
    /\ Live /\ new.dev = "Ready" =>
          /\ "device" \in net.fins
          /\ net.dev # "Ready" => c = "device" /\ pc["device"] = "status"
    /\ Live /\ net.dev = "Ready" => new.dev = "Ready"
    /\ Live /\ net.param = "Ready" /\ net.dev = "Ready" => new.param = "Ready"

\* A status update whose conditions the inputs of the write justify.
LEMMA ConditionsStep ==
    ASSUME TypeOK, PipelineInvariant, NEW c \in Controllers,
           NEW new \in NetworkObject, NEW q, StatusUpdate(c, new, q),
           UNCHANGED <<cache, design, children>>,
           c \in fresh /\ new # net => ConditionsOK(c, new)
    PROVE  PipelineInvariant'
<1>1. ASSUME c \in fresh, new # net PROVE StatusWriteOK(c, new)
  <2>1. /\ \A d \in Controllers \ {c} : pc'[d] = pc[d] /\ work'[d] = work[d]
        /\ net' = new /\ fresh' = {} /\ pc'[c] = "idle"
        /\ UNCHANGED <<cache, design, devices>>
    BY <1>1 DEF StatusUpdate, Return, TypeOK, children
  <2>2. NotOlder(net.used, net.used) /\ NotOlder(CurrentRefs(net), net.used)
    BY InputTypes, NotOlderOrder DEF PipelineInvariant, CopiesInv
  <2>3. Live /\ new.dev = "Ready" =>
          /\ cache.spec >= net.used.spec
          /\ pc'["device"] = "apply" => NotOlder(work["device"], net.used)
          /\ \A n \in Nodes : Exists(devices[n]) => NotOlder(devices[n].from, net.used)
    <3>1. CASE net.dev = "Ready"
      BY <2>1, <3>1 DEF PipelineInvariant, DerivationsInv, DevicesNotOlderThanUsed, Controllers
    <3>2. CASE net.dev # "Ready" /\ Live /\ new.dev = "Ready"
      <4>1. c = "device" /\ pc["device"] = "status" /\ cache.spec = net.spec
        BY <1>1, <3>2 DEF ConditionsOK, PipelineInvariant, CopiesInv
      <4>2. net.spec >= net.used.spec
        BY <2>2 DEF NotOlder, CurrentRefs
      <4>3. QED BY <1>1, <2>1, <4>1, <4>2 DEF PipelineInvariant, DerivationsInv
    <3>3. QED BY <3>1, <3>2
  <2>4. Live /\ (\/ AreChildConditionsReady(cache) /\ cache.used = CurrentRefs(cache)
                 \/ pc'["network"] = "apply")
          => new.param = "Ready" /\ new.dev = "Ready"
    BY <1>1, <2>1 DEF ConditionsOK, PipelineInvariant, StagesInv, ChildrenReady, Controllers
  <2>5. QED BY <1>1, <2>1, <2>2, <2>3, <2>4 DEF StatusWriteOK, ConditionsOK
<1>2. QED BY <1>1, StatusUpdateStep DEF children

\* The params controller reports NetworkParamReady.
LEMMA ParamsStatusStep ==
    ASSUME TypeOK, PipelineInvariant, ParamsStatus
    PROVE  PipelineInvariant'
<1> DEFINE new == [net EXCEPT !.param = "Ready"]
<1>1. net \in NetworkObject /\ new \in NetworkObject /\ "params" \in Controllers
  BY DEF TypeOK, NetworkObject, Conditions, Controllers
<1>2. ConditionsOK("params", new)
  BY <1>1 DEF ConditionsOK, NetworkObject, PipelineInvariant, StagesInv,
              ReadyNeedsChildren, ChildrenReady
<1>3. QED BY <1>1, <1>2, ConditionsStep DEF ParamsStatus

\* The device controller reports the state of the devices.
LEMMA DeviceStatusStep ==
    ASSUME TypeOK, PipelineInvariant, DeviceStatus
    PROVE  PipelineInvariant'
<1>1. /\ net \in NetworkObject /\ DeviceResult(net) \in NetworkObject
      /\ "device" \in Controllers /\ pc["device"] = "status"
  BY ResultTypes, NoInputsType DEF TypeOK, Controllers, DeviceStatus
<1>2. ASSUME "device" \in fresh PROVE ConditionsOK("device", DeviceResult(net))
  <2>1. "device" \in net.fins /\ (Live => net.dev # "Ready")
    BY <1>1, <1>2 DEF PipelineInvariant, CopiesInv, StagesInv, Writing
  <2>2. Live => net.ready # "Ready"
    BY <2>1 DEF PipelineInvariant, ReadyNeedsChildren, ChildrenReady
  <2>3. QED BY <1>1, <2>1, <2>2 DEF ConditionsOK, DeviceResult, NetworkDeviceFailed,
                                    NetworkObject
<1>3. QED BY <1>1, <1>2, ConditionsStep DEF DeviceStatus

\* The network controller's last word on Ready disturbs nothing else.
LEMMA OverallStatus ==
    ASSUME TypeOK, PipelineInvariant, NEW s
    PROVE  ConditionsOK("network", SetOverallStatus([net EXCEPT !.ready = s]))
           /\ ConditionsOK("network", SetOverallStatus(net))
  BY DEF ConditionsOK, SetOverallStatus, IsFalse, NetworkObject, TypeOK,
         PipelineInvariant, StagesInv

\* The network controller records new references and resets the children.
LEMMA ResetStep ==
    ASSUME TypeOK, PipelineInvariant, pc["network"] = "reset", NEW q,
           UNCHANGED <<cache, design, children>>,
           StatusUpdate("network",
              SetOverallStatus(ResetChildConditions(net, work["network"])), q)
    PROVE  PipelineInvariant'
<1> DEFINE refs == work["network"]
           new  == SetOverallStatus(ResetChildConditions(net, refs))
<1>1. /\ net \in NetworkObject /\ refs \in Inputs /\ new \in NetworkObject
      /\ "network" \in Controllers
  BY ResultTypes DEF TypeOK, Controllers
<1>2. /\ new.phase = net.phase /\ new.fins = net.fins /\ new.spec = net.spec
      /\ new.used = refs /\ new.dev = "Processing" /\ new.ready = "Failed"
  BY <1>1 DEF SetOverallStatus, ResetChildConditions, IsFalse, NetworkObject
<1>3. ASSUME "network" \in fresh, new # net PROVE StatusWriteOK("network", new)
  <2>1. /\ \A d \in Controllers \ {"network"} : pc'[d] = pc[d] /\ work'[d] = work[d]
        /\ net' = new /\ fresh' = {} /\ pc'["network"] = "idle"
        /\ UNCHANGED <<cache, design, devices>>
    BY <1>1, <1>3 DEF StatusUpdate, Return, TypeOK, children
  <2>2. /\ refs # net.used
        /\ NotOlder(refs, net.used)
        /\ NotOlder(CurrentRefs(net), refs)
    BY <1>3 DEF PipelineInvariant, StagesInv
  <2>3. cache.used # CurrentRefs(cache)
    <3>1. SUFFICES ASSUME cache.used = CurrentRefs(cache) PROVE FALSE
      OBVIOUS
    <3>2. cache.used = CurrentRefs(net) /\ NotOlder(net.used, cache.used)
      BY <1>1, <1>3, <3>1 DEF PipelineInvariant, CopiesInv, CurrentRefs
    <3>3. net.used = CurrentRefs(net)
      BY <2>2, <3>2, InputTypes, NotOlderOrder DEF PipelineInvariant, CopiesInv
    <3>4. QED BY <1>1, <2>2, <3>3, InputTypes, NotOlderOrder
  <2>4. QED BY <1>2, <2>1, <2>2, <2>3 DEF StatusWriteOK
<1>4. QED BY <1>1, <1>3, StatusUpdateStep DEF children

\* Every status the network controller writes.
LEMMA NetworkStatusStep ==
    ASSUME TypeOK, PipelineInvariant, NetworkStatus
    PROVE  PipelineInvariant'
<1>1. /\ net \in NetworkObject /\ "network" \in Controllers
      /\ SetOverallStatus(net) \in NetworkObject
      /\ NetworkResult(net) \in NetworkObject
  BY ResultTypes, NoInputsType DEF TypeOK, Controllers
<1>2. CASE pc["network"] = "reset"
  BY <1>2, ResetStep DEF NetworkStatus
<1>3. CASE pc["network"] = "pending"
  BY <1>1, <1>3, OverallStatus, ConditionsStep DEF NetworkStatus
<1>4. CASE pc["network"] = "status"
  <2>1. ConditionsOK("network", NetworkResult(net))
    BY OverallStatus DEF NetworkResult
  <2>2. QED BY <1>1, <1>4, <2>1, ConditionsStep DEF NetworkStatus
<1>5. QED BY <1>2, <1>3, <1>4 DEF NetworkStatus

\* handleError of each controller.
LEMMA FailStep ==
    ASSUME TypeOK, PipelineInvariant, NEW c \in Controllers, Fail(c)
    PROVE  PipelineInvariant'
<1>1. net \in NetworkObject /\ HandleError(c, net) \in NetworkObject /\ pc[c] = "fail"
  BY ResultTypes, NoInputsType DEF TypeOK, Fail
<1>2. ASSUME c \in fresh PROVE ConditionsOK(c, HandleError(c, net))
  <2>1. CASE c = "network"
    BY <2>1, OverallStatus DEF HandleError
  <2>2. CASE c = "params"
    <3>1. Live => net.param # "Ready" /\ net.ready # "Ready"
      BY <1>1, <1>2, <2>2 DEF PipelineInvariant, StagesInv, Writing,
                              ReadyNeedsChildren, ChildrenReady
    <3>2. HandleError(c, net) = [net EXCEPT !.param = "Failed"]
      BY <2>2 DEF HandleError, NetworkParamFailed
    <3>3. QED BY <1>1, <3>1, <3>2 DEF ConditionsOK, NetworkObject, PipelineInvariant, StagesInv
  <2>3. CASE c = "device"
    <3>1. Live => net.dev # "Ready" /\ net.ready # "Ready"
      BY <1>1, <1>2, <2>3 DEF PipelineInvariant, StagesInv, Writing,
                              ReadyNeedsChildren, ChildrenReady
    <3>2. HandleError(c, net) = [net EXCEPT !.param = "Failed"]
      BY <2>3 DEF HandleError, NetworkDeviceFailed
    <3>3. QED BY <1>1, <3>1, <3>2 DEF ConditionsOK, NetworkObject, PipelineInvariant, StagesInv
  <2>4. QED BY <2>1, <2>2, <2>3 DEF Controllers
<1>3. QED BY <1>1, <1>2, ConditionsStep DEF Fail

\* A failed request, with whatever it had reached.
LEMMA RequestFailsStep ==
    ASSUME TypeOK, PipelineInvariant, NEW c \in Controllers, RequestFails(c)
    PROVE  PipelineInvariant'
<1>0. UNCHANGED <<net, cache, design>>
  BY DEF RequestFails
<1>1. CASE pc[c] \in {"finalize", "unfinalize"}
  <2>1. /\ fresh' = fresh /\ devices' = devices /\ pc'[c] = "fail"
        /\ \A d \in Controllers \ {c} : pc'[d] = pc[d] /\ work'[d] = work[d]
    BY <1>1 DEF RequestFails, Goto, TypeOK, children
  <2>2. OwnStepOK(c) \/ (c \in fresh /\ pc[c] = "unfinalize")
    BY <1>0, <1>1, <2>1 DEF OwnStepOK, PipelineInvariant, CopiesInv, StagesInv, Writing
  <2>3. CASE c \in fresh /\ pc[c] = "unfinalize"
    <3>1. OwnStepOK(c)
      BY <1>0, <2>1, <2>3 DEF OwnStepOK, PipelineInvariant, CopiesInv
    <3>2. QED BY <3>1, OwnStep
  <2>4. QED BY <2>2, <2>3, OwnStep
<1>2. CASE pc[c] = "apply"
  <2>1. PICK S \in SUBSET Nodes : Apply(c, S)
    BY <1>2 DEF RequestFails
  <2>2. /\ fresh' = fresh /\ pc'[c] = "fail"
        /\ \A d \in Controllers \ {c} : pc'[d] = pc[d] /\ work'[d] = work[d]
    BY <1>2 DEF RequestFails, Goto, TypeOK
  <2>3. /\ c # "device" => devices' = devices
        /\ c = "device" /\ Live /\ net.dev = "Ready" => \A n \in Nodes :
              Exists(devices'[n]) => NotOlder(devices'[n].from, net.used)
    BY <1>2, <2>1, ApplyStep
  <2>4. OwnStepOK(c)
    BY <1>0, <1>2, <2>2, <2>3 DEF OwnStepOK, PipelineInvariant, CopiesInv, StagesInv, Writing
  <2>5. QED BY <2>4, OwnStep
<1>3. CASE pc[c] = "delete"
  <2>1. PICK S \in SUBSET Nodes : DeleteChildren(c, S)
    BY <1>3 DEF RequestFails
  <2>2. /\ fresh' = fresh /\ pc'[c] = "fail"
        /\ \A d \in Controllers \ {c} : pc'[d] = pc[d] /\ work'[d] = work[d]
    BY <1>3 DEF RequestFails, Goto, TypeOK
  <2>3. \A n \in Nodes : Exists(devices'[n]) => devices'[n].from = devices[n].from
    BY <2>1, DeletedDevices
  <2>4. OwnStepOK(c)
    BY <1>0, <1>3, <2>2, <2>3 DEF OwnStepOK, PipelineInvariant, CopiesInv
  <2>5. QED BY <2>4, OwnStep
<1>4. CASE pc[c] \in {"reset", "pending", "status", "fail"}
  <2>1. OwnStepOK(c)
    BY <1>0, <1>4 DEF RequestFails, OwnStepOK, Return, TypeOK, children
  <2>2. QED BY <2>1, OwnStep
<1>5. QED BY <1>1, <1>2, <1>3, <1>4 DEF RequestFails

\* The rest of the cluster.
LEMMA ClusterStep ==
    ASSUME TypeOK, PipelineInvariant, Informers \/ Cluster
    PROVE  PipelineInvariant'
<1>1. CASE SyncNetwork \/ Restart
  BY <1>1, CacheStep
<1>2. ASSUME NEW n \in Nodes, SyncDevice(n) \/ SyncConfig(n) \/ ClaimReady(n) \/ ConfigReconcile(n)
                              \/ ConfigFails(n)
      PROVE  PipelineInvariant'
  BY <1>2, QuietStep DEF SyncDevice, SyncConfig, ClaimReady, ConfigReconcile, ConfigFails
<1>3. ASSUME NEW n \in Nodes, ProviderReconcile(n) \/ ProviderFails(n)
      PROVE  PipelineInvariant'
  <2>1. \A m \in Nodes : devices'[m].from = devices[m].from
    <3>1. CASE ProviderReconcile(n)
      <4>1. \A m \in Nodes : devices'[m] =
               IF m = n THEN [devices[n] EXCEPT !.prov = devices[n].from, !.st = "Ready"]
                        ELSE devices[m]
        BY <3>1 DEF ProviderReconcile, TypeOK
      <4>2. devices[n] \in DeviceObject
        BY DEF TypeOK
      <4>3. [devices[n] EXCEPT !.prov = devices[n].from, !.st = "Ready"].from
               = devices[n].from
        BY <4>2 DEF DeviceObject
      <4>4. QED BY <4>1, <4>3
    <3>2. CASE ProviderFails(n)
      BY <3>2 DEF ProviderFails, TypeOK, DeviceObject
    <3>3. QED BY <1>3, <3>1, <3>2
  <2>2. UNCHANGED <<net, cache, fresh, design, pc, work>>
    BY <1>3 DEF ProviderReconcile, ProviderFails
  <2>3. QED BY <2>1, <2>2, QuietStep
<1>4. QED BY <1>1, <1>2, <1>3, SpecChangeStep, DesignChangeStep, DeleteNetworkStep,
             RequestFailsStep DEF Informers, Cluster

-----------------------------------------------------------------------------
(* The theorems.                                                           *)

\* In no interleaving of the controllers, the informers, failures, restarts
\* and changes does a controller store a conclusion that the stored Network
\* no longer supports.
THEOREM PipelineCorrect == Spec => []PipelineInvariant
<1>1. Init => PipelineInvariant
  BY PipelineAssumption
  DEF Init, PipelineInvariant, CopiesInv, StagesInv, DerivationsInv, ReadyNeedsChildren,
      DevicesNotOlderThanUsed, NewNetwork, NoInputs, NotOlder, CurrentRefs, Controllers,
      AreChildConditionsReady, IsFalse, Live
<1>2. TypeOK /\ PipelineInvariant /\ [Next]_vars => PipelineInvariant'
  <2> SUFFICES ASSUME TypeOK, PipelineInvariant, [Next]_vars PROVE PipelineInvariant'
    OBVIOUS
  <2>1. ASSUME NEW c \in Controllers, Controller(c) PROVE PipelineInvariant'
    BY <2>1, StartStep, AddFinalizerStep, ApplyChildrenStep, ApplyRefusedStep,
       ParamsStatusStep, DeviceStatusStep, NetworkStatusStep, DeleteStep,
       RemoveFinalizerStep, FailStep DEF Controller, Status
  <2>2. CASE UNCHANGED vars
    BY <2>2, QuietStep DEF vars
  <2>3. QED BY <2>1, <2>2, ClusterStep DEF Next
<1>3. QED BY <1>1, <1>2, TypeCorrect, PTL DEF Spec

\* Ready of a live Network implies NetworkParamReady and NetworkDeviceReady.
THEOREM ReadyIsEarned == Spec => []ReadyNeedsChildren
<1>1. PipelineInvariant => ReadyNeedsChildren
  BY DEF PipelineInvariant
<1>2. QED BY <1>1, PipelineCorrect, PTL

\* NetworkDeviceReady vouches for devices no older than the references in use.
THEOREM DevicesUpToDate == Spec => []DevicesNotOlderThanUsed
<1>1. PipelineInvariant => DevicesNotOlderThanUsed
  BY DEF PipelineInvariant
<1>2. QED BY <1>1, PipelineCorrect, PTL

\* How a step moves the references and NetworkDeviceReady.
Moves ==
    \/ /\ net'.used = net.used
       /\ Live /\ net.dev = "Ready" => net'.dev = "Ready"
    \/ /\ NotOlder(net'.used, net.used)
       /\ net'.used # net.used

\* What the status update of each controller may do to a live Network.
LEMMA StatusMoves ==
    ASSUME TypeOK, PipelineInvariant, NEW c \in Controllers,
           NEW new, NEW q, StatusUpdate(c, new, q),
           c \in fresh => ConditionsOK(c, new)
    PROVE  Moves
<1>1. CASE c \in fresh
  BY <1>1 DEF StatusUpdate, Moves, ConditionsOK
<1>2. CASE c \notin fresh
  BY <1>2 DEF StatusUpdate, Moves
<1>3. QED BY <1>1, <1>2

\* What any step may do to the status of a live Network.
LEMMA StepMoves ==
    ASSUME TypeOK, PipelineInvariant, [Next]_vars
    PROVE  Moves
<1> USE DEF Moves
<1>0. net \in NetworkObject
  BY DEF TypeOK
<1>1. CASE net' = net
  BY <1>1
<1>2. ASSUME NEW c \in Controllers,
             Start(c) \/ ApplyChildren(c) \/ ApplyRefused(c) \/ Delete(c) \/ RequestFails(c)
      PROVE  Moves
  BY <1>1, <1>2 DEF Start, ApplyChildren, ApplyRefused, Delete, RequestFails
<1>3. ASSUME NEW c \in Controllers, AddFinalizer(c) \/ RemoveFinalizer(c) PROVE Moves
  <2>1. net'.used = net.used /\ net'.dev = net.dev
    BY <1>0, <1>3 DEF AddFinalizer, RemoveFinalizer, NetworkObject
  <2>2. QED BY <2>1
<1>4. CASE ParamsStatus
  <2>1. ConditionsOK("params", [net EXCEPT !.param = "Ready"])
    BY <1>0 DEF ConditionsOK, NetworkObject, PipelineInvariant, StagesInv,
                ReadyNeedsChildren, ChildrenReady
  <2>2. QED BY <1>4, <2>1, StatusMoves DEF ParamsStatus, Controllers
<1>5. CASE DeviceStatus
  <2>1. DeviceResult(net).used = net.used /\ ("device" \in fresh /\ Live => net.dev # "Ready")
    BY <1>0, <1>5 DEF DeviceStatus, DeviceResult, NetworkDeviceFailed, NetworkObject,
                      PipelineInvariant, StagesInv, Writing
  <2>2. QED BY <1>5, <2>1 DEF DeviceStatus, StatusUpdate
<1>6. CASE NetworkStatus
  <2>1. CASE pc["network"] = "reset"
    <3>1. SetOverallStatus(ResetChildConditions(net, work["network"])).used = work["network"]
      BY <1>0 DEF SetOverallStatus, ResetChildConditions, NetworkObject
    <3>2. "network" \in fresh =>
             work["network"] # net.used /\ NotOlder(work["network"], net.used)
      BY <2>1 DEF PipelineInvariant, StagesInv
    <3>3. QED BY <1>6, <2>1, <3>1, <3>2 DEF NetworkStatus, StatusUpdate
  <2>2. CASE pc["network"] # "reset"
    <3>1. /\ ConditionsOK("network", SetOverallStatus(net))
          /\ ConditionsOK("network", NetworkResult(net))
      BY OverallStatus DEF NetworkResult
    <3>2. QED BY <1>6, <2>2, <3>1, StatusMoves DEF NetworkStatus, Controllers
  <2>3. QED BY <2>1, <2>2
<1>7. ASSUME NEW c \in Controllers, Fail(c) PROVE Moves
  <2>1. /\ HandleError(c, net).used = net.used
        /\ HandleError(c, net).dev = net.dev
    BY <1>0 DEF HandleError, SetOverallStatus, NetworkParamFailed, NetworkDeviceFailed,
                NetworkObject, Controllers
  <2>2. QED BY <1>7, <2>1 DEF Fail, StatusUpdate
<1>8. CASE Informers
  BY <1>1, <1>8 DEF Informers, SyncNetwork, SyncDevice, SyncConfig
<1>9. CASE Cluster
  <2>1. CASE SpecChange \/ DeleteNetwork
    BY <1>0, <2>1 DEF SpecChange, DeleteNetwork, NetworkObject
  <2>2. QED BY <1>1, <1>9, <2>1, <1>2
        DEF Cluster, ClaimReady, ProviderReconcile, ConfigReconcile, ProviderFails,
            ConfigFails, DesignChange, Restart
<1>10. QED BY <1>1, <1>2, <1>3, <1>4, <1>5, <1>6, <1>7, <1>8, <1>9
           DEF Next, Controller, Status, vars

\* Status.UsedReferences never moves back.
THEOREM ReferencesAdvance == Spec => UsedReferencesAdvance
<1>1. TypeOK /\ PipelineInvariant /\ [Next]_vars => [NotOlder(net'.used, net.used)]_vars
  <2> SUFFICES ASSUME TypeOK, PipelineInvariant, [Next]_vars
               PROVE  NotOlder(net'.used, net.used)
    OBVIOUS
  <2>1. NotOlder(net.used, net.used)
    BY InputTypes, NotOlderOrder
  <2>2. QED BY <2>1, StepMoves DEF Moves
<1>2. QED BY <1>1, TypeCorrect, PipelineCorrect, PTL DEF Spec, UsedReferencesAdvance

\* NetworkDeviceReady of a live Network is withdrawn only together with the
\* references it was earned with.
THEOREM DeviceReadyStable == Spec => DeviceReadyUntilChange
<1>1. TypeOK /\ PipelineInvariant /\ [Next]_vars =>
         [Live /\ net.dev = "Ready" /\ net'.dev # "Ready" => net'.used # net.used]_vars
  BY StepMoves DEF Moves
<1>2. QED BY <1>1, TypeCorrect, PipelineCorrect, PTL DEF Spec, DeviceReadyUntilChange

\* The network controller decides on a cached copy, yet pushes Configs only
\* while the stored Network has both child conditions.
THEOREM DeploysOnlyWhenReady == Spec => DeployOnlyWhenReady
<1>1. TypeOK /\ PipelineInvariant /\ [Next]_vars =>
         [Live /\ (\E n \in Nodes : PushesConfig(n)) => ChildrenReady]_vars
  <2> SUFFICES ASSUME TypeOK, PipelineInvariant, [Next]_vars, Live,
                      NEW n \in Nodes, PushesConfig(n)
               PROVE  ChildrenReady
    OBVIOUS
  <2>1. configs'[n].from # configs[n].from /\ configs'[n].from # NoInputs
    BY DEF PushesConfig
  <2>2. ASSUME NEW c \in Controllers, NEW S \in SUBSET Nodes, Apply(c, S), pc[c] = "apply"
        PROVE  ChildrenReady
    BY <2>1, <2>2 DEF Apply, ApplyClaims, ApplyDevices, PipelineInvariant, StagesInv
  <2>3. ASSUME NEW c \in Controllers, NEW S \in SUBSET Nodes, DeleteChildren(c, S)
        PROVE  FALSE
    BY <2>1, <2>3 DEF DeleteChildren, NoConfig
  <2>4. configs' # configs
    BY <2>1
  <2>5. ASSUME NEW c \in Controllers, Controller(c) PROVE ChildrenReady
    BY <2>2, <2>3, <2>4, <2>5
    DEF Controller, Status, Start, AddFinalizer, ApplyChildren, ApplyRefused, ParamsStatus,
        DeviceStatus, NetworkStatus, Delete, RemoveFinalizer, Fail, children
  <2>6. ASSUME NEW c \in Controllers, RequestFails(c) PROVE ChildrenReady
    BY <2>2, <2>3, <2>4, <2>6 DEF RequestFails, children
  <2>7. ASSUME NEW m \in Nodes, ConfigReconcile(m) \/ ConfigFails(m) PROVE FALSE
    BY <2>1, <2>7 DEF ConfigReconcile, ConfigFails, TypeOK, ConfigObject
  <2>8. QED BY <2>4, <2>5, <2>6, <2>7
        DEF Next, Informers, Cluster, SyncNetwork, SyncDevice, SyncConfig, ClaimReady,
            ProviderReconcile, ProviderFails, SpecChange, DesignChange, DeleteNetwork,
            Restart, children, vars
<1>2. QED BY <1>1, TypeCorrect, PipelineCorrect, PTL DEF Spec, DeployOnlyWhenReady

-----------------------------------------------------------------------------
(* Ownership.                                                              *)

\* Where each thing that OwnershipInvariant speaks of can come from, and what
\* a step cannot take away from a live Network.
NetworkStepOK ==
    /\ Live' => Live /\ net.fins \subseteq net'.fins
    /\ cache' = cache \/ (cache' = net /\ net' = net)
    /\ net'.param = "Ready" => net.param = "Ready" \/ pc["params"] = "status"

RequestsStepOK ==
    /\ \A c \in Controllers :
          /\ pc'[c] \in {"delete", "unfinalize"} =>
                pc[c] \in {"delete", "unfinalize"} \/ cache.phase # "live"
          /\ pc'[c] \in {"apply", "status"} =>
                pc[c] \in {"apply", "status"} \/ c \in cache.fins \/ c \in net'.fins
    /\ pc'["params"] = "status" /\ IsDefault =>
          pc["params"] = "status" \/ \A n \in Nodes : claims'[n] # "none"

ObjectsStepOK ==
    \A n \in Nodes :
       /\ Live /\ claims[n] # "none" => claims'[n] # "none"
       /\ claims'[n] # "none" => claims[n] # "none" \/ pc["params"] = "apply"
       /\ Exists(devices'[n]) => Exists(devices[n]) \/ pc["device"] = "apply"
       /\ Exists(configs'[n]) => Exists(configs[n]) \/ pc["network"] = "apply"

OwnershipStepOK == NetworkStepOK /\ RequestsStepOK /\ ObjectsStepOK

\* Ownership does not depend on the status of the Network.
LEMMA ObjectsUnchanged ==
    ASSUME UNCHANGED <<claims, devices, configs>>
    PROVE  ObjectsStepOK
  BY DEF ObjectsStepOK, Exists

\* Nor on steps that leave the Network and the cache alone.
LEMMA NetworkUnchanged ==
    ASSUME UNCHANGED <<net, cache>>
    PROVE  NetworkStepOK
  BY DEF NetworkStepOK, Live

\* A controller that gives up or returns starts no other request.
LEMMA RequestsEnd ==
    ASSUME \A d \in Controllers : pc'[d] \in {pc[d], "fail", "idle"}
    PROVE  RequestsStepOK
  BY DEF RequestsStepOK, Controllers

\* Steps after which every object and finalizer is still there.
LEMMA OwnershipKept ==
    ASSUME OwnershipInvariant, OwnershipStepOK
    PROVE  OwnershipInvariant'
<1> USE DEF OwnershipInvariant, OwnershipStepOK, NetworkStepOK, RequestsStepOK, ObjectsStepOK
<1>1. (cache.phase # "live" => ~Live)'
  BY DEF Live
<1>2. (Live => cache.fins \subseteq net.fins)'
  BY DEF Live
<1>3. (\A c \in Controllers :
          /\ pc[c] \in {"delete", "unfinalize"} => ~Live
          /\ Live /\ pc[c] \in {"apply", "status"} => c \in net.fins)'
  OBVIOUS
<1>4. (Live /\ IsDefault /\ pc["params"] = "status" =>
          \A n \in Nodes : claims[n] # "none")'
  OBVIOUS
<1>5. OwnersHoldFinalizers'
  <2>1. /\ Live /\ pc["params"] = "apply" => "params" \in net.fins
        /\ Live /\ pc["device"] = "apply" => "device" \in net.fins
        /\ Live /\ pc["network"] = "apply" => "network" \in net.fins
    BY DEF Controllers
  <2>2. Live' => Live /\ net.fins \subseteq net'.fins
    OBVIOUS
  <2>3. /\ (Live => ((\E n \in Nodes : claims[n] # "none") => "params" \in net.fins))'
        /\ (Live => ((\E n \in Nodes : Exists(devices[n])) => "device" \in net.fins))'
        /\ (Live => ((\E n \in Nodes : Exists(configs[n])) => "network" \in net.fins))'
    BY <2>1, <2>2 DEF OwnersHoldFinalizers
  <2>4. QED BY <2>3 DEF OwnersHoldFinalizers
<1>6. ParamReadyHasClaims'
  BY DEF ParamReadyHasClaims
<1>7. QED BY <1>1, <1>2, <1>3, <1>4, <1>5, <1>6

\* Applying objects under a finalizer that is held.
LEMMA ApplyOwnership ==
    ASSUME TypeOK, NEW c \in Controllers, NEW S \in SUBSET Nodes,
           pc[c] = "apply", Apply(c, S)
    PROVE  /\ \A n \in Nodes :
                 /\ claims[n] # "none" => claims'[n] # "none"
                 /\ claims'[n] # "none" => claims[n] # "none" \/ pc["params"] = "apply"
                 /\ Exists(devices'[n]) => Exists(devices[n]) \/ pc["device"] = "apply"
                 /\ Exists(configs'[n]) => Exists(configs[n]) \/ pc["network"] = "apply"
           /\ c = "params" /\ IsDefault => \A n \in S : claims'[n] # "none"
<1>1. CASE c = "params" /\ ApplyClaims(S)
  BY <1>1 DEF ApplyClaims, Exists
<1>2. CASE c = "device" /\ ApplyDevices(S, work["device"])
  BY <1>2 DEF ApplyDevices, Exists
<1>3. CASE c = "network" /\ ApplyConfigs(S)
  BY <1>3 DEF ApplyConfigs, Exists
<1>4. QED BY <1>1, <1>2, <1>3 DEF Apply

\* Deleting objects of a Network that is not live.
LEMMA DeleteOwnership ==
    ASSUME TypeOK, NEW c \in Controllers, NEW S \in SUBSET Nodes,
           DeleteChildren(c, S)
    PROVE  \A n \in Nodes :
              /\ claims'[n] # "none" => claims[n] # "none"
              /\ Exists(devices'[n]) => Exists(devices[n])
              /\ Exists(configs'[n]) => Exists(configs[n])
<1>1. CASE c = "params"
  BY <1>1 DEF DeleteChildren, Exists
<1>2. CASE c = "device"
  BY <1>2 DEF DeleteChildren, Exists, NoDevice
<1>3. CASE c = "network"
  BY <1>3 DEF DeleteChildren, Exists, NoConfig
<1>4. QED BY <1>1, <1>2, <1>3 DEF Controllers

\* Every step of a controller keeps ownership.
LEMMA ControllerOwnership ==
    ASSUME TypeOK, PipelineInvariant, OwnershipInvariant,
           NEW c \in Controllers, Controller(c)
    PROVE  OwnershipStepOK
<1> USE DEF children
<1>0. net \in NetworkObject /\ cache \in NetworkObject
  BY DEF TypeOK
<1>1. CASE Start(c)
  <2>1. UNCHANGED <<net, cache, claims, devices, configs>>
    BY <1>1 DEF Start
  <2>2. /\ \A d \in Controllers \ {c} : pc'[d] = pc[d]
        /\ pc'[c] \in {"delete", "unfinalize"} => cache.phase # "live"
        /\ pc'[c] \in {"apply", "status"} => c \in cache.fins
        /\ pc'[c] # "status"
    <3>1. CASE Proceed(c, cache, queue \ {c}) /\ c \in cache.fins
      BY <1>0, <3>1, ProceedStep DEF Controllers
    <3>2. CASE ~(Proceed(c, cache, queue \ {c}) /\ c \in cache.fins)
      BY <1>1, <3>2 DEF Start, Goto, Return, TypeOK
    <3>3. QED BY <3>1, <3>2
  <2>3. RequestsStepOK
    BY <2>2 DEF RequestsStepOK, Controllers
  <2>4. QED BY <2>1, <2>3, ObjectsUnchanged, NetworkUnchanged DEF OwnershipStepOK
<1>2. CASE AddFinalizer(c)
  <2>1. /\ UNCHANGED <<cache, claims, devices, configs>>
        /\ net'.phase = net.phase /\ net'.param = net.param
        /\ net.fins \subseteq net'.fins
    BY <1>0, <1>2 DEF AddFinalizer, NetworkObject
  <2>2. /\ \A d \in Controllers \ {c} : pc'[d] = pc[d]
        /\ pc'[c] \notin {"delete", "unfinalize", "status"}
        /\ pc'[c] = "apply" => c \in net'.fins
    <3>1. CASE c \in fresh
      <4>1. PICK new \in NetworkObject : /\ net' = new /\ c \in new.fins
                                         /\ Proceed(c, new, queue)
        BY <1>0, <1>2, <3>1 DEF AddFinalizer, NetworkObject
      <4>2. QED BY <4>1, ProceedStep DEF Controllers
    <3>2. CASE c \notin fresh
      BY <1>2, <3>2 DEF AddFinalizer, Goto, TypeOK
    <3>3. QED BY <3>1, <3>2
  <2>3. NetworkStepOK
    BY <2>1 DEF NetworkStepOK, Live
  <2>4. RequestsStepOK
    BY <2>2 DEF RequestsStepOK, Controllers
  <2>5. QED BY <2>1, <2>3, <2>4, ObjectsUnchanged DEF OwnershipStepOK
<1>3. CASE ApplyChildren(c)
  <2>1. Apply(c, Nodes) /\ pc[c] = "apply" /\ UNCHANGED <<net, cache>>
        /\ pc' = [pc EXCEPT ![c] = "status"]
    BY <1>3 DEF ApplyChildren, Goto
  <2>2. ObjectsStepOK /\ (c = "params" /\ IsDefault => \A n \in Nodes : claims'[n] # "none")
    BY <2>1, ApplyOwnership DEF ObjectsStepOK
  <2>3. RequestsStepOK
    BY <2>1, <2>2 DEF RequestsStepOK, TypeOK
  <2>4. QED BY <2>1, <2>2, <2>3, NetworkUnchanged DEF OwnershipStepOK
<1>4. CASE ApplyRefused(c) \/ Fail(c) \/ Status(c)
  <2>1. /\ UNCHANGED <<cache, claims, devices, configs>>
        /\ \A d \in Controllers : pc'[d] \in {pc[d], "fail", "idle"}
    BY <1>4 DEF ApplyRefused, Fail, Status, ParamsStatus, DeviceStatus, NetworkStatus,
                StatusUpdate, Goto, Return, TypeOK
  <2>2. /\ net'.phase = net.phase /\ net'.fins = net.fins
        /\ net'.param = "Ready" => net.param = "Ready" \/ pc["params"] = "status"
    <3>1. CASE ApplyRefused(c)
      BY <3>1 DEF ApplyRefused
    <3>2. CASE Fail(c)
      BY <1>0, <3>2 DEF Fail, StatusUpdate, HandleError, SetOverallStatus, NetworkObject,
                        NetworkParamFailed, NetworkDeviceFailed, Controllers
    <3>3. CASE ParamsStatus \/ DeviceStatus
      BY <1>0, <3>3 DEF ParamsStatus, DeviceStatus, StatusUpdate, DeviceResult,
                        NetworkDeviceFailed, NetworkObject
    <3>4. CASE NetworkStatus
      BY <1>0, <3>4 DEF NetworkStatus, StatusUpdate, NetworkResult, SetOverallStatus,
                        ResetChildConditions, NetworkObject
    <3>5. QED BY <1>4, <3>1, <3>2, <3>3, <3>4 DEF Status
  <2>3. NetworkStepOK
    BY <2>1, <2>2 DEF NetworkStepOK, Live
  <2>4. QED BY <2>1, <2>3, RequestsEnd, ObjectsUnchanged DEF OwnershipStepOK
<1>5. CASE Delete(c)
  <2>1. /\ DeleteChildren(c, Nodes) /\ pc[c] = "delete" /\ UNCHANGED <<net, cache>>
        /\ pc' = [pc EXCEPT ![c] = "unfinalize"] /\ ~Live
    BY <1>5 DEF Delete, Goto, OwnershipInvariant
  <2>2. ObjectsStepOK
    BY <2>1, DeleteOwnership DEF ObjectsStepOK
  <2>3. RequestsStepOK
    BY <2>1 DEF RequestsStepOK, TypeOK
  <2>4. QED BY <2>1, <2>2, <2>3, NetworkUnchanged DEF OwnershipStepOK
<1>6. CASE RemoveFinalizer(c)
  <2>1. /\ UNCHANGED <<cache, claims, devices, configs>> /\ ~Live
        /\ \A d \in Controllers : pc'[d] \in {pc[d], "fail", "idle"}
    BY <1>6 DEF RemoveFinalizer, Goto, Return, TypeOK, OwnershipInvariant
  <2>2. net'.phase # "live" /\ net'.param = net.param
    BY <1>0, <1>6, <2>1 DEF RemoveFinalizer, NetworkObject, Live
  <2>3. NetworkStepOK
    BY <2>1, <2>2 DEF NetworkStepOK, Live
  <2>4. QED BY <2>1, <2>3, RequestsEnd, ObjectsUnchanged DEF OwnershipStepOK
<1>7. QED BY <1>1, <1>2, <1>3, <1>4, <1>5, <1>6 DEF Controller

\* Every step of the informers and of the cluster keeps ownership.
LEMMA ClusterOwnership ==
    ASSUME TypeOK, PipelineInvariant, OwnershipInvariant, Informers \/ Cluster
    PROVE  OwnershipStepOK
<1> USE DEF children
<1>0. net \in NetworkObject
  BY DEF TypeOK
<1>1. ASSUME NEW n \in Nodes, SyncDevice(n) \/ SyncConfig(n) \/ ClaimReady(n)
                              \/ ProviderReconcile(n) \/ ConfigReconcile(n)
                              \/ ProviderFails(n) \/ ConfigFails(n)
      PROVE  OwnershipStepOK
  <2>1. UNCHANGED <<net, cache, pc>>
    BY <1>1 DEF SyncDevice, SyncConfig, ClaimReady, ProviderReconcile, ConfigReconcile,
                ProviderFails, ConfigFails
  <2>2. \A m \in Nodes :
           /\ claims'[m] # "none" <=> claims[m] # "none"
           /\ devices'[m].from = devices[m].from
           /\ configs'[m].from = configs[m].from
    <3>1. CASE SyncDevice(n) \/ SyncConfig(n)
      BY <3>1 DEF SyncDevice, SyncConfig
    <3>2. CASE ClaimReady(n)
      BY <3>2 DEF ClaimReady, TypeOK
    <3>3. CASE ProviderReconcile(n)
      <4>1. \A m \in Nodes : devices'[m] =
               IF m = n THEN [devices[n] EXCEPT !.prov = devices[n].from, !.st = "Ready"]
                        ELSE devices[m]
        BY <3>3 DEF ProviderReconcile, TypeOK
      <4>2. devices[n] \in DeviceObject
        BY DEF TypeOK
      <4>3. [devices[n] EXCEPT !.prov = devices[n].from, !.st = "Ready"].from
               = devices[n].from
        BY <4>2 DEF DeviceObject
      <4>4. QED BY <3>3, <4>1, <4>3 DEF ProviderReconcile
    <3>4. CASE ProviderFails(n)
      BY <3>4 DEF ProviderFails, TypeOK, DeviceObject
    <3>5. CASE ConfigReconcile(n) \/ ConfigFails(n)
      BY <3>5 DEF ConfigReconcile, ConfigFails, TypeOK, ConfigObject
    <3>6. QED BY <1>1, <3>1, <3>2, <3>3, <3>4, <3>5
  <2>3. ObjectsStepOK
    BY <2>2 DEF ObjectsStepOK, Exists
  <2>4. QED BY <2>1, <2>3, NetworkUnchanged, RequestsEnd DEF OwnershipStepOK
<1>2. CASE SyncNetwork \/ Restart
  <2>1. /\ UNCHANGED <<net, claims, devices, configs>> /\ cache' = net
        /\ \A d \in Controllers : pc'[d] \in {pc[d], "fail", "idle"}
    BY <1>2 DEF SyncNetwork, Restart
  <2>2. NetworkStepOK
    BY <2>1 DEF NetworkStepOK, Live
  <2>3. QED BY <2>1, <2>2, ObjectsUnchanged, RequestsEnd DEF OwnershipStepOK
<1>3. CASE SpecChange \/ DeleteNetwork \/ DesignChange
  <2>1. /\ UNCHANGED <<cache, pc, claims, devices, configs>>
        /\ net'.fins = net.fins /\ net'.param = net.param
        /\ Live' => Live
    BY <1>0, <1>3 DEF SpecChange, DeleteNetwork, DesignChange, NetworkObject, Live
  <2>2. NetworkStepOK
    BY <2>1 DEF NetworkStepOK
  <2>3. QED BY <2>1, <2>2, ObjectsUnchanged, RequestsEnd DEF OwnershipStepOK
<1>4. ASSUME NEW c \in Controllers, RequestFails(c) PROVE OwnershipStepOK
  <2>1. /\ UNCHANGED <<net, cache>>
        /\ \A d \in Controllers : pc'[d] \in {pc[d], "fail", "idle"}
    BY <1>4 DEF RequestFails, Goto, Return, TypeOK
  <2>2. CASE pc[c] = "apply"
    <3>1. PICK S \in SUBSET Nodes : Apply(c, S)
      BY <1>4, <2>2 DEF RequestFails
    <3>2. ObjectsStepOK
      BY <2>2, <3>1, ApplyOwnership DEF ObjectsStepOK
    <3>3. QED BY <2>1, <3>2, NetworkUnchanged, RequestsEnd DEF OwnershipStepOK
  <2>3. CASE pc[c] = "delete"
    <3>1. PICK S \in SUBSET Nodes : DeleteChildren(c, S)
      BY <1>4, <2>3 DEF RequestFails
    <3>2. ~Live
      BY <2>3 DEF OwnershipInvariant
    <3>3. ObjectsStepOK
      BY <3>1, <3>2, DeleteOwnership DEF ObjectsStepOK
    <3>4. QED BY <2>1, <3>3, NetworkUnchanged, RequestsEnd DEF OwnershipStepOK
  <2>4. CASE pc[c] \notin {"apply", "delete"}
    <3>1. UNCHANGED <<claims, devices, configs>>
      BY <1>4, <2>4 DEF RequestFails
    <3>2. QED BY <2>1, <3>1, NetworkUnchanged, RequestsEnd, ObjectsUnchanged
              DEF OwnershipStepOK
  <2>5. QED BY <2>2, <2>3, <2>4
<1>5. QED BY <1>1, <1>2, <1>3, <1>4 DEF Informers, Cluster

\* Nothing is torn down, and no finalizer released, under a live Network.
THEOREM OwnershipCorrect == Spec => []OwnershipInvariant
<1>1. Init => OwnershipInvariant
  BY DEF Init, OwnershipInvariant, OwnersHoldFinalizers, ParamReadyHasClaims, NewNetwork,
         NoDevice, NoConfig, Exists, Controllers
<1>2. TypeOK /\ PipelineInvariant /\ OwnershipInvariant /\ [Next]_vars => OwnershipInvariant'
  <2> SUFFICES ASSUME TypeOK, PipelineInvariant, OwnershipInvariant, [Next]_vars
               PROVE  OwnershipInvariant'
    OBVIOUS
  <2>1. CASE UNCHANGED vars
    BY <2>1, OwnershipKept, NetworkUnchanged, RequestsEnd, ObjectsUnchanged
    DEF vars, OwnershipStepOK
  <2>2. CASE Next
    BY <2>2, ControllerOwnership, ClusterOwnership, OwnershipKept DEF Next
  <2>3. QED BY <2>1, <2>2
<1>3. QED BY <1>1, <1>2, TypeCorrect, PipelineCorrect, PTL DEF Spec

\* Every controller that owns objects holds its finalizer, and the ready
\* parameters of the default network come with a claim for every node.
THEOREM OwnersAndClaims == Spec => [](OwnersHoldFinalizers /\ ParamReadyHasClaims)
<1>1. OwnershipInvariant => OwnersHoldFinalizers /\ ParamReadyHasClaims
  BY DEF OwnershipInvariant
<1>2. QED BY <1>1, OwnershipCorrect, PTL

\* NetworkParamReady of the default network is never stored before the claims
\* of every node, however many requests of an apply fail.
THEOREM ClaimsOfReadyParams == Spec => []ParamReadyHasClaims
BY OwnersAndClaims, PTL

-----------------------------------------------------------------------------
(* The refinement: NetworkPipeline implements NetworkStatus.  Three        *)
(* controllers that share nothing but a stored object, work from stale     *)
(* caches and lose races move its status as one process with atomic steps  *)
(* would.                                                                  *)

(* What a copy that is up to date says of the stored Network.              *)

\* A controller whose write would land has seen the deletion, if there is
\* one, and device configs are derived for ready parameters only.
WriterOK(c) ==
    c \in fresh =>
        /\ net.phase # "gone"
        /\ net.phase = "deleting" => pc[c] \in {"delete", "unfinalize", "fail"}
        /\ c = "device" /\ Live /\ pc[c] \in {"apply", "status"} => net.param = "Ready"

WritersInv == \A c \in Controllers : WriterOK(c)

\* A step of controller c alone.
Alone(c) ==
    /\ net' = net /\ fresh' \subseteq fresh
    /\ \A d \in Controllers \ {c} : pc'[d] = pc[d]

\* It leaves the other writers as they are.
LEMMA AloneStep ==
    ASSUME WritersInv, NEW c \in Controllers, Alone(c), WriterOK(c)'
    PROVE  WritersInv'
<1> SUFFICES ASSUME NEW d \in Controllers PROVE WriterOK(d)'
  BY DEF WritersInv
<1>1. CASE d = c
  BY <1>1
<1>2. CASE d # c
  BY <1>2 DEF WritersInv, WriterOK, Alone, Live
<1>3. QED BY <1>1, <1>2

\* Nobody's write would land.
LEMMA NoWriters ==
    ASSUME Controllers \cap fresh' = {}
    PROVE  WritersInv'
  BY DEF WritersInv, WriterOK

\* What a controller goes on to from a copy of a live Network.
LEMMA ProceedWriter ==
    ASSUME TypeOK, NEW c \in Controllers, NEW cr, NEW q, Proceed(c, cr, q)
    PROVE  /\ \A d \in Controllers \ {c} : pc'[d] = pc[d]
           /\ c = "device" /\ pc'[c] \in {"apply", "status"} => cr.param = "Ready"
<1>1. pc \in [Controllers -> PCs]
  BY DEF TypeOK
<1>2. \A d \in Controllers \ {c} : pc'[d] = pc[d]
  BY <1>1 DEF Proceed, NetworkProceed, ParamsProceed, DeviceProceed, Goto, Return
<1>3. CASE c = "device"
  BY <1>1, <1>2, <1>3 DEF Proceed, DeviceProceed, IsFalse, Goto, Return
<1>4. QED BY <1>2, <1>3

\* A reconcile starts from a cache that is up to date, or from one that is not.
LEMMA StartWriter ==
    ASSUME TypeOK, PipelineInvariant, WritersInv, NEW c \in Controllers, Start(c)
    PROVE  WritersInv'
<1>0. pc \in [Controllers -> PCs] /\ net' = net /\ net \in NetworkObject
  BY DEF TypeOK, Start
<1>1. \A d \in Controllers \ {c} : pc'[d] = pc[d]
  <2>1. CASE Proceed(c, cache, queue \ {c})
    BY <2>1, ProceedWriter
  <2>2. QED BY <1>0, <2>1 DEF Start, Goto, Return
<1>2. c \notin fresh
  BY DEF Start, PipelineInvariant, CopiesInv
<1>3. CASE fresh' = fresh
  BY <1>0, <1>1, <1>2, <1>3, AloneStep DEF Alone, WriterOK
<1>4. CASE "cache" \in fresh /\ pc'[c] # "idle" /\ fresh' = fresh \cup {c}
  <2>1. cache = net
    BY <1>4 DEF PipelineInvariant, CopiesInv
  <2>2. ~ActsNot(c, net)
    BY <1>0, <1>4, <2>1 DEF Start, Return
  <2>3. net.phase \in {"live", "deleting"}
    BY <1>0, <2>2 DEF ActsNot, NetworkObject
  <2>4. net.phase = "deleting" => pc'[c] = "delete"
    BY <1>0, <2>1, <2>2 DEF Start, Goto
  <2>5. c = "device" /\ Live /\ pc'[c] \in {"apply", "status"} => net.param = "Ready"
    <3>1. CASE Proceed(c, cache, queue \ {c})
      BY <2>1, <3>1, ProceedWriter
    <3>2. CASE Goto(c, "finalize", NoInputs, queue \ {c})
      BY <1>0, <3>2 DEF Goto
    <3>3. QED BY <2>1, <2>2, <3>1, <3>2 DEF Start, Live
  <2>6. WriterOK(c)'
    BY <1>0, <2>3, <2>4, <2>5 DEF WriterOK, Live
  <2>7. ASSUME NEW d \in Controllers \ {c} PROVE WriterOK(d)'
    BY <1>0, <1>1, <1>4, <2>7 DEF WritersInv, WriterOK, Live
  <2>8. QED BY <2>6, <2>7 DEF WritersInv
<1>5. QED BY <1>3, <1>4 DEF Start

\* A stored finalizer leaves its controller the only one that is up to date.
LEMMA AddFinalizerWriter ==
    ASSUME TypeOK, WritersInv, NEW c \in Controllers, AddFinalizer(c)
    PROVE  WritersInv'
<1>0. pc \in [Controllers -> PCs] /\ net \in NetworkObject /\ pc[c] = "finalize"
  BY DEF TypeOK, AddFinalizer
<1>1. CASE c \in fresh
  <2> DEFINE new == [net EXCEPT !.fins = net.fins \cup {c}]
  <2>1. net' = new /\ Proceed(c, new, queue) /\ fresh' \subseteq {c}
    BY <1>1 DEF AddFinalizer
  <2>2. new.phase = net.phase /\ new.param = net.param
    BY <1>0 DEF NetworkObject
  <2>3. net.phase = "live"
    BY <1>0, <1>1 DEF WritersInv, WriterOK, NetworkObject
  <2>4. c = "device" /\ pc'[c] \in {"apply", "status"} => new.param = "Ready"
    BY <2>1, ProceedWriter
  <2>5. WriterOK(c)'
    BY <2>1, <2>2, <2>3, <2>4 DEF WriterOK
  <2>6. QED BY <2>1, <2>5 DEF WritersInv, WriterOK
<1>2. CASE c \notin fresh
  <2>1. Alone(c) /\ c \notin fresh'
    BY <1>0, <1>2 DEF AddFinalizer, Goto, Alone
  <2>2. QED BY <2>1, AloneStep DEF WriterOK
<1>3. QED BY <1>1, <1>2

\* The other steps of a controller end its reconcile, or bring it no nearer
\* to a write it may not make.
LEMMA ControllerWriter ==
    ASSUME TypeOK, WritersInv, NEW c \in Controllers,
           \/ ApplyChildren(c) \/ ApplyRefused(c) \/ Status(c) \/ Delete(c)
           \/ RemoveFinalizer(c) \/ Fail(c) \/ RequestFails(c)
    PROVE  WritersInv'
<1>0. pc \in [Controllers -> PCs] /\ WriterOK(c)
  BY DEF TypeOK, WritersInv
<1>1. ASSUME NEW to, NEW q, Goto(c, to, NoInputs, q), net' = net, fresh' = fresh,
             \/ to = "status" /\ pc[c] = "apply"
             \/ to = "unfinalize" /\ pc[c] = "delete"
             \/ to = "fail"
      PROVE  WritersInv'
  <2>1. Alone(c) /\ pc'[c] = to
    BY <1>0, <1>1 DEF Goto, Alone
  <2>2. WriterOK(c)'
    BY <1>0, <1>1, <2>1 DEF WriterOK, Live
  <2>3. QED BY <2>1, <2>2, AloneStep
<1>2. ASSUME NEW q, Return(c, q), net' = net, fresh' \subseteq fresh, c \notin fresh'
      PROVE  WritersInv'
  <2>1. Alone(c)
    BY <1>0, <1>2 DEF Return, Alone
  <2>2. QED BY <1>2, <2>1, AloneStep DEF WriterOK
<1>3. ASSUME NEW new, NEW q, StatusUpdate(c, new, q) PROVE WritersInv'
  <2>1. CASE c \in fresh /\ new # net
    BY <1>3, <2>1, NoWriters DEF StatusUpdate
  <2>2. CASE ~(c \in fresh /\ new # net)
    BY <1>2, <1>3, <2>2 DEF StatusUpdate
  <2>3. QED BY <2>1, <2>2
<1>4. CASE ApplyChildren(c) \/ ApplyRefused(c) \/ Delete(c)
  BY <1>1, <1>4 DEF ApplyChildren, ApplyRefused, Delete
<1>5. CASE Status(c) \/ Fail(c)
  BY <1>3, <1>5 DEF Status, ParamsStatus, DeviceStatus, NetworkStatus, Fail
<1>6. CASE RemoveFinalizer(c)
  BY <1>1, <1>2, <1>6, NoWriters DEF RemoveFinalizer
<1>7. CASE RequestFails(c)
  BY <1>1, <1>2, <1>7 DEF RequestFails
<1>8. QED BY <1>4, <1>5, <1>6, <1>7

\* No write lands that was made for a Network that is gone, or for a live one
\* when it is being deleted.
LEMMA WritersCorrect == Spec => []WritersInv
<1>1. Init => WritersInv
  BY DEF Init, WritersInv, WriterOK, Controllers
<1>2. TypeOK /\ PipelineInvariant /\ WritersInv /\ [Next]_vars => WritersInv'
  <2> SUFFICES ASSUME TypeOK, PipelineInvariant, WritersInv, [Next]_vars PROVE WritersInv'
    OBVIOUS
  <2>1. ASSUME NEW c \in Controllers, Controller(c) \/ RequestFails(c) PROVE WritersInv'
    BY <2>1, StartWriter, AddFinalizerWriter, ControllerWriter DEF Controller
  <2>2. CASE UNCHANGED <<net, pc>> /\ fresh' \cap Controllers = fresh \cap Controllers
    BY <2>2 DEF WritersInv, WriterOK, Live
  <2>3. CASE fresh' \cap Controllers = {}
    BY <2>3, NoWriters
  <2>4. "cache" \notin Controllers
    BY DEF Controllers
  <2>5. CASE Informers
    BY <2>2, <2>4, <2>5 DEF Informers, SyncNetwork, SyncDevice, SyncConfig
  <2>6. CASE SpecChange \/ DeleteNetwork \/ Restart
    BY <2>3, <2>4, <2>6 DEF SpecChange, DeleteNetwork, Restart
  <2>7. CASE \/ DesignChange \/ UNCHANGED vars
             \/ \E n \in Nodes : \/ ClaimReady(n) \/ ProviderReconcile(n) \/ ConfigReconcile(n)
                                 \/ ProviderFails(n) \/ ConfigFails(n)
    BY <2>2, <2>7 DEF DesignChange, ClaimReady, ProviderReconcile, ConfigReconcile,
                      ProviderFails, ConfigFails, vars
  <2>8. QED BY <2>1, <2>5, <2>6, <2>7 DEF Next, Cluster
<1>3. QED BY <1>1, <1>2, TypeCorrect, PipelineCorrect, PTL DEF Spec

-----------------------------------------------------------------------------
(* Every step maps to a step of NetworkStatus or to a stutter.             *)

\* A step that leaves the status and the phase alone.
LEMMA Stutter ==
    ASSUME UNCHANGED <<net.phase, net.used, net.param, net.dev, net.ready>>
    PROVE  [Abstract!Next]_Abstract!vars
  BY DEF Abstract!vars

\* A status update that does not land, or that does what NetworkStatus allows.
LEMMA StatusStep ==
    ASSUME NEW c \in Controllers, NEW new, NEW q, StatusUpdate(c, new, q),
           c \in fresh /\ net' = new => [Abstract!Next]_Abstract!vars
    PROVE  [Abstract!Next]_Abstract!vars
  BY Stutter DEF StatusUpdate

\* The network controller's summary is a Report.
LEMMA ReportStep ==
    ASSUME TypeOK, WritersInv, "network" \in fresh, NEW s,
           net' = SetOverallStatus([net EXCEPT !.ready = s]) \/ net' = SetOverallStatus(net)
    PROVE  [Abstract!Next]_Abstract!vars
<1>1. net \in NetworkObject /\ net.phase # "gone"
  BY DEF TypeOK, WritersInv, WriterOK, Controllers
<1>2. /\ UNCHANGED <<net.phase, net.used, net.param, net.dev>>
      /\ net'.ready = IF net.param = "Ready" /\ net.dev = "Ready" THEN "Ready" ELSE "Failed"
  BY <1>1 DEF SetOverallStatus, IsFalse, NetworkObject
<1>3. Abstract!Report
  BY <1>1, <1>2 DEF Abstract!Report
<1>4. QED BY <1>3 DEF Abstract!Next

\* The params controller's result.
LEMMA ParamsStep ==
    ASSUME TypeOK, PipelineInvariant, WritersInv, ParamsStatus
    PROVE  [Abstract!Next]_Abstract!vars
<1> DEFINE new == [net EXCEPT !.param = "Ready"]
<1>1. ASSUME "params" \in fresh, net' = new PROVE [Abstract!Next]_Abstract!vars
  <2>1. /\ net \in NetworkObject /\ pc["params"] = "status"
        /\ net.phase = "live" /\ net.param # "Ready"
    BY <1>1 DEF TypeOK, NetworkObject, ParamsStatus, WritersInv, WriterOK, Controllers,
                PipelineInvariant, StagesInv, Writing, Live
  <2>2. Abstract!ParamsResult
    BY <1>1, <2>1 DEF NetworkObject, Abstract!ParamsResult, Abstract!Live
  <2>3. QED BY <2>2 DEF Abstract!Next
<1>2. QED BY <1>1, StatusStep DEF ParamsStatus, Controllers

\* The device controller's result: the configs, or a failure that sends the
\* Network back to the parameters.
LEMMA DevicesStep ==
    ASSUME TypeOK, PipelineInvariant, WritersInv, DeviceStatus
    PROVE  [Abstract!Next]_Abstract!vars
<1>1. ASSUME "device" \in fresh, net' = DeviceResult(net) PROVE [Abstract!Next]_Abstract!vars
  <2>1. /\ net \in NetworkObject /\ net.phase = "live" /\ net.dev # "Ready"
        /\ net.param = "Ready"
    BY <1>1 DEF TypeOK, NetworkObject, DeviceStatus, WritersInv, WriterOK, Controllers,
                PipelineInvariant, StagesInv, Writing, Live
  <2>2. CASE net' = [net EXCEPT !.param = "Failed"]
    <3>1. Abstract!DevicesFail
      BY <2>1, <2>2 DEF NetworkObject, Abstract!DevicesFail, Abstract!Live
    <3>2. QED BY <3>1 DEF Abstract!Next
  <2>3. CASE \E s \in {"Ready", "Processing"} : net' = [net EXCEPT !.dev = s]
    <3>1. Abstract!DevicesResult
      BY <2>1, <2>3 DEF NetworkObject, Abstract!DevicesResult, Abstract!Live
    <3>2. QED BY <3>1 DEF Abstract!Next
  <2>4. QED BY <1>1, <2>2, <2>3 DEF DeviceResult, NetworkDeviceFailed
<1>2. QED BY <1>1, StatusStep DEF DeviceStatus, Controllers

\* New references are recorded and everything derived from the old ones is
\* withdrawn at once.
LEMMA DetectStep ==
    ASSUME TypeOK, PipelineInvariant, WritersInv, pc["network"] = "reset",
           "network" \in fresh,
           net' = SetOverallStatus(ResetChildConditions(net, work["network"]))
    PROVE  [Abstract!Next]_Abstract!vars
<1> DEFINE refs == work["network"]
<1>1. /\ net \in NetworkObject /\ net.phase = "live" /\ refs \in Inputs
      /\ refs # net.used /\ NotOlder(refs, net.used)
  BY DEF TypeOK, NetworkObject, WritersInv, WriterOK, Controllers, PipelineInvariant, StagesInv
<1>2. /\ net'.phase = net.phase /\ net'.used = refs
      /\ net'.param = "Processing" /\ net'.dev = "Processing" /\ net'.ready = "Failed"
  BY <1>1 DEF SetOverallStatus, ResetChildConditions, IsFalse, NetworkObject
<1>3. Abstract!DetectChange
  BY <1>1, <1>2 DEF Abstract!DetectChange, Abstract!Live, Abstract!Inputs,
                    Abstract!NotOlder, Inputs, NotOlder
<1>4. QED BY <1>3 DEF Abstract!Next

LEMMA NetworkStep ==
    ASSUME TypeOK, PipelineInvariant, WritersInv, NetworkStatus
    PROVE  [Abstract!Next]_Abstract!vars
<1>0. "network" \in Controllers
  BY DEF Controllers
<1>1. CASE pc["network"] = "reset"
  BY <1>0, <1>1, DetectStep, StatusStep DEF NetworkStatus
<1>2. CASE pc["network"] = "pending"
  BY <1>0, <1>2, ReportStep, StatusStep DEF NetworkStatus
<1>3. CASE pc["network"] = "status"
  BY <1>0, <1>3, ReportStep, StatusStep DEF NetworkStatus, NetworkResult
<1>4. QED BY <1>1, <1>2, <1>3 DEF NetworkStatus

\* A failure of a stage, before or during the deletion.
LEMMA FailureStep ==
    ASSUME TypeOK, PipelineInvariant, WritersInv, NEW c \in Controllers, Fail(c)
    PROVE  [Abstract!Next]_Abstract!vars
<1>1. ASSUME c \in fresh, net' = HandleError(c, net) PROVE [Abstract!Next]_Abstract!vars
  <2>0. /\ net \in NetworkObject /\ pc[c] = "fail" /\ net.phase \in {"live", "deleting"}
    BY <1>1 DEF TypeOK, NetworkObject, Fail, WritersInv, WriterOK
  <2>1. CASE c = "network"
    BY <1>1, <2>1, ReportStep DEF HandleError
  <2>2. CASE c # "network"
    <3>1. net' = [net EXCEPT !.param = "Failed"]
      BY <1>1, <2>2 DEF HandleError, NetworkParamFailed, NetworkDeviceFailed, Controllers
    <3>2. /\ UNCHANGED <<net.phase, net.used, net.dev, net.ready>>
          /\ net'.param = "Failed"
      BY <2>0, <3>1 DEF NetworkObject
    <3>3. CASE net.phase = "deleting"
      <4>1. Abstract!TeardownFails
        BY <3>2, <3>3 DEF Abstract!TeardownFails
      <4>2. QED BY <4>1 DEF Abstract!Next
    <3>4. CASE net.phase = "live" /\ c = "params"
      <4>1. net.param # "Ready"
        BY <1>1, <2>0, <3>4 DEF PipelineInvariant, StagesInv, Writing, Live
      <4>2. Abstract!ParamsResult
        BY <3>2, <3>4, <4>1 DEF Abstract!ParamsResult, Abstract!Live
      <4>3. QED BY <4>2 DEF Abstract!Next
    <3>5. CASE net.phase = "live" /\ c = "device"
      <4>1. net.dev # "Ready"
        BY <1>1, <2>0, <3>5 DEF PipelineInvariant, StagesInv, Writing, Live
      <4>2. Abstract!DevicesFail
        BY <3>2, <3>5, <4>1 DEF Abstract!DevicesFail, Abstract!Live
      <4>3. QED BY <4>2 DEF Abstract!Next
    <3>6. QED BY <2>0, <2>2, <3>3, <3>4, <3>5 DEF Controllers
  <2>3. QED BY <2>1, <2>2
<1>2. QED BY <1>1, StatusStep DEF Fail

\* The finalizers decide when a deleted Network is gone.
LEMMA PhaseStep ==
    ASSUME TypeOK, WritersInv,
           \/ DeleteNetwork
           \/ \E c \in Controllers : AddFinalizer(c) \/ RemoveFinalizer(c)
    PROVE  [Abstract!Next]_Abstract!vars
<1>0. net \in NetworkObject
  BY DEF TypeOK
<1>1. UNCHANGED <<net.used, net.param, net.dev, net.ready>>
  BY <1>0 DEF DeleteNetwork, AddFinalizer, RemoveFinalizer, NetworkObject
<1>2. CASE net'.phase = net.phase
  BY <1>1, <1>2, Stutter
<1>3. CASE net'.phase # net.phase
  <2>1. net.phase # "gone" /\ net'.phase \in {"deleting", "gone"}
    <3>1. CASE DeleteNetwork
      BY <1>0, <3>1 DEF DeleteNetwork, NetworkObject
    <3>2. ASSUME NEW c \in Controllers, AddFinalizer(c) PROVE FALSE
      BY <1>0, <1>3, <3>2 DEF AddFinalizer, NetworkObject
    <3>3. ASSUME NEW c \in Controllers, RemoveFinalizer(c)
          PROVE  net.phase # "gone" /\ net'.phase = "gone"
      BY <1>0, <1>3, <3>3 DEF RemoveFinalizer, NetworkObject, WritersInv, WriterOK
    <3>4. QED BY <3>1, <3>2, <3>3
  <2>2. Abstract!Delete
    BY <1>1, <1>3, <2>1 DEF Abstract!Delete
  <2>3. QED BY <2>2 DEF Abstract!Next
<1>4. QED BY <1>2, <1>3

\* The three controllers, their caches, restarts, conflicts and lost races
\* are invisible to who reads the Network's status: it moves as one process
\* with atomic steps would move it.
THEOREM PipelineImplementsStatus == Spec => ImplementsNetworkStatus
<1>1. Init => Abstract!Init
  BY DEF Init, NewNetwork, NoInputs, Abstract!Init
<1>2. TypeOK /\ PipelineInvariant /\ WritersInv /\ [Next]_vars => [Abstract!Next]_Abstract!vars
  <2> SUFFICES ASSUME TypeOK, PipelineInvariant, WritersInv, [Next]_vars
               PROVE  [Abstract!Next]_Abstract!vars
    OBVIOUS
  <2>1. CASE net' = net
    BY <2>1, Stutter
  <2>2. ASSUME NEW c \in Controllers, Controller(c) \/ RequestFails(c)
        PROVE  [Abstract!Next]_Abstract!vars
    BY <2>1, <2>2, ParamsStep, DevicesStep, NetworkStep, FailureStep, PhaseStep
    DEF Controller, Status, Start, ApplyChildren, ApplyRefused, Delete, RequestFails
  <2>3. CASE SpecChange
    <3>1. net \in NetworkObject
      BY DEF TypeOK
    <3>2. QED BY <2>3, <3>1, Stutter DEF SpecChange, NetworkObject
  <2>4. CASE DeleteNetwork
    BY <2>4, PhaseStep
  <2>5. QED BY <2>1, <2>2, <2>3, <2>4
        DEF Next, Informers, SyncNetwork, SyncDevice, SyncConfig, Cluster, ClaimReady,
            ProviderReconcile, ConfigReconcile, ProviderFails, ConfigFails, DesignChange,
            Restart, vars
<1>3. QED BY <1>1, <1>2, TypeCorrect, PipelineCorrect, WritersCorrect, PTL
          DEF Spec, ImplementsNetworkStatus, Abstract!Spec

=============================================================================
