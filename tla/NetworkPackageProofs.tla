------------------------ MODULE NetworkPackageProofs ------------------------
(***************************************************************************)
(* Theorems about NetworkPackage for any number of revisions and nodes.    *)
(***************************************************************************)
EXTENDS NetworkPackage, NetworkPipelineProofs

-----------------------------------------------------------------------------
(* Types.                                                                  *)

\* The part of the state that the controllers of the Network change.
NetworkTypes ==
    /\ net \in NetworkObject /\ cache \in NetworkObject
    /\ fresh \in SUBSET (Controllers \cup {"cache", "package"})
    /\ design \in 0 .. MaxDesign
    /\ devices \in [Nodes -> DeviceObject] /\ devCache \in [Nodes -> DeviceObject]
    /\ ControlType

\* The part that the package controller changes.
RevisionTypes ==
    /\ revs \in [Revisions -> RevisionObject]
    /\ \A r \in Revisions : revs[r].phase = "deleting" => revs[r].fin
    /\ revCache \in [Revisions -> RevisionObject]
    /\ output \in [Revisions -> [Nodes -> Inputs]]
    /\ pkgPc \in PkgPCs
    /\ rev \in Revisions
    /\ copy \in RevisionObject
    /\ pkgQueue \in SUBSET Revisions

\* The two controllers that work for a Network that GitOps deploys.
Derivers == {"params", "device"}

LEMMA DeriversAre == Derivers = Controllers \ {"network"} /\ Derivers \subseteq Controllers
  BY DEF Derivers, Controllers

\* An apply that reaches the nodes S, or a delete, leaves typed devices.
LEMMA DeviceTypes ==
    ASSUME NetworkTypes, NEW c \in Derivers, NEW S \in SUBSET Nodes,
           Apply(c, S) \/ DeleteChildren(c, S)
    PROVE  devices' \in [Nodes -> DeviceObject] /\ devCache' = devCache
<1>0. NoDevice \in DeviceObject /\ work["device"] \in Inputs /\ devices \in [Nodes -> DeviceObject]
  BY NoInputsType DEF NoDevice, DeviceObject, Conditions, NetworkTypes, ControlType, Controllers
<1>1. CASE Apply(c, S)
  <2>1. \A d \in DeviceObject, i \in Inputs : [d EXCEPT !.from = i] \in DeviceObject
    BY DEF DeviceObject
  <2>2. QED BY <1>0, <1>1, <2>1 DEF Apply, ApplyClaims, ApplyDevices, Derivers
<1>2. CASE DeleteChildren(c, S)
  BY <1>0, <1>2 DEF DeleteChildren, Derivers
<1>3. QED BY <1>1, <1>2

\* A status update stores a Network and ends the reconcile.
LEMMA PkgStatusUpdateTypes ==
    ASSUME NetworkTypes, NEW c \in Derivers, NEW new \in NetworkObject,
           StatusUpdate(c, new, queue) \/ StatusUpdate(c, new, Requeue(c)),
           UNCHANGED <<cache, design, children>>
    PROVE  NetworkTypes'
<1>1. c \in Controllers /\ ControlType /\ queue \in SUBSET Controllers /\ Requeue(c) \in SUBSET Controllers
  BY DeriversAre DEF NetworkTypes, ControlType, Requeue
<1>2. PICK q \in SUBSET Controllers : StatusUpdate(c, new, q)
  BY <1>1
<1>3. ControlType'
  BY <1>1, <1>2, ReturnType DEF StatusUpdate
<1>4. net' \in NetworkObject /\ fresh' \in SUBSET (Controllers \cup {"cache", "package"})
  BY <1>2 DEF StatusUpdate, NetworkTypes
<1>5. QED BY <1>3, <1>4 DEF NetworkTypes, children

\* A controller of the Network, whatever step it takes.
LEMMA DeriverTypes ==
    ASSUME NetworkTypes, NEW c \in Derivers, Controller(c)
    PROVE  NetworkTypes'
<1> USE DEF children
<1>0. /\ c \in Controllers /\ ControlType /\ NoInputs \in Inputs /\ design \in 0 .. MaxDesign
      /\ queue \in SUBSET Controllers /\ cache \in NetworkObject /\ net \in NetworkObject
      /\ fresh \in SUBSET (Controllers \cup {"cache", "package"})
      /\ devices \in [Nodes -> DeviceObject] /\ devCache \in [Nodes -> DeviceObject]
  BY DeriversAre, NoInputsType DEF NetworkTypes, ControlType
<1>1. CASE Start(c)
  <2>1. queue \ {c} \in SUBSET Controllers
    BY <1>0
  <2>2. ControlType'
    BY <1>0, <1>1, <2>1, ReturnType, GotoType, ProceedType DEF Start, PCs
  <2>3. fresh' \in SUBSET (Controllers \cup {"cache", "package"})
    BY <1>0, <1>1 DEF Start
  <2>4. QED BY <1>0, <1>1, <2>2, <2>3 DEF Start, NetworkTypes
<1>2. CASE AddFinalizer(c)
  <2> DEFINE new == [net EXCEPT !.fins = @ \cup {c}]
  <2>1. new \in NetworkObject
    BY <1>0 DEF NetworkObject
  <2>2. \/ net' = new /\ Proceed(c, new, queue)
        \/ UNCHANGED net /\ Goto(c, "fail", NoInputs, queue)
    BY <1>2 DEF AddFinalizer
  <2>3. ControlType' /\ net' \in NetworkObject
    BY <1>0, <2>1, <2>2, GotoType, ProceedType DEF PCs
  <2>4. fresh' \in SUBSET (Controllers \cup {"cache", "package"})
    BY <1>0, <1>2 DEF AddFinalizer
  <2>5. QED BY <1>0, <1>2, <2>3, <2>4 DEF AddFinalizer, NetworkTypes
<1>3. CASE ApplyChildren(c)
  <2>1. ApplyEvents(c) \in SUBSET Controllers
    BY <1>0 DEF ApplyEvents, ClaimWatchers, Controllers
  <2>2. ControlType'
    BY <1>0, <1>3, <2>1, GotoType DEF ApplyChildren, PCs
  <2>3. QED BY <1>0, <1>3, <2>2, DeviceTypes DEF ApplyChildren, NetworkTypes
<1>4. CASE ApplyRefused(c)
  <2>1. ControlType'
    BY <1>0, <1>4, GotoType DEF ApplyRefused, PCs
  <2>2. QED BY <1>0, <1>4, <2>1 DEF ApplyRefused, NetworkTypes
<1>5. CASE Status(c)
  <2>1. [net EXCEPT !.param = "Ready"] \in NetworkObject /\ DeviceResult(net) \in NetworkObject
    BY <1>0, ResultTypes DEF NetworkObject, Conditions
  <2>2. QED BY <1>5, <2>1, PkgStatusUpdateTypes DEF Status, ParamsStatus, DeviceStatus, Derivers
<1>6. CASE Delete(c)
  <2>1. ControlType'
    BY <1>0, <1>6, GotoType DEF Delete, PCs
  <2>2. QED BY <1>0, <1>6, <2>1, DeviceTypes DEF Delete, NetworkTypes
<1>7. CASE RemoveFinalizer(c)
  <2>1. ControlType'
    BY <1>0, <1>7, GotoType, ReturnType DEF RemoveFinalizer, PCs
  <2>2. fresh' \in SUBSET (Controllers \cup {"cache", "package"})
    BY <1>0, <1>7 DEF RemoveFinalizer
  <2>3. net' \in NetworkObject
    <3>1. \A ph \in {"live", "deleting", "gone"} :
             [net EXCEPT !.fins = @ \ {c}, !.phase = ph] \in NetworkObject
      BY <1>0 DEF NetworkObject
    <3>2. net.phase \in {"live", "deleting", "gone"}
      BY <1>0 DEF NetworkObject
    <3>3. PICK ph \in {"live", "deleting", "gone"} :
             net' = net \/ net' = [net EXCEPT !.fins = @ \ {c}, !.phase = ph]
      <4>1. CASE net.fins = {c}
        BY <1>7, <4>1 DEF RemoveFinalizer
      <4>2. CASE net.fins # {c}
        BY <1>7, <3>2, <4>2 DEF RemoveFinalizer
      <4>3. QED BY <4>1, <4>2
    <3>4. QED BY <1>0, <3>1, <3>3
  <2>4. QED BY <1>0, <1>7, <2>1, <2>2, <2>3 DEF RemoveFinalizer, NetworkTypes
<1>8. CASE Fail(c)
  <2>1. HandleError(c, net) \in NetworkObject
    BY <1>0, ResultTypes
  <2>2. QED BY <1>8, <2>1, PkgStatusUpdateTypes DEF Fail
<1>9. QED BY <1>1, <1>2, <1>3, <1>4, <1>5, <1>6, <1>7, <1>8 DEF Controller

\* A request of it that fails.
LEMMA DeriverFailsTypes ==
    ASSUME NetworkTypes, NEW c \in Derivers, RequestFails(c)
    PROVE  NetworkTypes'
<1> USE DEF children
<1>0. /\ c \in Controllers /\ ControlType /\ NoInputs \in Inputs
      /\ queue \in SUBSET Controllers /\ Requeue(c) \in SUBSET Controllers
      /\ ApplyEvents(c) \in SUBSET Controllers
  BY DeriversAre, NoInputsType
  DEF NetworkTypes, ControlType, Requeue, ApplyEvents, ClaimWatchers, Controllers
<1>1. ControlType'
  BY <1>0, GotoType, ReturnType DEF RequestFails, PCs
<1>2. devices' \in [Nodes -> DeviceObject] /\ devCache' = devCache
  BY DeviceTypes DEF RequestFails, NetworkTypes
<1>3. fresh' \in SUBSET (Controllers \cup {"cache", "package"})
  BY DEF RequestFails, NetworkTypes
<1>4. QED BY <1>1, <1>2, <1>3 DEF RequestFails, NetworkTypes

\* All that happens around the Network.
LEMMA PipelineTypes ==
    ASSUME NetworkTypes, Pipeline
    PROVE  NetworkTypes'
<1>1. CASE \E c \in Controllers \ {"network"} : Controller(c) \/ RequestFails(c)
  BY <1>1, DeriversAre, DeriverTypes, DeriverFailsTypes
<1>2. CASE SyncNetwork
  BY <1>2 DEF SyncNetwork, NetworkTypes, ControlType, NetworkWatchers, children
<1>3. CASE \E n \in Nodes : SyncDevice(n) \/ ClaimReady(n)
  BY <1>3 DEF SyncDevice, ClaimReady, NetworkTypes, ControlType, DeviceWatchers, ClaimWatchers, Controllers
<1>4. CASE \E n \in Nodes : ProviderReconcile(n) \/ ProviderFails(n)
  <2>1. \A d \in DeviceObject :
           /\ [d EXCEPT !.prov = d.from, !.st = "Ready"] \in DeviceObject
           /\ [d EXCEPT !.st = "Failed"] \in DeviceObject
    BY DEF DeviceObject, Conditions
  <2>2. PICK n \in Nodes :
           \/ devices' = [devices EXCEPT ![n] = [@ EXCEPT !.prov = devices[n].from, !.st = "Ready"]]
           \/ devices' = [devices EXCEPT ![n] = [@ EXCEPT !.st = "Failed"]]
    BY <1>4 DEF ProviderReconcile, ProviderFails, NetworkTypes
  <2>3. devices \in [Nodes -> DeviceObject] /\ devices[n] \in DeviceObject
    BY DEF NetworkTypes
  <2>4. PICK d \in DeviceObject : devices' = [devices EXCEPT ![n] = d]
    BY <2>1, <2>2, <2>3
  <2>5. devices' \in [Nodes -> DeviceObject]
    BY <2>3, <2>4
  <2>6. QED BY <1>4, <2>5 DEF ProviderReconcile, ProviderFails, NetworkTypes, ControlType
<1>5. QED BY <1>1, <1>2, <1>3, <1>4 DEF Pipeline

\* Absent revisions and networks that do not exist are typed.
LEMMA NothingPackagedTypes ==
    /\ Absent \in RevisionObject /\ 1 \in Revisions /\ NoInputs \in Inputs
    /\ \A r \in Revisions : [NewNetwork EXCEPT !.spec = r] \in NetworkObject
    /\ [NewNetwork EXCEPT !.phase = "gone"] \in NetworkObject
  BY PipelineAssumption, NoInputsType
  DEF Absent, RevisionObject, Revisions, NewNetwork, NetworkObject, Conditions

\* Ends and continuations of a reconcile of the worker.
LEMMA PkgReturnTypes ==
    ASSUME RevisionTypes, NEW q \in SUBSET Revisions, PkgReturn(q),
           UNCHANGED <<revs, revCache, output>>
    PROVE  RevisionTypes'
  BY NothingPackagedTypes DEF RevisionTypes, PkgReturn, PkgPCs

LEMMA PkgGotoTypes ==
    ASSUME RevisionTypes, NEW to \in PkgPCs, PkgGoto(to), UNCHANGED <<revs, revCache>>,
           output' \in [Revisions -> [Nodes -> Inputs]]
    PROVE  RevisionTypes'
  BY DEF RevisionTypes, PkgGoto

\* Requests that do not concern the Network.
LEMMA NetworkUntouchedTypes ==
    ASSUME NetworkTypes, NetworkUntouched
    PROVE  NetworkTypes'
  BY DEF NetworkTypes, NetworkUntouched, ControlType, children

LEMMA TakeTypes ==
    ASSUME RevisionTypes, NEW r \in Revisions, Take(r)
    PROVE  RevisionTypes'
<1>1. /\ pkgQueue \ {r} \in SUBSET Revisions /\ revCache[r] \in RevisionObject
      /\ UNCHANGED <<revs, revCache, output>>
  BY DEF RevisionTypes, Take
<1>2. CASE PkgReturn(pkgQueue \ {r})
  BY <1>1, <1>2, PkgReturnTypes
<1>3. CASE /\ pkgPc' \in {"delete", "finalize", "apply"}
           /\ rev' = r /\ copy' = revCache[r] /\ pkgQueue' = pkgQueue \ {r}
  BY <1>1, <1>3 DEF RevisionTypes, PkgPCs
<1>4. QED BY <1>2, <1>3 DEF Take, PkgProceed

LEMMA PkgAddFinalizerTypes ==
    ASSUME RevisionTypes, PkgAddFinalizer
    PROVE  RevisionTypes'
<1>1. CASE UpToDate /\ revs' = [revs EXCEPT ![rev].fin = TRUE] /\ PkgProceed(rev, revs'[rev], pkgQueue)
  <2>0. rev \in Revisions /\ revs[rev] \in RevisionObject
    BY DEF RevisionTypes
  <2>1. /\ revs' = [revs EXCEPT ![rev] = [@ EXCEPT !.fin = TRUE]]
        /\ [revs[rev] EXCEPT !.fin = TRUE] \in RevisionObject
    BY <1>1, <2>0 DEF RevisionObject, RevisionTypes
  <2>2. /\ revs' \in [Revisions -> RevisionObject]
        /\ \A r \in Revisions : revs'[r].phase = "deleting" => revs'[r].fin
    BY <2>0, <2>1 DEF RevisionTypes, RevisionObject
  <2>3. revs'[rev] \in RevisionObject
    BY <2>0, <2>2
  <2>4. QED BY <1>1, <2>0, <2>2, <2>3, NothingPackagedTypes
            DEF PkgAddFinalizer, PkgProceed, PkgReturn, RevisionTypes, PkgPCs
<1>2. CASE PkgGoto("fail") /\ UNCHANGED revs
  <2>1. "fail" \in PkgPCs /\ output \in [Revisions -> [Nodes -> Inputs]]
    BY DEF PkgPCs, RevisionTypes
  <2>2. QED BY <1>2, <2>1, PkgGotoTypes DEF PkgAddFinalizer
<1>3. QED BY <1>1, <1>2 DEF PkgAddFinalizer

LEMMA PkgStatusTypes ==
    ASSUME RevisionTypes, PkgStatus \/ PkgFail
    PROVE  RevisionTypes'
<1>0. rev \in Revisions /\ revs[rev] \in RevisionObject /\ Again \in SUBSET Revisions
  BY DEF RevisionTypes, Again
<1>1. PICK cond \in {"ready", "failed"}, q \in SUBSET Revisions :
         revs' = revs \/ revs' = [revs EXCEPT ![rev] = [@ EXCEPT !.cond = cond]]
  BY <1>0 DEF PkgStatus, PkgFail, PkgStatusUpdate
<1> DEFINE new == [revs[rev] EXCEPT !.cond = cond]
<1>2. /\ new \in RevisionObject /\ new.phase = revs[rev].phase /\ new.fin = revs[rev].fin
      /\ revs' = revs \/ revs' = [revs EXCEPT ![rev] = new]
  BY <1>0, <1>1 DEF RevisionObject
<1> HIDE DEF new
<1>3. /\ revs' \in [Revisions -> RevisionObject]
      /\ \A r \in Revisions : revs'[r].phase = "deleting" => revs'[r].fin
  BY <1>0, <1>2 DEF RevisionTypes
<1>4. PICK p \in SUBSET Revisions : PkgReturn(p) /\ UNCHANGED <<revCache, output>>
  BY <1>0 DEF PkgStatus, PkgFail, PkgStatusUpdate, RevisionTypes
<1>5. QED BY <1>3, <1>4, NothingPackagedTypes DEF RevisionTypes, PkgReturn, PkgPCs

LEMMA PkgRemoveFinalizerTypes ==
    ASSUME RevisionTypes, PkgRemoveFinalizer
    PROVE  RevisionTypes'
<1>0. /\ rev \in Revisions /\ revs[rev] \in RevisionObject /\ pkgQueue \in SUBSET Revisions
      /\ "fail" \in PkgPCs /\ output \in [Revisions -> [Nodes -> Inputs]]
  BY DEF RevisionTypes, PkgPCs
<1>1. CASE UpToDate
  <2>1. /\ revs' = [revs EXCEPT ![rev] = [@ EXCEPT !.fin = FALSE, !.phase = "gone"]]
        /\ [revs[rev] EXCEPT !.fin = FALSE, !.phase = "gone"] \in RevisionObject
        /\ PkgReturn(pkgQueue) /\ UNCHANGED <<revCache, output>>
    BY <1>0, <1>1 DEF PkgRemoveFinalizer, RevisionTypes, RevisionObject
  <2>2. /\ revs' \in [Revisions -> RevisionObject]
        /\ \A r \in Revisions : revs'[r].phase = "deleting" => revs'[r].fin
    BY <1>0, <2>1 DEF RevisionTypes, RevisionObject
  <2>3. QED BY <2>1, <2>2, NothingPackagedTypes DEF RevisionTypes, PkgReturn, PkgPCs
<1>2. CASE ~UpToDate
  BY <1>0, <1>2, PkgGotoTypes DEF PkgRemoveFinalizer
<1>3. QED BY <1>1, <1>2

\* The requests that concern the Network, and the one that fills the package.
LEMMA WorkerNetworkTypes ==
    ASSUME NetworkTypes, RevisionTypes,
           ApplyNetworkCR \/ CheckNetwork \/ ReportReady \/ ExportConfigs \/ PkgDelete
    PROVE  NetworkTypes' /\ RevisionTypes'
<1> USE DEF children
<1>0. /\ net \in NetworkObject /\ rev \in Revisions /\ Again \in SUBSET Revisions
      /\ {"apply", "check", "report", "export", "status", "fail", "unfinalize"} \subseteq PkgPCs
      /\ output \in [Revisions -> [Nodes -> Inputs]] /\ devCache \in [Nodes -> DeviceObject]
  BY DEF NetworkTypes, RevisionTypes, PkgPCs, Again
<1>1. CASE ApplyNetworkCR
  <2>1. \/ net' = net \/ net' = [NewNetwork EXCEPT !.spec = rev] \/ net' = [net EXCEPT !.spec = rev]
    BY <1>1 DEF ApplyNetworkCR, CreateNetwork, UpdateNetwork
  <2>2. [net EXCEPT !.spec = rev] \in NetworkObject
    BY <1>0 DEF NetworkObject, Revisions
  <2>3. net' \in NetworkObject
    BY <1>0, <2>1, <2>2, NothingPackagedTypes
  <2>4. fresh' = fresh \/ fresh' = {}
    BY <1>1 DEF ApplyNetworkCR, CreateNetwork, UpdateNetwork
  <2>5. NetworkTypes'
    BY <1>1, <2>3, <2>4 DEF ApplyNetworkCR, NetworkTypes, ControlType
  <2>6. PkgGoto("fail") \/ PkgGoto("check")
    BY <1>1 DEF ApplyNetworkCR, CreateNetwork, UpdateNetwork
  <2>7. RevisionTypes'
    BY <1>0, <1>1, <2>6, PkgGotoTypes DEF ApplyNetworkCR
  <2>8. QED BY <2>5, <2>7
<1>2. CASE CheckNetwork
  <2>1. NetworkTypes'
    BY <1>2 DEF CheckNetwork, NetworkTypes, ControlType
  <2>2. RevisionTypes'
    BY <1>0, <1>2, PkgGotoTypes, PkgReturnTypes DEF CheckNetwork
  <2>3. QED BY <2>1, <2>2
<1>3. CASE ReportReady
  <2>1. [net EXCEPT !.ready = "Ready"] \in NetworkObject
    BY <1>0 DEF NetworkObject, Conditions
  <2>2. NetworkTypes'
    BY <1>3, <2>1 DEF ReportReady, NetworkTypes, ControlType
  <2>3. RevisionTypes'
    BY <1>0, <1>3, PkgGotoTypes DEF ReportReady
  <2>4. QED BY <2>2, <2>3
<1>4. CASE ExportConfigs
  <2>1. [n \in Nodes |-> devCache[n].prov] \in [Nodes -> Inputs]
    BY <1>0 DEF DeviceObject
  <2>2. output' \in [Revisions -> [Nodes -> Inputs]]
    BY <1>0, <1>4, <2>1 DEF ExportConfigs
  <2>3. RevisionTypes'
    BY <1>0, <1>4, <2>2, PkgGotoTypes DEF ExportConfigs
  <2>4. QED BY <1>4, <2>3, NetworkUntouchedTypes DEF ExportConfigs
<1>5. CASE PkgDelete
  <2>1. \A ph \in {"live", "deleting", "gone"} : [net EXCEPT !.phase = ph] \in NetworkObject
    BY <1>0 DEF NetworkObject
  <2>2. net.phase \in {"live", "deleting", "gone"}
    BY <1>0 DEF NetworkObject
  <2>3. net' \in NetworkObject
    BY <1>5, <2>1, <2>2 DEF PkgDelete
  <2>4. NetworkTypes'
    BY <1>5, <2>3 DEF PkgDelete, NetworkTypes, ControlType
  <2>5. RevisionTypes'
    BY <1>0, <1>5, PkgGotoTypes DEF PkgDelete
  <2>6. QED BY <2>4, <2>5
<1>6. QED BY <1>1, <1>2, <1>3, <1>4, <1>5

LEMMA WorkerTypes ==
    ASSUME NetworkTypes, RevisionTypes, PackageController
    PROVE  NetworkTypes' /\ RevisionTypes'
<1>1. CASE \E r \in Revisions : Take(r)
  BY <1>1, TakeTypes, NetworkUntouchedTypes DEF Take
<1>2. CASE PkgAddFinalizer
  BY <1>2, PkgAddFinalizerTypes, NetworkUntouchedTypes DEF PkgAddFinalizer
<1>3. CASE PkgStatus \/ PkgFail
  BY <1>3, PkgStatusTypes, NetworkUntouchedTypes DEF PkgStatus, PkgFail, PkgStatusUpdate
<1>4. CASE PkgRemoveFinalizer
  BY <1>4, PkgRemoveFinalizerTypes, NetworkUntouchedTypes DEF PkgRemoveFinalizer
<1>5. QED BY <1>1, <1>2, <1>3, <1>4, WorkerNetworkTypes DEF PackageController

\* Users, caches, failures and restarts.
LEMMA SurroundingsTypes ==
    ASSUME NetworkTypes, RevisionTypes,
           \/ \E r \in Revisions : \/ PublishRevision(r) \/ PreviousGateDone(r)
                                  \/ WithdrawRevision(r) \/ SyncRevision(r)
           \/ CollectGarbage \/ PkgRequestFails \/ PkgRestart
    PROVE  NetworkTypes' /\ RevisionTypes'
<1> USE DEF children
<1>1. CASE \E r \in Revisions : PublishRevision(r) \/ PreviousGateDone(r) \/ WithdrawRevision(r)
  <2>0. NetworkTypes'
    BY <1>1 DEF PublishRevision, PreviousGateDone, WithdrawRevision, vars, NetworkTypes, ControlType
  <2>1. PICK r \in Revisions, new \in RevisionObject :
           /\ revs' = [revs EXCEPT ![r] = new]
           /\ new.phase = "deleting" => new.fin
    <3>1. PICK r \in Revisions : PublishRevision(r) \/ PreviousGateDone(r) \/ WithdrawRevision(r)
      BY <1>1
    <3>2. revs[r] \in RevisionObject /\ (revs[r].phase = "deleting" => revs[r].fin)
      BY DEF RevisionTypes
    <3>3. CASE PublishRevision(r)
      <4> DEFINE new == [revs[r] EXCEPT !.phase = "live"]
      <4>1. new \in RevisionObject /\ new.phase = "live" /\ revs' = [revs EXCEPT ![r] = new]
        BY <3>2, <3>3 DEF RevisionObject, PublishRevision
      <4>2. QED BY <4>1
    <3>4. CASE PreviousGateDone(r)
      <4> DEFINE new == [revs[r] EXCEPT !.prev = TRUE]
      <4>1. new \in RevisionObject /\ new.phase = "live" /\ revs' = [revs EXCEPT ![r] = new]
        BY <3>2, <3>4 DEF RevisionObject, PreviousGateDone
      <4>2. QED BY <4>1
    <3>5. CASE WithdrawRevision(r)
      <4> DEFINE to == IF revs[r].fin THEN "deleting" ELSE "gone"
                 new == [revs[r] EXCEPT !.phase = to]
      <4>1. /\ new \in RevisionObject /\ new.phase = to /\ new.fin = revs[r].fin
            /\ revs' = [revs EXCEPT ![r] = new]
        BY <3>2, <3>5 DEF RevisionObject, WithdrawRevision
      <4>2. new.phase = "deleting" => new.fin
        BY <4>1
      <4> HIDE DEF new
      <4>3. QED BY <4>1, <4>2
    <3>6. QED BY <3>1, <3>3, <3>4, <3>5
  <2>2. UNCHANGED <<revCache, output, pkgPc, rev, copy, pkgQueue>>
    BY <1>1 DEF PublishRevision, PreviousGateDone, WithdrawRevision
  <2>3. RevisionTypes'
    BY <2>1, <2>2 DEF RevisionTypes
  <2>4. QED BY <2>0, <2>3
<1>2. CASE \E r \in Revisions : SyncRevision(r)
  BY <1>2 DEF SyncRevision, vars, NetworkTypes, ControlType, RevisionTypes
<1>3. CASE CollectGarbage
  <2>1. NoDevice \in DeviceObject
    BY NoInputsType DEF NoDevice, DeviceObject, Conditions
  <2>2. QED BY <1>3, <2>1 DEF CollectGarbage, pkgVars, NetworkTypes, ControlType, RevisionTypes
<1>4. CASE PkgRequestFails
  <2>1. NetworkTypes'
    BY <1>4 DEF PkgRequestFails, NetworkTypes, ControlType
  <2>2. /\ "fail" \in PkgPCs /\ Again \in SUBSET Revisions
        /\ output \in [Revisions -> [Nodes -> Inputs]]
    BY DEF RevisionTypes, PkgPCs, Again
  <2>3. RevisionTypes'
    BY <1>4, <2>2, PkgGotoTypes, PkgReturnTypes DEF PkgRequestFails
  <2>4. QED BY <2>1, <2>3
<1>5. CASE PkgRestart
  <2>1. NetworkTypes'
    BY <1>5, NoInputsType DEF PkgRestart, Restart, NetworkTypes, ControlType, PCs
  <2>2. RevisionTypes'
    BY <1>5, NothingPackagedTypes DEF PkgRestart, RevisionTypes, PkgPCs
  <2>3. QED BY <2>1, <2>2
<1>6. QED BY <1>1, <1>2, <1>3, <1>4, <1>5

LEMMA PackageTypesStep ==
    ASSUME NetworkTypes, RevisionTypes, [PackageNext]_allVars
    PROVE  NetworkTypes' /\ RevisionTypes'
<1>1. CASE Pipeline
  BY <1>1, PipelineTypes DEF Pipeline, pkgVars, RevisionTypes
<1>2. CASE UNCHANGED allVars
  BY <1>2 DEF allVars, vars, pkgVars, NetworkTypes, ControlType, RevisionTypes
<1>3. QED BY <1>1, <1>2, WorkerTypes, SurroundingsTypes DEF PackageNext

LEMMA PackageInitTypes == PackageInit => NetworkTypes /\ RevisionTypes
<1> SUFFICES ASSUME PackageInit PROVE NetworkTypes /\ RevisionTypes
  OBVIOUS
<1>1. NoDevice \in DeviceObject /\ NoOutput \in [Nodes -> Inputs]
  BY NoInputsType DEF NoDevice, DeviceObject, Conditions, NoOutput
<1>2. ControlType
  BY NoInputsType DEF PackageInit, ControlType, PCs, Controllers
<1>3. NetworkTypes
  BY <1>1, <1>2, NothingPackagedTypes, PipelineAssumption DEF PackageInit, NetworkTypes
<1>4. RevisionTypes
  BY <1>1, NothingPackagedTypes DEF PackageInit, RevisionTypes, PkgPCs, Absent
<1>5. QED BY <1>3, <1>4

\* Every variable keeps its type, for any number of revisions and nodes.
THEOREM PackageTypes == PackageSpec => []PackageTypeOK
<1>1. NetworkTypes /\ RevisionTypes /\ [PackageNext]_allVars => (NetworkTypes /\ RevisionTypes)'
  BY PackageTypesStep
<1>2. NetworkTypes /\ RevisionTypes => PackageTypeOK
  BY DEF NetworkTypes, RevisionTypes, PackageTypeOK
<1>3. QED BY <1>1, <1>2, PackageInitTypes, PTL DEF PackageSpec

-----------------------------------------------------------------------------
(* Who may still write the Network.                                        *)

\* A step of c that does not write the Network.
LEMMA QuietDeriverStep ==
    ASSUME ReportInv, NetworkTypes, NEW c \in Derivers, NEW to, NEW refs, NEW q,
           Goto(c, to, refs, q), UNCHANGED <<net, cache, pkgPc>>,
           \A x \in fresh' : x \in fresh \/ x = c,
           WriterInv(c)'
    PROVE  ReportInv'
<1>1. \A d \in Derivers \ {c} : pc'[d] = pc[d] /\ (d \in fresh' => d \in fresh)
  BY DeriversAre DEF Goto, NetworkTypes, ControlType
<1>2. \A d \in Derivers : WriterInv(d)'
  <2>1. ASSUME NEW d \in Derivers \ {c} PROVE WriterInv(d)'
    BY <1>1 DEF ReportInv, Derivers, WriterInv, CanWithdraw, Live
  <2>2. QED BY <2>1
<1>3. c \notin {"cache", "package"}
  BY DEF Derivers
<1>4. QED BY <1>2, <1>3 DEF ReportInv, Derivers, Live, ChildrenReady, ReadyNeedsChildren

\* A step of c that writes it: the copies of the others are old.
LEMMA WritingDeriverStep ==
    ASSUME ReportInv, NetworkTypes, NEW c \in Derivers, UNCHANGED pkgPc,
           fresh' \subseteq {c}, WriterInv(c)', Live' => Live, net'.ready = net.ready,
           Live /\ ChildrenReady => ChildrenReady',
           Live' /\ net'.dev = "Ready" => "device" \in net'.fins
    PROVE  ReportInv'
<1>1. ASSUME NEW d \in Derivers \ {c} PROVE WriterInv(d)'
  BY DEF WriterInv
<1>2. c \notin {"cache", "package"}
  BY DEF Derivers
<1>3. ReadyNeedsChildren'
  BY DEF ReportInv, ReadyNeedsChildren
<1>4. QED BY <1>1, <1>2, <1>3 DEF ReportInv, Derivers

\* A reconcile that is not over proceeds to a request of its own kind.
LEMMA ProceedsTo ==
    ASSUME ControlType, NEW c \in Derivers, NEW cr \in NetworkObject, NEW q, Proceed(c, cr, q)
    PROVE  \E to, refs, p :
              /\ to \in {"idle", "apply"}
              /\ Goto(c, to, refs, p)
              /\ to = "apply" /\ c = "device" => cr.dev # "Ready"
<1>1. CASE c = "params"
  BY <1>1 DEF Proceed, ParamsProceed, Goto, Return
<1>2. CASE c = "device"
  BY <1>2 DEF Proceed, DeviceProceed, Goto, Return, IsFalse
<1>3. QED BY <1>1, <1>2 DEF Derivers

LEMMA StartReports ==
    ASSUME ReportInv, NetworkTypes, NEW c \in Derivers, Start(c), UNCHANGED pkgPc
    PROVE  ReportInv'
<1>0. /\ ControlType /\ c \in Controllers /\ cache \in NetworkObject /\ pc[c] = "idle"
      /\ c \notin fresh /\ UNCHANGED <<net, cache>>
      /\ \A x \in fresh' : x \in fresh \/ x = c
  BY DeriversAre DEF NetworkTypes, Start, ReportInv, Derivers, WriterInv
<1>1. PICK to, refs, q :
         /\ Goto(c, to, refs, q)
         /\ to \in {"idle", "delete", "finalize", "apply"}
         /\ to # "idle" => ~ActsNot(c, cache)
         /\ to = "delete" => cache.phase = "deleting"
         /\ to = "finalize" => cache.phase = "live" /\ c \notin cache.fins
         /\ to = "apply" => cache.phase = "live" /\ c \in cache.fins
         /\ to = "apply" /\ c = "device" => cache.dev # "Ready"
  <2>1. CASE Return(c, queue \ {c})
    <3>1. Goto(c, "idle", NoInputs, queue \ {c})
      BY <2>1 DEF Return, Goto
    <3>2. QED BY <3>1
  <2>2. CASE ~ActsNot(c, cache) /\ cache.phase = "live" /\ c \in cache.fins /\ Proceed(c, cache, queue \ {c})
    <3>1. PICK to, refs, q :
             /\ to \in {"idle", "apply"}
             /\ Goto(c, to, refs, q)
             /\ to = "apply" /\ c = "device" => cache.dev # "Ready"
      BY <1>0, <2>2, ProceedsTo
    <3>2. QED BY <2>2, <3>1
  <2>3. CASE /\ ~ActsNot(c, cache)
             /\ \/ cache.phase = "deleting" /\ Goto(c, "delete", NoInputs, queue \ {c})
                \/ /\ cache.phase = "live" /\ c \notin cache.fins
                   /\ Goto(c, "finalize", NoInputs, queue \ {c})
    BY <2>3
  <2>4. QED BY <2>1, <2>2, <2>3 DEF Start
<1>2. pc'[c] = to
  BY <1>0, <1>1 DEF Goto, ControlType
<1>3. WriterInv(c)'
  <2>1. CASE c \in fresh'
    <3>1. to # "idle" /\ cache = net
      BY <1>0, <1>2, <2>1 DEF Start, ReportInv
    <3>2. c = "params" /\ Live => net.param # "Ready"
      BY <1>1, <3>1 DEF ActsNot, IsFalse, Live
    <3>3. c = "device" /\ Live /\ to = "finalize" => net.dev # "Ready"
      BY <1>1, <3>1 DEF ReportInv
    <3>4. QED BY <1>0, <1>1, <1>2, <3>1, <3>2, <3>3 DEF WriterInv, CanWithdraw, Live, Writing, Derivers
  <2>2. CASE c \notin fresh'
    BY <2>2 DEF WriterInv
  <2>3. QED BY <2>1, <2>2
<1>4. QED BY <1>0, <1>1, <1>3, QuietDeriverStep

LEMMA AddFinalizerReports ==
    ASSUME ReportInv, NetworkTypes, NEW c \in Derivers, AddFinalizer(c), UNCHANGED pkgPc
    PROVE  ReportInv'
<1>0. /\ ControlType /\ c \in Controllers /\ net \in NetworkObject /\ pc[c] = "finalize"
      /\ WriterInv(c)
  BY DeriversAre DEF NetworkTypes, AddFinalizer, ReportInv, Derivers
<1>1. CASE c \in fresh
  <2> DEFINE new == [net EXCEPT !.fins = @ \cup {c}]
  <2>1. net' = new /\ Proceed(c, new, queue) /\ fresh' = IF pc'[c] = "idle" THEN {} ELSE {c}
    BY <1>1 DEF AddFinalizer
  <2>2. /\ new \in NetworkObject /\ new.fins = net.fins \cup {c} /\ new.phase = net.phase
        /\ new.dev = net.dev /\ new.param = net.param /\ new.ready = net.ready
    BY <1>0 DEF NetworkObject
  <2> HIDE DEF new
  <2>3. PICK to, refs, q :
           /\ to \in {"idle", "apply"}
           /\ Goto(c, to, refs, q)
           /\ to = "apply" /\ c = "device" => new.dev # "Ready"
    BY <1>0, <2>1, <2>2, ProceedsTo
  <2>4. pc'[c] = to
    BY <1>0, <2>3 DEF Goto, ControlType
  <2>5. Live => CanWithdraw(c)
    BY <1>0, <1>1 DEF WriterInv, Writing
  <2>6. WriterInv(c)'
    BY <2>1, <2>2, <2>3, <2>4, <2>5 DEF WriterInv, Live, CanWithdraw
  <2>7. Live' => Live
    BY <2>1, <2>2 DEF Live
  <2>8. Live /\ ChildrenReady => ChildrenReady'
    BY <2>1, <2>2 DEF ChildrenReady
  <2>9. Live' /\ net'.dev = "Ready" => "device" \in net'.fins
    BY <2>1, <2>2, <2>7 DEF ReportInv
  <2>10. fresh' \subseteq {c} /\ net'.ready = net.ready
    BY <2>1, <2>2
  <2>11. QED BY <2>6, <2>7, <2>8, <2>9, <2>10, WritingDeriverStep
<1>2. CASE c \notin fresh
  <2>1. Goto(c, "fail", NoInputs, queue) /\ UNCHANGED <<net, cache, fresh>>
    BY <1>2 DEF AddFinalizer
  <2>2. WriterInv(c)'
    BY <1>2, <2>1 DEF WriterInv
  <2>3. QED BY <2>1, <2>2, QuietDeriverStep
<1>3. QED BY <1>1, <1>2

\* A request that does not write the Network and keeps the copy as it is.
LEMMA MovingOn ==
    ASSUME ReportInv, NetworkTypes, NEW c \in Derivers, NEW to, NEW refs, NEW q,
           Goto(c, to, refs, q), UNCHANGED <<net, cache, fresh, pkgPc>>,
           \/ pc[c] = "apply" /\ to \in {"status", "fail"}
           \/ pc[c] = "delete" /\ to \in {"unfinalize", "fail"}
           \/ pc[c] \in {"finalize", "unfinalize"} /\ to = "fail"
    PROVE  ReportInv'
<1>1. pc'[c] = to /\ WriterInv(c)
  BY DeriversAre DEF Goto, NetworkTypes, ControlType, ReportInv, Derivers
<1>2. WriterInv(c)'
  BY <1>1 DEF WriterInv, Writing, CanWithdraw, Live
<1>3. QED BY <1>2, QuietDeriverStep

\* The copy is given up.
LEMMA GivingUp ==
    ASSUME ReportInv, NetworkTypes, NEW c \in Derivers, NEW q, Return(c, q),
           UNCHANGED <<net, cache, pkgPc>>, fresh' = fresh \ {c}
    PROVE  ReportInv'
<1>1. WriterInv(c)'
  BY DEF WriterInv
<1>2. Goto(c, "idle", NoInputs, q)
  BY DEF Return, Goto
<1>3. QED BY <1>1, <1>2, QuietDeriverStep

\* A status update, of a copy that may still be written.
LEMMA StatusReports ==
    ASSUME ReportInv, NetworkTypes, NEW c \in Derivers, NEW new \in NetworkObject, NEW q,
           StatusUpdate(c, new, q), UNCHANGED <<cache, pkgPc>>,
           pc[c] \in {"status", "fail"},
           new.phase = net.phase, new.ready = net.ready, new.fins = net.fins,
           new.dev = "Ready" => net.dev = "Ready" \/ (pc["device"] = "status" /\ c = "device")
    PROVE  ReportInv'
<1>0. WriterInv(c)
  BY DEF ReportInv, Derivers
<1>1. CASE c \in fresh /\ new # net
  <2>1. net' = new /\ fresh' = {}
    BY <1>1 DEF StatusUpdate
  <2>2. Live => CanWithdraw(c)
    BY <1>0, <1>1 DEF WriterInv, Writing
  <2>3. Live /\ ChildrenReady => ChildrenReady'
    BY <2>2 DEF CanWithdraw, ChildrenReady
  <2>4. Live' /\ net'.dev = "Ready" => "device" \in net'.fins
    BY <1>0, <1>1, <2>1 DEF WriterInv, ReportInv, Live
  <2>5. WriterInv(c)' /\ (Live' => Live)
    BY <2>1 DEF WriterInv, Live
  <2>6. QED BY <2>1, <2>3, <2>4, <2>5, WritingDeriverStep
<1>2. CASE ~(c \in fresh /\ new # net)
  <2>1. net' = net /\ fresh' = fresh \ {c} /\ \E p : Return(c, p)
    BY <1>2 DEF StatusUpdate
  <2>2. QED BY <2>1, GivingUp
<1>3. QED BY <1>1, <1>2

LEMMA RemoveFinalizerReports ==
    ASSUME ReportInv, NetworkTypes, NEW c \in Derivers, RemoveFinalizer(c), UNCHANGED pkgPc
    PROVE  ReportInv'
<1>0. net \in NetworkObject /\ pc[c] = "unfinalize" /\ WriterInv(c)
  BY DEF NetworkTypes, RemoveFinalizer, ReportInv, Derivers
<1>1. CASE c \in fresh /\ c \in net.fins
  <2>1. /\ net' = [net EXCEPT !.fins = @ \ {c}, !.phase = IF net.fins = {c} THEN "gone" ELSE @]
        /\ fresh' = {}
    BY <1>1 DEF RemoveFinalizer
  <2>2. ~Live
    BY <1>0, <1>1 DEF WriterInv
  <2>3. ~Live' /\ net'.ready = net.ready
    BY <1>0, <2>1, <2>2 DEF Live, NetworkObject
  <2>4. WriterInv(c)'
    BY <2>1 DEF WriterInv
  <2>5. QED BY <2>1, <2>2, <2>3, <2>4, WritingDeriverStep DEF RemoveFinalizer
<1>2. CASE fresh' = fresh \ {c} /\ Return(c, queue) /\ UNCHANGED <<net, cache>>
  BY <1>2, GivingUp
<1>3. CASE Goto(c, "fail", NoInputs, queue) /\ UNCHANGED <<net, cache, fresh>>
  BY <1>0, <1>3, MovingOn
<1>4. QED BY <1>1, <1>2, <1>3 DEF RemoveFinalizer

LEMMA DeriverReports ==
    ASSUME ReportInv, NetworkTypes, NEW c \in Derivers, Controller(c), UNCHANGED pkgPc
    PROVE  ReportInv'
<1>0. net \in NetworkObject /\ c \in Controllers /\ NoInputs \in Inputs
  BY DeriversAre, NoInputsType DEF NetworkTypes
<1>1. CASE ApplyChildren(c) \/ ApplyRefused(c) \/ Delete(c)
  BY <1>1, MovingOn DEF ApplyChildren, ApplyRefused, Delete
<1>2. CASE Status(c)
  <2>1. CASE c = "params"
    <3> DEFINE new == [net EXCEPT !.param = "Ready"]
    <3>1. /\ new \in NetworkObject /\ new.phase = net.phase /\ new.ready = net.ready
          /\ new.fins = net.fins /\ new.dev = net.dev
      BY <1>0 DEF NetworkObject, Conditions
    <3>2. StatusUpdate(c, new, queue) /\ UNCHANGED cache /\ pc[c] = "status"
      BY <1>2, <2>1 DEF Status, ParamsStatus
    <3> HIDE DEF new
    <3>3. new.dev = "Ready" => net.dev = "Ready" \/ (pc["device"] = "status" /\ c = "device")
      BY <3>1
    <3>4. QED BY <3>1, <3>2, <3>3, StatusReports
  <2>2. CASE c = "device"
    <3> DEFINE new == DeviceResult(net)
    <3>1. /\ new \in NetworkObject /\ new.phase = net.phase /\ new.ready = net.ready
          /\ new.fins = net.fins
      BY <1>0, ResultTypes DEF DeviceResult, NetworkDeviceFailed, NetworkObject
    <3>2. StatusUpdate(c, new, queue) /\ UNCHANGED cache /\ pc[c] = "status"
      BY <1>2, <2>2 DEF Status, DeviceStatus
    <3> HIDE DEF new
    <3>3. QED BY <2>2, <3>1, <3>2, StatusReports
  <2>3. QED BY <2>1, <2>2 DEF Derivers
<1>3. CASE Fail(c)
  <2> DEFINE new == HandleError(c, net)
  <2>1. /\ new \in NetworkObject /\ new.phase = net.phase /\ new.ready = net.ready
        /\ new.fins = net.fins /\ new.dev = net.dev
    <3>1. new = [net EXCEPT !.param = "Failed"]
      BY DEF HandleError, NetworkParamFailed, NetworkDeviceFailed, Derivers
    <3>2. QED BY <1>0, <3>1, ResultTypes DEF NetworkObject
  <2>2. StatusUpdate(c, new, Requeue(c)) /\ UNCHANGED cache /\ pc[c] = "fail"
    BY <1>3 DEF Fail
  <2> HIDE DEF new
  <2>3. new.dev = "Ready" => net.dev = "Ready" \/ (pc["device"] = "status" /\ c = "device")
    BY <2>1
  <2>4. QED BY <2>1, <2>2, <2>3, StatusReports
<1>4. QED BY <1>1, <1>2, <1>3, StartReports, AddFinalizerReports, RemoveFinalizerReports DEF Controller

LEMMA PipelineReports ==
    ASSUME ReportInv, NetworkTypes, Pipeline
    PROVE  ReportInv'
<1>0. UNCHANGED pkgPc
  BY DEF Pipeline, pkgVars
<1>1. ASSUME NEW c \in Derivers, RequestFails(c) PROVE ReportInv'
  <2>1. UNCHANGED <<net, cache>>
    BY <1>1 DEF RequestFails
  <2>2. CASE /\ pc[c] \in {"finalize", "unfinalize", "apply", "delete"} /\ UNCHANGED fresh
             /\ \E q : Goto(c, "fail", NoInputs, q)
    BY <1>0, <2>1, <2>2, MovingOn
  <2>3. CASE Return(c, Requeue(c)) /\ fresh' = fresh \ {c}
    BY <1>0, <2>1, <2>3, GivingUp
  <2>4. QED BY <1>1, <2>2, <2>3 DEF RequestFails
<1>2. CASE SyncNetwork
  BY <1>0, <1>2 DEF SyncNetwork, ReportInv, WriterInv, CanWithdraw, Live, ChildrenReady, ReadyNeedsChildren
<1>3. CASE \E n \in Nodes : SyncDevice(n) \/ ClaimReady(n) \/ ProviderReconcile(n) \/ ProviderFails(n)
  <2>1. UNCHANGED <<net, cache, fresh, pc>>
    BY <1>3 DEF SyncDevice, ClaimReady, ProviderReconcile, ProviderFails
  <2>2. QED BY <1>0, <2>1 DEF ReportInv, WriterInv, CanWithdraw, Live, ChildrenReady, ReadyNeedsChildren
<1>4. QED BY <1>0, <1>1, <1>2, <1>3, DeriversAre, DeriverReports DEF Pipeline

-----------------------------------------------------------------------------
(* What the package controller and its surroundings do to the Network.     *)

\* The Network stays as it is, and no copy comes up to date.
LEMMA NetworkKept ==
    ASSUME ReportInv, UNCHANGED <<net, cache, pc>>, fresh' \subseteq fresh,
           pkgPc' = "export" => pkgPc = "export"
    PROVE  ReportInv'
  BY DEF ReportInv, WriterInv, CanWithdraw, Live, ChildrenReady, ReadyNeedsChildren

\* The Network is written, and every copy is old.
LEMMA NetworkWritten ==
    ASSUME ReportInv, fresh' = {},
           Live' /\ net'.dev = "Ready" => "device" \in net'.fins,
           Live' /\ pkgPc' = "export" => net'.ready = "Ready",
           ReadyNeedsChildren'
    PROVE  ReportInv'
  BY DEF ReportInv, WriterInv

LEMMA WorkerReports ==
    ASSUME ReportInv, NetworkTypes, RevisionTypes, PackageController
    PROVE  ReportInv'
<1>0. net \in NetworkObject /\ rev \in Revisions
  BY DEF NetworkTypes, RevisionTypes
<1>1. CASE /\ NetworkUntouched
           /\ pkgPc' # "export"
  BY <1>1, NetworkKept DEF NetworkUntouched
<1>2. CASE ApplyNetworkCR
  <2>1. PkgGoto("fail") \/ PkgGoto("check")
    BY <1>2 DEF ApplyNetworkCR, CreateNetwork, UpdateNetwork
  <2>2. pkgPc' # "export"
    BY <2>1 DEF PkgGoto
  <2>3. \/ UNCHANGED <<net, fresh>>
        \/ fresh' = {} /\ net' = [NewNetwork EXCEPT !.spec = rev]
        \/ fresh' = {} /\ net' = [net EXCEPT !.spec = rev]
    BY <1>2 DEF ApplyNetworkCR, CreateNetwork, UpdateNetwork
  <2>4. CASE UNCHANGED <<net, fresh>>
    BY <1>2, <2>2, <2>4, NetworkKept DEF ApplyNetworkCR
  <2>5. CASE fresh' = {} /\ net' = [NewNetwork EXCEPT !.spec = rev]
    <3>1. net'.dev = "Unknown" /\ net'.ready = "Unknown"
      BY <2>5 DEF NewNetwork
    <3>2. QED BY <2>2, <2>5, <3>1, NetworkWritten DEF ReadyNeedsChildren
  <2>6. CASE fresh' = {} /\ net' = [net EXCEPT !.spec = rev]
    <3>1. /\ net'.phase = net.phase /\ net'.dev = net.dev /\ net'.param = net.param
          /\ net'.ready = net.ready /\ net'.fins = net.fins
      BY <1>0, <2>6 DEF NetworkObject
    <3>2. (Live' /\ net'.dev = "Ready" => "device" \in net'.fins) /\ ReadyNeedsChildren'
      BY <3>1 DEF ReportInv, Live, ReadyNeedsChildren, ChildrenReady
    <3>3. QED BY <2>2, <2>6, <3>2, NetworkWritten
  <2>7. QED BY <2>3, <2>4, <2>5, <2>6
<1>3. CASE CheckNetwork
  <2>1. UNCHANGED <<net, cache, pc>> /\ pkgPc' # "export"
    BY <1>3 DEF CheckNetwork, PkgGoto, PkgReturn
  <2>2. CASE fresh' = fresh
    BY <2>1, <2>2, NetworkKept
  <2>3. CASE fresh' = fresh \cup {"package"} /\ "cache" \in fresh /\ AreChildConditionsReady(cache)
    <3>1. ChildrenReady
      BY <2>3 DEF ReportInv, AreChildConditionsReady, IsFalse, ChildrenReady
    <3>2. QED BY <2>1, <2>3, <3>1
              DEF ReportInv, WriterInv, CanWithdraw, Live, ChildrenReady, ReadyNeedsChildren, Derivers
  <2>4. QED BY <1>3, <2>2, <2>3 DEF CheckNetwork
<1>4. CASE ReportReady
  <2>1. CASE "package" \in fresh
    <3> DEFINE new == [net EXCEPT !.ready = "Ready"]
    <3>1. /\ new.phase = net.phase /\ new.dev = net.dev /\ new.param = net.param
          /\ new.ready = "Ready" /\ new.fins = net.fins
      BY <1>0 DEF NetworkObject
    <3>2. /\ net' = new /\ fresh' = (IF new = net THEN fresh ELSE {}) /\ UNCHANGED <<cache, pc>>
      BY <1>4, <2>1 DEF ReportReady
    <3>3. ChildrenReady
      BY <2>1 DEF ReportInv
    <3> HIDE DEF new
    <3>4. CASE new = net
      BY <3>1, <3>2, <3>4 DEF ReportInv, WriterInv, CanWithdraw, Live, ChildrenReady, ReadyNeedsChildren
    <3>5. CASE new # net
      <4>1. ReadyNeedsChildren'
        BY <3>1, <3>2, <3>3 DEF ReadyNeedsChildren, ChildrenReady
      <4>2. Live' /\ net'.dev = "Ready" => "device" \in net'.fins
        BY <3>1, <3>2 DEF ReportInv, Live
      <4>3. QED BY <3>1, <3>2, <3>5, <4>1, <4>2, NetworkWritten
    <3>6. QED BY <3>4, <3>5
  <2>2. CASE "package" \notin fresh
    BY <1>4, <2>2, NetworkKept DEF ReportReady, PkgGoto
  <2>3. QED BY <2>1, <2>2
<1>5. CASE PkgDelete
  <2>1. PICK ph : net' = [net EXCEPT !.phase = ph] /\ (~Live => ph = net.phase)
    BY <1>5 DEF PkgDelete, Live
  <2>2. CASE net' = net
    BY <1>5, <2>2, NetworkKept DEF PkgDelete, PkgGoto
  <2>3. CASE net' # net
    <3>1. Live /\ net'.phase = ph
      BY <1>0, <2>1, <2>3 DEF Live, NetworkObject
    <3>2. ~Live' /\ fresh' = {}
      BY <1>5, <2>1, <2>3, <3>1 DEF PkgDelete, Live
    <3>3. QED BY <3>2, NetworkWritten DEF ReadyNeedsChildren
  <2>4. QED BY <2>2, <2>3
<1>6. \/ CheckNetwork \/ ReportReady \/ ApplyNetworkCR \/ PkgDelete
      \/ NetworkUntouched /\ pkgPc' # "export"
  BY DEF PackageController, Take, PkgAddFinalizer, PkgProceed, PkgReturn, PkgGoto, ExportConfigs,
     PkgStatus, PkgFail, PkgStatusUpdate, PkgRemoveFinalizer
<1>7. QED BY <1>1, <1>2, <1>3, <1>4, <1>5, <1>6

LEMMA SurroundingsReport ==
    ASSUME ReportInv,
           \/ \E r \in Revisions : \/ PublishRevision(r) \/ PreviousGateDone(r)
                                  \/ WithdrawRevision(r) \/ SyncRevision(r)
           \/ CollectGarbage \/ PkgRequestFails \/ PkgRestart \/ UNCHANGED allVars
    PROVE  ReportInv'
<1>1. CASE PkgRestart
  BY <1>1 DEF PkgRestart, Restart, ReportInv, WriterInv, Live, ChildrenReady, ReadyNeedsChildren
<1>2. CASE ~PkgRestart
  <2>1. UNCHANGED <<net, cache, pc>> /\ fresh' \subseteq fresh
    BY <1>2 DEF PublishRevision, PreviousGateDone, WithdrawRevision, SyncRevision, CollectGarbage,
       PkgRequestFails, vars, allVars
  <2>2. pkgPc' = "export" => pkgPc = "export"
    BY <1>2 DEF PublishRevision, PreviousGateDone, WithdrawRevision, SyncRevision, CollectGarbage,
       PkgRequestFails, pkgVars, allVars, PkgGoto, PkgReturn
  <2>3. QED BY <2>1, <2>2, NetworkKept
<1>3. QED BY <1>1, <1>2

-----------------------------------------------------------------------------
(* The finalizers of the revisions.                                        *)

\* Nobody but the package controller brings a Network to life.
LEMMA DeriversNeverRevive ==
    ASSUME NetworkTypes, NEW c \in Derivers, Controller(c) \/ RequestFails(c)
    PROVE  Live' => Live
<1>0. net \in NetworkObject
  BY DEF NetworkTypes
<1>1. CASE AddFinalizer(c) \/ RemoveFinalizer(c)
  <2>1. PICK S, ph : /\ net' = net \/ net' = [net EXCEPT !.fins = S]
                        \/ net' = [net EXCEPT !.fins = S, !.phase = ph]
                     /\ ph \in {net.phase, "gone"}
    BY <1>1 DEF AddFinalizer, RemoveFinalizer
  <2>2. QED BY <1>0, <2>1 DEF Live, NetworkObject
<1>2. CASE Status(c) \/ Fail(c)
  <2>1. PICK new : (net' = net \/ net' = new) /\ new.phase = net.phase
    <3>1. \A x : [net EXCEPT !.param = x].phase = net.phase /\ [net EXCEPT !.dev = x].phase = net.phase
      BY <1>0 DEF NetworkObject
    <3>2. PICK new : /\ net' = net \/ net' = new
                     /\ \E x : new = [net EXCEPT !.param = x] \/ new = [net EXCEPT !.dev = x]
      <4>1. CASE Status(c)
        BY <4>1 DEF Status, ParamsStatus, DeviceStatus, StatusUpdate, DeviceResult, NetworkDeviceFailed,
           Derivers
      <4>2. CASE Fail(c)
        BY <4>2 DEF Fail, StatusUpdate, HandleError, NetworkParamFailed, NetworkDeviceFailed, Derivers
      <4>3. QED BY <1>2, <4>1, <4>2
    <3>3. QED BY <3>1, <3>2
  <2>2. QED BY <2>1 DEF Live
<1>3. CASE Start(c) \/ ApplyChildren(c) \/ ApplyRefused(c) \/ Delete(c) \/ RequestFails(c)
  BY <1>3 DEF Start, ApplyChildren, ApplyRefused, Delete, RequestFails, Live
<1>4. QED BY <1>1, <1>2, <1>3 DEF Controller

LEMMA PipelineRevisions ==
    ASSUME RevisionsInv, NetworkTypes, Pipeline
    PROVE  RevisionsInv'
<1>1. Live' => Live
  <2>1. CASE \E c \in Controllers \ {"network"} : Controller(c) \/ RequestFails(c)
    BY <2>1, DeriversAre, DeriversNeverRevive
  <2>2. CASE ~\E c \in Controllers \ {"network"} : Controller(c) \/ RequestFails(c)
    BY <2>2 DEF Pipeline, SyncNetwork, SyncDevice, ClaimReady, ProviderReconcile, ProviderFails, Live
  <2>3. QED BY <2>1, <2>2
<1>2. QED BY <1>1 DEF Pipeline, pkgVars, RevisionsInv, NoOrphanNetwork

LEMMA WorkerRevisions ==
    ASSUME RevisionsInv, NetworkTypes, RevisionTypes, PackageController
    PROVE  RevisionsInv'
<1>0. /\ revs \in [Revisions -> RevisionObject] /\ rev \in Revisions
      /\ revs[rev] \in RevisionObject /\ net \in NetworkObject
      /\ revCache \in [Revisions -> RevisionObject]
  BY DEF RevisionTypes, NetworkTypes
<1>1. ASSUME NEW r \in Revisions, Take(r) PROVE RevisionsInv'
  <2>1. UNCHANGED <<revs, revCache, net>>
    BY <1>1 DEF Take, NetworkUntouched
  <2>2. \/ pkgPc' \in {"idle", "finalize"}
        \/ pkgPc' = "delete" /\ rev' = r /\ revCache[r].phase = "deleting"
        \/ (pkgPc' = "apply" /\ rev' = r /\ revCache[r].phase = "live" /\ revCache[r].fin)
    BY <1>1 DEF Take, PkgProceed, PkgReturn
  <2>3. QED BY <2>1, <2>2 DEF RevisionsInv, NoOrphanNetwork, Live
<1>2. CASE PkgAddFinalizer
  <2>1. UNCHANGED <<revCache, net>>
    BY <1>2 DEF PkgAddFinalizer, NetworkUntouched
  <2>2. CASE UpToDate
    <3>1. revs' = [revs EXCEPT ![rev].fin = TRUE] /\ (pkgPc' = "idle" \/ (pkgPc' = "apply" /\ rev' = rev))
      BY <1>2, <2>2 DEF PkgAddFinalizer, PkgProceed, PkgReturn
    <3>2. \A r \in Revisions : /\ revs'[r].phase = revs[r].phase
                              /\ revs'[r].fin = (r = rev \/ revs[r].fin)
      BY <1>0, <3>1 DEF RevisionObject
    <3>3. QED BY <1>0, <2>1, <3>1, <3>2 DEF RevisionsInv, NoOrphanNetwork, Live
  <2>3. CASE ~UpToDate
    <3>1. UNCHANGED revs /\ pkgPc' = "fail"
      BY <1>2, <2>3 DEF PkgAddFinalizer, PkgGoto
    <3>2. QED BY <2>1, <3>1 DEF RevisionsInv, NoOrphanNetwork, Live
  <2>4. QED BY <2>2, <2>3
<1>3. CASE ApplyNetworkCR
  <2>1. pkgPc = "apply" /\ UNCHANGED <<revs, revCache>>
    BY <1>3 DEF ApplyNetworkCR
  <2>2. pkgPc' \in {"check", "fail"} /\ rev' = rev
    BY <1>3 DEF ApplyNetworkCR, CreateNetwork, UpdateNetwork, PkgGoto
  <2>3. QED BY <1>0, <2>1, <2>2 DEF RevisionsInv, NoOrphanNetwork
<1>4. CASE CheckNetwork \/ ReportReady \/ ExportConfigs
  <2>1. UNCHANGED <<revs, revCache>> /\ net'.phase = net.phase
    BY <1>0, <1>4 DEF CheckNetwork, ReportReady, ExportConfigs, NetworkUntouched, NetworkObject
  <2>2. \/ pkgPc' \in {"idle", "fail"}
        \/ /\ pkgPc' \in {"report", "export", "status"} /\ rev' = rev
           /\ pkgPc \in {"check", "report", "export"}
    BY <1>4 DEF CheckNetwork, ReportReady, ExportConfigs, PkgGoto, PkgReturn
  <2>3. QED BY <2>1, <2>2 DEF RevisionsInv, NoOrphanNetwork, Live
<1>5. CASE PkgStatus \/ PkgFail
  <2>1. UNCHANGED <<revCache, net>> /\ pkgPc' = "idle"
    BY <1>5 DEF PkgStatus, PkgFail, PkgStatusUpdate, PkgReturn, NetworkUntouched
  <2>2. PICK cond : revs' = revs \/ revs' = [revs EXCEPT ![rev].cond = cond]
    BY <1>5 DEF PkgStatus, PkgFail, PkgStatusUpdate
  <2>3. \A r \in Revisions : revs'[r].phase = revs[r].phase /\ revs'[r].fin = revs[r].fin
    BY <1>0, <2>2 DEF RevisionObject
  <2>4. QED BY <2>1, <2>3 DEF RevisionsInv, NoOrphanNetwork, Live
<1>6. CASE PkgDelete
  <2>1. /\ pkgPc = "delete" /\ pkgPc' = "unfinalize" /\ UNCHANGED <<revs, revCache, rev>>
    BY <1>6 DEF PkgDelete, PkgGoto
  <2>2. ~Live'
    BY <1>0, <1>6 DEF PkgDelete, Live, NetworkObject
  <2>3. QED BY <2>1, <2>2 DEF RevisionsInv, NoOrphanNetwork
<1>7. CASE PkgRemoveFinalizer
  <2>1. /\ pkgPc = "unfinalize" /\ pkgPc' \in {"idle", "fail"} /\ UNCHANGED <<revCache, net>>
    BY <1>7 DEF PkgRemoveFinalizer, PkgGoto, PkgReturn, NetworkUntouched
  <2>2. \/ revs' = revs
        \/ revs' = [revs EXCEPT ![rev] = [@ EXCEPT !.fin = FALSE, !.phase = "gone"]]
    BY <1>0, <1>7 DEF PkgRemoveFinalizer
  <2>3. \A r \in Revisions :
           \/ revs'[r] = revs[r]
           \/ r = rev /\ revs'[r].phase = "gone"
    BY <1>0, <2>2 DEF RevisionObject
  <2>4. QED BY <2>1, <2>3 DEF RevisionsInv, NoOrphanNetwork, Live
<1>8. QED BY <1>1, <1>2, <1>3, <1>4, <1>5, <1>6, <1>7 DEF PackageController

LEMMA SurroundingsRevisions ==
    ASSUME RevisionsInv, RevisionTypes,
           \/ \E r \in Revisions : \/ PublishRevision(r) \/ PreviousGateDone(r)
                                  \/ WithdrawRevision(r) \/ SyncRevision(r)
           \/ CollectGarbage \/ PkgRequestFails \/ PkgRestart \/ UNCHANGED allVars
    PROVE  RevisionsInv'
<1>0. /\ revs \in [Revisions -> RevisionObject] /\ revCache \in [Revisions -> RevisionObject]
      /\ rev \in Revisions
  BY DEF RevisionTypes
<1>1. Live' = Live
  BY DEF PublishRevision, PreviousGateDone, WithdrawRevision, SyncRevision, CollectGarbage,
     PkgRequestFails, PkgRestart, Restart, allVars, vars, Live
<1>2. CASE \E r \in Revisions : PublishRevision(r) \/ PreviousGateDone(r) \/ WithdrawRevision(r)
  <2>1. UNCHANGED <<revCache, pkgPc, rev>>
    BY <1>2 DEF PublishRevision, PreviousGateDone, WithdrawRevision
  <2>2. PICK r, ph, p :
           /\ r \in Revisions
           /\ \/ revs' = [revs EXCEPT ![r].phase = ph]
              \/ revs' = [revs EXCEPT ![r].prev = p] /\ ph = revs[r].phase
           /\ revs[r].phase \in {"deleting", "gone"} => ph \in {"deleting", "gone"}
    BY <1>2 DEF PublishRevision, PreviousGateDone, WithdrawRevision
  <2>3. \A s \in Revisions :
           /\ revs'[s].fin = revs[s].fin
           /\ revs[s].phase \in {"deleting", "gone"} => revs'[s].phase \in {"deleting", "gone"}
    BY <1>0, <2>2 DEF RevisionObject
  <2>4. QED BY <1>0, <1>1, <2>1, <2>3 DEF RevisionsInv, NoOrphanNetwork
<1>3. CASE \E r \in Revisions : SyncRevision(r)
  <2>1. UNCHANGED <<revs, pkgPc, rev>>
    BY <1>3 DEF SyncRevision
  <2>2. \A s \in Revisions : revCache'[s] = revCache[s] \/ revCache'[s] = revs[s]
    BY <1>0, <1>3 DEF SyncRevision
  <2>3. QED BY <1>0, <1>1, <2>1, <2>2 DEF RevisionsInv, NoOrphanNetwork
<1>4. CASE PkgRequestFails \/ PkgRestart
  <2>1. UNCHANGED revs /\ pkgPc' \in {"idle", "fail"} /\ (revCache' = revCache \/ revCache' = revs)
    BY <1>4 DEF PkgRequestFails, PkgRestart, PkgGoto, PkgReturn
  <2>2. QED BY <1>1, <2>1 DEF RevisionsInv, NoOrphanNetwork
<1>5. CASE CollectGarbage \/ UNCHANGED allVars
  BY <1>1, <1>5 DEF CollectGarbage, allVars, pkgVars, RevisionsInv, NoOrphanNetwork
<1>6. QED BY <1>2, <1>3, <1>4, <1>5

-----------------------------------------------------------------------------
(* The invariant.                                                          *)

PackageIInv == NetworkTypes /\ RevisionTypes /\ PackageInvariant

LEMMA PackageInitHolds == PackageInit => PackageIInv
<1> SUFFICES ASSUME PackageInit PROVE PackageIInv
  OBVIOUS
<1>1. ~Live /\ fresh = {"cache"} /\ cache = net
  BY DEF PackageInit, Live, NewNetwork
<1>2. ReportInv
  BY <1>1 DEF ReportInv, WriterInv, ReadyNeedsChildren
<1>3. RevisionsInv
  BY <1>1 DEF PackageInit, RevisionsInv, NoOrphanNetwork, Absent
<1>4. QED BY <1>2, <1>3, PackageInitTypes DEF PackageIInv, PackageInvariant

LEMMA PackageIInvStep == PackageIInv /\ [PackageNext]_allVars => PackageIInv'
<1> SUFFICES ASSUME PackageIInv, [PackageNext]_allVars PROVE PackageIInv'
  OBVIOUS
<1>0. NetworkTypes /\ RevisionTypes /\ ReportInv /\ RevisionsInv
  BY DEF PackageIInv, PackageInvariant
<1>1. NetworkTypes' /\ RevisionTypes'
  BY <1>0, PackageTypesStep
<1>2. CASE Pipeline
  BY <1>0, <1>1, <1>2, PipelineReports, PipelineRevisions DEF PackageIInv, PackageInvariant
<1>3. CASE PackageController
  BY <1>0, <1>1, <1>3, WorkerReports, WorkerRevisions DEF PackageIInv, PackageInvariant
<1>4. CASE ~Pipeline /\ ~PackageController
  <2>1. \/ \E r \in Revisions : \/ PublishRevision(r) \/ PreviousGateDone(r)
                               \/ WithdrawRevision(r) \/ SyncRevision(r)
        \/ CollectGarbage \/ PkgRequestFails \/ PkgRestart \/ UNCHANGED allVars
    BY <1>4 DEF PackageNext
  <2>2. QED BY <1>0, <1>1, <2>1, SurroundingsReport, SurroundingsRevisions
            DEF PackageIInv, PackageInvariant
<1>5. QED BY <1>2, <1>3, <1>4

\* Whatever is published, withdrawn, fails or restarts: what still can be
\* written withdraws nothing that is reported, and finalizers outlive the
\* Networks they stand for.
THEOREM PackageCorrect == PackageSpec => []PackageInvariant
<1>1. PackageIInv => PackageInvariant
  BY DEF PackageIInv
<1>2. QED BY <1>1, PackageInitHolds, PackageIInvStep, PTL DEF PackageSpec

\* A live Network has a revision whose finalizer will delete it.
THEOREM NoOrphans == PackageSpec => []NoOrphanNetwork
<1>1. PackageInvariant => NoOrphanNetwork
  BY DEF PackageInvariant, RevisionsInv
<1>2. QED BY <1>1, PackageCorrect, PTL

\* Ready, which the package controller writes and nobody recomputes, implies
\* both child conditions.
THEOREM GitOpsReadyIsEarned == PackageSpec => []ReadyNeedsChildren
<1>1. PackageInvariant => ReadyNeedsChildren
  BY DEF PackageInvariant, ReportInv
<1>2. QED BY <1>1, PackageCorrect, PTL

\* Configs enter a package only while the stored Network has both conditions.
THEOREM ExportsOnlyWhenReady == PackageSpec => ExportOnlyWhenReady
<1>1. PackageInvariant /\ [PackageNext]_allVars =>
         [Live /\ output' # output => ChildrenReady]_allVars
  <2> SUFFICES ASSUME PackageInvariant, PackageNext, Live, output' # output
               PROVE  ChildrenReady
    BY DEF allVars
  <2>1. ExportConfigs
    BY DEF PackageNext, PackageController, Take, PkgAddFinalizer, ApplyNetworkCR, CheckNetwork,
       ReportReady, PkgStatus, PkgFail, PkgStatusUpdate, PkgDelete, PkgRemoveFinalizer, Pipeline,
       pkgVars, PublishRevision, PreviousGateDone, WithdrawRevision, SyncRevision, CollectGarbage,
       PkgRequestFails, PkgRestart
  <2>2. QED BY <2>1 DEF ExportConfigs, PackageInvariant, ReportInv, ReadyNeedsChildren
<1>2. QED BY <1>1, PackageCorrect, PTL DEF PackageSpec, ExportOnlyWhenReady
=============================================================================
