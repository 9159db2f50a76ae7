--------------------------- MODULE NetworkPackage ---------------------------
(***************************************************************************)
(* The package controller (reconcilers/networkpackage) above the pipeline. *)
(*                                                                         *)
(* A PackageRevision carries a Network resource.  The controller applies   *)
(* that Network to the cluster with the annotation kuid.dev/gitops, waits  *)
(* until the params and device controllers have derived the device configs *)
(* and writes these into the package, for GitOps to deploy; the network    *)
(* controller leaves such a Network alone.  Successive revisions of one    *)
(* package carry the same Network with another spec: the spec of revision  *)
(* r is the generation r of NetworkPipeline.                               *)
(*                                                                         *)
(* The controller has one worker.  It does not watch Networks: it polls.   *)
(* As in NetworkPipeline a step is at most one request, and reads of       *)
(* PackageRevisions, Networks and NetworkDevices are served by caches.     *)
(***************************************************************************)
EXTENDS NetworkPipeline

CONSTANT Withdrawn   \* the revisions that users may delete

Revisions == 1 .. MaxSpec

ASSUME PackageAssumption == GitOps /\ Withdrawn \subseteq Revisions

VARIABLES
    revs,      \* the PackageRevisions as the API server stores them
    revCache,  \* ... as the informer cache shows them
    output,    \* the device configs stored in each package (out/...)
    pkgPc,     \* the request the controller sends next
    rev,       \* the revision it works on
    copy,      \* its copy of that PackageRevision
    pkgQueue   \* the revisions in its work queue

pkgVars == <<revs, revCache, output, pkgPc, rev, copy, pkgQueue>>
allVars == <<vars, pkgVars>>

-----------------------------------------------------------------------------
(* PackageRevisions.  prev: the readiness gates before this controller's   *)
(* are done; cond: its own condition, which is False until "ready".  No    *)
(* stored value returns once it is left, so a copy is up to date, and a    *)
(* write made from it accepted, exactly if it equals the stored object.    *)

RevisionObject ==
    [phase : {"absent", "live", "deleting", "gone"}, prev : BOOLEAN,
     fin : BOOLEAN, cond : {"init", "failed", "ready"}]

Absent == [phase |-> "absent", prev |-> FALSE, fin |-> FALSE, cond |-> "init"]

UpToDate == copy = revs[rev]

\* What each package holds: for each node the inputs its config was computed
\* from, NoInputs where there is no file.
NoOutput == [n \in Nodes |-> NoInputs]

PkgPCs == {"idle", "finalize", "apply", "check", "report", "export", "status",
           "delete", "unfinalize", "fail"}

PackageTypeOK ==
    /\ net \in NetworkObject
    /\ fresh \in SUBSET (Controllers \cup {"cache", "package"})
    /\ revs \in [Revisions -> RevisionObject]
    /\ \A r \in Revisions : revs[r].phase = "deleting" => revs[r].fin
    /\ revCache \in [Revisions -> RevisionObject]
    /\ output \in [Revisions -> [Nodes -> Inputs]]
    /\ pkgPc \in PkgPCs
    /\ rev \in Revisions
    /\ copy \in RevisionObject
    /\ pkgQueue \in SUBSET Revisions

\* The cluster has a design and no Network yet.
PackageInit ==
    /\ net = [NewNetwork EXCEPT !.phase = "gone"]
    /\ cache = net
    /\ fresh = {"cache"}
    /\ design = 1
    /\ claims = [n \in Nodes |-> "none"]
    /\ devices = [n \in Nodes |-> NoDevice]
    /\ devCache = devices
    /\ configs = [n \in Nodes |-> NoConfig]
    /\ cfgCache = configs
    /\ pc = [c \in Controllers |-> "idle"]
    /\ work = [c \in Controllers |-> NoInputs]
    /\ queue = {"network"}
    /\ events = 0
    /\ revs = [r \in Revisions |-> Absent]
    /\ revCache = revs
    /\ output = [r \in Revisions |-> NoOutput]
    /\ pkgPc = "idle"
    /\ rev = 1
    /\ copy = Absent
    /\ pkgQueue = {}

-----------------------------------------------------------------------------
(* Steps of the worker.                                                    *)

\* The reconcile goes on to the request `to'.
PkgGoto(to) == pkgPc' = to /\ UNCHANGED <<rev, copy, pkgQueue>>

\* The reconcile is over and leaves q in the work queue.
PkgReturn(q) ==
    /\ pkgPc' = "idle"
    /\ rev' = 1
    /\ copy' = Absent
    /\ pkgQueue' = q

Again == pkgQueue \cup {rev}

\* Requests that do not concern the Network; a copy of it dies with the
\* reconcile.
NetworkUntouched ==
    /\ fresh' = IF pkgPc' = "idle" THEN fresh \ {"package"} ELSE fresh
    /\ UNCHANGED <<net, cache, design, children, pc, work, queue, events>>

\* From the copy cr of a live revision that has the finalizer: "only act if
\* your condition is not ready".
PkgProceed(r, cr, q) ==
    IF cr.cond = "ready" THEN PkgReturn(q)
    ELSE pkgPc' = "apply" /\ rev' = r /\ copy' = cr /\ pkgQueue' = q

\* An earlier gate is not done; a deletion does not wait for it.
MustWait(cr) == cr.phase = "live" /\ ~cr.prev

\* The worker takes a revision.  While another controller holds the lease of
\* the package it puts the revision back, which changes nothing here.
Take(r) ==
    /\ pkgPc = "idle"
    /\ r \in pkgQueue
    /\ LET cr == revCache[r]
           q  == pkgQueue \ {r} IN
       \/ /\ cr.phase \in {"absent", "gone"} \/ MustWait(cr)
          /\ PkgReturn(q)
       \/ /\ cr.phase = "deleting"
          /\ pkgPc' = "delete" /\ rev' = r /\ copy' = cr /\ pkgQueue' = q
       \/ /\ cr.phase = "live" /\ cr.prev /\ ~cr.fin
          /\ pkgPc' = "finalize" /\ rev' = r /\ copy' = cr /\ pkgQueue' = q
       \/ /\ cr.phase = "live" /\ cr.prev /\ cr.fin
          /\ PkgProceed(r, cr, q)
    /\ NetworkUntouched
    /\ UNCHANGED <<revs, revCache, output>>

\* Variant: the finalizer is added to the copy and not stored.
PkgAddFinalizerToCopy ==
    /\ pkgPc = "finalize"
    /\ PkgProceed(rev, copy, pkgQueue)
    /\ NetworkUntouched
    /\ UNCHANGED <<revs, revCache, output>>

PkgAddFinalizer ==
    /\ pkgPc = "finalize"
    /\ \/ /\ UpToDate
          /\ revs' = [revs EXCEPT ![rev].fin = TRUE]
          /\ PkgProceed(rev, revs'[rev], pkgQueue)
       \/ /\ ~UpToDate
          /\ PkgGoto("fail")
          /\ UNCHANGED revs
    /\ NetworkUntouched
    /\ UNCHANGED <<revCache, output>>

-----------------------------------------------------------------------------
(* applyNetworkCR and the checks on its result.                            *)

\* What an earlier Network of this name left behind is garbage collected,
\* and no reconcile of it is still running.
NothingLeft ==
    /\ claims = [n \in Nodes |-> "none"]
    /\ devices = [n \in Nodes |-> NoDevice] /\ devCache = devices
    /\ \A c \in Controllers : pc[c] = "idle"

\* Variant: revisions are counted from zero.
CreateNetworkFromZero ==
    /\ cache.phase = "gone" /\ net.phase = "gone" /\ NothingLeft
    /\ net' = [NewNetwork EXCEPT !.spec = rev - 1]
    /\ fresh' = {}
    /\ PkgGoto("fail")

\* Get finds no Network: Create, and then Update of the empty object that Get
\* returned, which is refused for want of a name.  Where the cache was wrong
\* Create is refused already.
CreateNetwork ==
    /\ cache.phase = "gone"
    /\ \/ /\ net.phase = "gone" /\ NothingLeft
          /\ net' = [NewNetwork EXCEPT !.spec = rev]
          /\ fresh' = {}
       \/ /\ net.phase # "gone"
          /\ UNCHANGED <<net, fresh>>
    /\ PkgGoto("fail")

\* Get finds one: Update of that copy with the spec of the package.
UpdateNetwork ==
    /\ cache.phase # "gone"
    /\ \/ /\ "cache" \in fresh
          /\ net' = [net EXCEPT !.spec = rev]
          /\ fresh' = IF net' = net THEN fresh ELSE {}
          /\ PkgGoto("check")
       \/ /\ "cache" \notin fresh
          /\ PkgGoto("fail")
          /\ UNCHANGED <<net, fresh>>

ApplyNetworkCR ==
    /\ pkgPc = "apply"
    /\ CreateNetwork \/ UpdateNetwork
    /\ UNCHANGED <<cache, design, children, pc, work, queue, events,
                   revs, revCache, output>>

\* Variant: the child conditions are not looked at.
CheckNetworkUnconditionally ==
    /\ pkgPc = "check"
    /\ PkgGoto("report")
    /\ fresh' = IF "cache" \in fresh THEN fresh \cup {"package"} ELSE fresh
    /\ UNCHANGED <<net, cache, design, children, pc, work, queue, events,
                   revs, revCache, output>>

\* Variant: no poll while the conditions are not ready.
CheckNetworkOnce ==
    /\ pkgPc = "check"
    /\ \/ /\ AreChildConditionsReady(cache)
          /\ PkgGoto("report")
          /\ fresh' = IF "cache" \in fresh THEN fresh \cup {"package"} ELSE fresh
       \/ /\ ~AreChildConditionsReady(cache)
          /\ PkgReturn(pkgQueue)
          /\ UNCHANGED fresh
    /\ UNCHANGED <<net, cache, design, children, pc, work, queue, events,
                   revs, revCache, output>>

\* The Get at the end of applyNetworkCR, from the cache, and the child
\* conditions of what it returns.  While they are not ready the controller
\* writes back the PackageRevision, which it has not changed, and polls.
CheckNetwork ==
    /\ pkgPc = "check"
    /\ \/ /\ cache.phase = "gone"
          /\ PkgGoto("fail")
          /\ UNCHANGED fresh
       \/ /\ cache.phase # "gone" /\ ~AreChildConditionsReady(cache)
          /\ PkgReturn(Again)
          /\ UNCHANGED fresh
       \/ /\ cache.phase # "gone" /\ AreChildConditionsReady(cache)
          /\ PkgGoto("report")
          /\ fresh' = IF "cache" \in fresh THEN fresh \cup {"package"} ELSE fresh
    /\ UNCHANGED <<net, cache, design, children, pc, work, queue, events,
                   revs, revCache, output>>

\* Status().Update of the Network with condition Ready.
ReportReady ==
    /\ pkgPc = "report"
    /\ \/ /\ "package" \in fresh
          /\ net' = [net EXCEPT !.ready = "Ready"]
          /\ fresh' = IF net' = net THEN fresh ELSE {}
          /\ PkgGoto("export")
       \/ /\ "package" \notin fresh
          /\ PkgGoto("fail")
          /\ UNCHANGED <<net, fresh>>
    /\ UNCHANGED <<cache, design, children, pc, work, queue, events,
                   revs, revCache, output>>

\* applyResourcesToPRR: the provider configs of the NetworkDevices the cache
\* lists as owned by the Network, none of which may be empty.  The update
\* carries the resourceVersion of the copy; whether the server of the
\* PackageRevisionResources looks at it is not known here.
ExportConfigs ==
    /\ pkgPc = "export"
    /\ \/ /\ ConfigsAvailable
          /\ output' = [output EXCEPT ![rev] = [n \in Nodes |-> devCache[n].prov]]
          /\ PkgGoto("status")
       \/ /\ ~ConfigsAvailable \/ ~UpToDate
          /\ PkgGoto("fail")
          /\ UNCHANGED output
    /\ NetworkUntouched
    /\ UNCHANGED <<revs, revCache>>

\* Status().Update of the PackageRevision, the last request of a reconcile.
PkgStatusUpdate(cond, requeued) ==
    /\ \/ /\ UpToDate
          /\ revs' = [revs EXCEPT ![rev].cond = cond]
          /\ PkgReturn(requeued)
       \/ /\ ~UpToDate
          /\ PkgReturn(Again)
          /\ UNCHANGED revs
    /\ NetworkUntouched
    /\ UNCHANGED <<revCache, output>>

PkgStatus == pkgPc = "status" /\ PkgStatusUpdate("ready", pkgQueue)

\* handleError, and a requeue at once or in 2 seconds.  A condition that was
\* ready before (in an error of a deletion) becomes False as well.
PkgFail == pkgPc = "fail" /\ PkgStatusUpdate("failed", Again)

-----------------------------------------------------------------------------
(* Deletion of a revision.                                                 *)

\* Variant: nothing is deleted when the cache shows no Network.
PkgDeleteCached ==
    /\ pkgPc = "delete"
    /\ net' = [net EXCEPT !.phase =
                  IF cache.phase = "gone" \/ net.phase # "live" THEN @
                  ELSE IF net.fins # {} THEN "deleting" ELSE "gone"]
    /\ fresh' = IF net' = net THEN fresh ELSE {}
    /\ PkgGoto("unfinalize")
    /\ UNCHANGED <<cache, design, children, pc, work, queue, events,
                   revs, revCache, output>>

\* Delete of the Network named in the package, by name and unconditionally:
\* also if another revision has applied it meanwhile.
PkgDelete ==
    /\ pkgPc = "delete"
    /\ net' = [net EXCEPT !.phase =
                  IF net.phase = "live" /\ net.fins # {} THEN "deleting"
                  ELSE IF net.phase = "live" THEN "gone" ELSE @]
    /\ fresh' = IF net' = net THEN fresh ELSE {}
    /\ PkgGoto("unfinalize")
    /\ UNCHANGED <<cache, design, children, pc, work, queue, events,
                   revs, revCache, output>>

\* A revision that is being deleted has the finalizer, and goes with it.
PkgRemoveFinalizer ==
    /\ pkgPc = "unfinalize"
    /\ \/ /\ UpToDate
          /\ revs' = [revs EXCEPT ![rev].fin = FALSE, ![rev].phase = "gone"]
          /\ PkgReturn(pkgQueue)
       \/ /\ ~UpToDate
          /\ PkgGoto("fail")
          /\ UNCHANGED revs
    /\ NetworkUntouched
    /\ UNCHANGED <<revCache, output>>

PackageController ==
    \/ \E r \in Revisions : Take(r)
    \/ PkgAddFinalizer
    \/ ApplyNetworkCR
    \/ CheckNetwork
    \/ ReportReady
    \/ ExportConfigs
    \/ PkgStatus
    \/ PkgFail
    \/ PkgDelete
    \/ PkgRemoveFinalizer

-----------------------------------------------------------------------------
(* Users, the other controllers of packages, the caches, the collector.    *)

\* Bound: a revision is published once the one before it is ready.
PublishRevision(r) ==
    /\ revs[r].phase = "absent"
    /\ r > 1 => revs[r - 1].cond = "ready" /\ revCache[r - 1] = revs[r - 1]
    /\ revs' = [revs EXCEPT ![r].phase = "live"]
    /\ UNCHANGED <<vars, revCache, output, pkgPc, rev, copy, pkgQueue>>

PreviousGateDone(r) ==
    /\ revs[r].phase = "live" /\ ~revs[r].prev
    /\ revs' = [revs EXCEPT ![r].prev = TRUE]
    /\ UNCHANGED <<vars, revCache, output, pkgPc, rev, copy, pkgQueue>>

WithdrawRevision(r) ==
    /\ r \in Withdrawn
    /\ revs[r].phase = "live"
    /\ revs' = [revs EXCEPT ![r].phase = IF revs[r].fin THEN "deleting" ELSE "gone"]
    /\ UNCHANGED <<vars, revCache, output, pkgPc, rev, copy, pkgQueue>>

SyncRevision(r) ==
    /\ revCache[r] # revs[r]
    /\ revCache' = [revCache EXCEPT ![r] = revs[r]]
    /\ pkgQueue' = pkgQueue \cup {r}
    /\ UNCHANGED <<vars, revs, output, pkgPc, rev, copy>>

\* The cluster removes what a Network that is gone still owns.
CollectGarbage ==
    /\ net.phase = "gone"
    /\ claims # [n \in Nodes |-> "none"] \/ devices # [n \in Nodes |-> NoDevice]
    /\ claims' = [n \in Nodes |-> "none"]
    /\ devices' = [n \in Nodes |-> NoDevice]
    /\ UNCHANGED <<net, cache, fresh, design, devCache, configs, cfgCache, pc,
                   work, queue, events, pkgVars>>

\* A request of the package controller fails for another reason than a
\* conflict.
PkgRequestFails ==
    /\ Event("request")
    /\ \/ /\ pkgPc \in {"finalize", "apply", "check", "report", "export",
                        "delete", "unfinalize"}
          /\ PkgGoto("fail")
          /\ UNCHANGED fresh
       \/ /\ pkgPc \in {"status", "fail"}
          /\ PkgReturn(Again)
          /\ fresh' = fresh \ {"package"}
    /\ UNCHANGED <<net, cache, design, children, pc, work, queue, revs,
                   revCache, output>>

PkgRestart ==
    /\ Restart
    /\ revCache' = revs
    /\ pkgPc' = "idle"
    /\ rev' = 1
    /\ copy' = Absent
    /\ pkgQueue' = {r \in Revisions : revs[r].phase # "absent"}
    /\ UNCHANGED <<revs, output>>

\* The steps of NetworkPipeline while GitOps deploys the Network: users
\* change it only through packages, there are no Configs, and the network
\* controller returns at once, so its request may as well stay in its queue.
Pipeline ==
    /\ \/ \E c \in Controllers \ {"network"} : Controller(c) \/ RequestFails(c)
       \/ SyncNetwork
       \/ \E n \in Nodes : \/ SyncDevice(n)
                           \/ ClaimReady(n)
                           \/ ProviderReconcile(n)
                           \/ ProviderFails(n)
    /\ UNCHANGED pkgVars

PackageNext ==
    \/ PackageController
    \/ Pipeline
    \/ \E r \in Revisions : \/ PublishRevision(r)
                            \/ PreviousGateDone(r)
                            \/ WithdrawRevision(r)
                            \/ SyncRevision(r)
    \/ CollectGarbage
    \/ PkgRequestFails
    \/ PkgRestart

PackageSpec == PackageInit /\ [][PackageNext]_allVars

\* The caches of devices and revisions, the backends, the collector and the
\* other controllers of the package: none of them is idle for good while one
\* of them has work, which is less than fairness to each.
Deliveries ==
    \/ /\ \E n \in Nodes : SyncDevice(n) \/ ClaimReady(n) \/ ProviderReconcile(n)
       /\ UNCHANGED pkgVars
    \/ \E r \in Revisions : PreviousGateDone(r) \/ SyncRevision(r)
    \/ CollectGarbage

\* As in NetworkPipeline; every lease the worker waits for ends.
PackageFairness ==
    /\ WF_allVars(PackageController)
    /\ \A c \in Controllers \ {"network"} : WF_allVars(Controller(c) /\ UNCHANGED pkgVars)
    /\ WF_allVars(SyncNetwork /\ UNCHANGED pkgVars)
    /\ WF_allVars(Deliveries)

FairPackageSpec == PackageSpec /\ PackageFairness

-----------------------------------------------------------------------------
(* Properties.  ReadyNeedsChildren is checked here as well: in GitOps mode  *)
(* the package controller writes the Ready condition of the Network, two    *)
(* others its child conditions, and nobody summarises them afterwards.      *)

\* Device configs enter a package only while the stored Network has both
\* child conditions (or is being removed): the controller saw them on a
\* cached copy two requests earlier, and its status update in between is
\* what ties the cache to the stored object.
ExportOnlyWhenReady ==
    [][Live /\ output' # output => ChildrenReady]_allVars

\* No Network comes before the finalizer that will delete it: while it is
\* live some revision holds that finalizer, although the controller decides
\* on cached copies, a request may fail and a restart forgets where it was.
NoOrphanNetwork == Live => \E r \in Revisions : revs[r].fin

\* Why these hold: an inductive invariant.  Of the Network: a controller that
\* can still write withdraws only what is not reported yet, and the package
\* controller reports from a copy that is the stored Network.
CanWithdraw(c) == IF c = "device" THEN net.dev # "Ready" ELSE net.param # "Ready"

WriterInv(c) ==
    c \in fresh =>
        /\ pc[c] # "idle"
        /\ pc[c] = "finalize" => c \notin net.fins
        /\ pc[c] \in {"apply", "status"} => c \in net.fins
        /\ pc[c] \in {"delete", "unfinalize"} => ~Live
        /\ Live /\ pc[c] \in Writing => CanWithdraw(c)

ReportInv ==
    /\ "cache" \in fresh => cache = net
    /\ "package" \in fresh => ChildrenReady
    /\ \A c \in {"params", "device"} : WriterInv(c)
    /\ Live /\ net.dev = "Ready" => "device" \in net.fins
    /\ Live /\ pkgPc = "export" => net.ready = "Ready"
    /\ ReadyNeedsChildren

\* Of the revisions: only the worker removes a finalizer, of a revision it has
\* seen deleted and whose Network it has deleted.
RevisionsInv ==
    /\ \A r \in Revisions :
          /\ revCache[r].phase = "live" /\ revCache[r].fin => revs[r].fin
          /\ revCache[r].phase \in {"deleting", "gone"} => revs[r].phase \in {"deleting", "gone"}
    /\ pkgPc \in {"apply", "check", "report", "export", "status"} => revs[rev].fin
    /\ pkgPc \in {"delete", "unfinalize"} => revCache[rev].phase \in {"deleting", "gone"}
    /\ pkgPc = "unfinalize" => ~Live
    /\ NoOrphanNetwork

PackageInvariant == ReportInv /\ RevisionsInv

\* "First the Network global params need to be ready, after the device
\* configs need to be derived" (networkpackage/reconciler.go): what enters a
\* package is the config of every node, derived from the spec the package
\* carries.
PackageHoldsItsConfigs ==
    [][\A r \in Revisions :
         revs[r].cond # "ready" /\ revs'[r].cond = "ready" =>
            \A n \in Nodes : output[r][n].spec = r]_allVars

\* Once users leave the package alone, every revision is finished or gone,
\* and when none is left the Network is gone too, although the controller
\* polls, and creates, updates and deletes the Network by name from copies
\* that may be out of date.
PackagesSettle ==
    <>[](/\ \A r \in Revisions :
              /\ revs[r].phase # "deleting"
              /\ revs[r].phase = "live" => revs[r].cond = "ready"
         /\ (\A r \in Revisions : revs[r].phase # "live") => net.phase = "gone")

=============================================================================
