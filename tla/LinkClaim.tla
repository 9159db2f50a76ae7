----------------------------- MODULE LinkClaim -----------------------------
(***************************************************************************)
(* LinkController (reconcilers/link): every Link claims the Endpoints at   *)
(* its two ends, one request after the other, and releases them when it is *)
(* deleted or when the second claim fails.  Links may name the same        *)
(* Endpoint; the one that claims it first has it.                          *)
(*                                                                         *)
(* The controller has one worker.  What makes it hard is what it does not  *)
(* see: Links and Endpoints are read from two informer caches, and the     *)
(* copies taken before the first claim are written after it.  `current'    *)
(* and `fresh' stand for resourceVersions as in NetworkPipeline.           *)
(***************************************************************************)
EXTENDS Naturals, Sequences

CONSTANTS
    Links,
    Endpoints,
    Ends,        \* the Endpoints of each Link: EndPointIDA, EndPointIDB
    Existing,    \* the Endpoints that exist at first
    EventKinds,  \* the kinds of changes, failures and foreign writes that occur
    MaxEvents,   \* bound on their number
    Nobody       \* the claim of a free Endpoint

\* A user deletes a Link, the inventory writes or removes an Endpoint, a
\* request fails, the manager restarts.
AllEventKinds == {"delete", "touch", "remove", "request", "restart"}

ASSUME LinkAssumption ==
    /\ Links # {}
    /\ Ends \in [Links -> {<<a, b>> : a, b \in Endpoints}]
    /\ Existing \subseteq Endpoints
    /\ EventKinds \subseteq AllEventKinds
    /\ MaxEvents \in Nat
    /\ Nobody # "missing" /\ {Nobody, "missing"} \cap Links = {}

VARIABLES
    links,      \* the Links as the API server stores them
    linkCache,  \* ... as the cache shows them
    linkStale,  \* Links of which the cache shows an older version
    owner,      \* the claim of each Endpoint as the API server stores it
    epCache,    \* ... as the cache shows it
    epStale,    \* Endpoints of which the cache shows an older version
    worker,     \* the reconcile in progress
    queue,      \* Links in the work queue
    events      \* events so far

vars == <<links, linkCache, linkStale, owner, epCache, epStale, worker, queue,
          events>>

eps == <<owner, epCache, epStale>>

LinkObject ==
    [phase : {"absent", "live", "deleting", "gone"}, finalizer : BOOLEAN,
     ready : {"Unknown", "Ready", "Failed"}]

Absent == [phase |-> "absent", finalizer |-> FALSE, ready |-> "Unknown"]

Claims == Links \cup {Nobody, "missing"}

PCs == {"idle", "finalize", "claim", "undo", "release", "unfinalize", "fail",
        "ready"}

\* pc: the request sent next, for the Link link; fresh: its copy of the Link
\* is up to date; todo: the Endpoints still to claim or to release; copies:
\* those whose copy is up to date; error: a release failed; retry: the
\* Link is queued again after the failure is recorded.
Worker ==
    [pc : PCs, link : Links, fresh : BOOLEAN, todo : Seq(Endpoints),
     copies : SUBSET Endpoints, error : BOOLEAN, retry : BOOLEAN]

TypeOK ==
    /\ links \in [Links -> LinkObject]
    /\ linkCache \in [Links -> LinkObject]
    /\ linkStale \in SUBSET Links
    /\ owner \in [Endpoints -> Claims]
    /\ epCache \in [Endpoints -> Claims]
    /\ epStale \in SUBSET Endpoints
    /\ worker \in Worker
    /\ queue \in SUBSET Links
    /\ events \in 0 .. MaxEvents

Idle(l) ==
    [pc |-> "idle", link |-> l, fresh |-> FALSE, todo |-> <<>>, copies |-> {},
     error |-> FALSE, retry |-> FALSE]

Init ==
    /\ links = [l \in Links |-> Absent]
    /\ linkCache = links
    /\ linkStale = {}
    /\ owner = [e \in Endpoints |-> IF e \in Existing THEN Nobody ELSE "missing"]
    /\ epCache = owner
    /\ epStale = {}
    /\ worker = Idle(CHOOSE l \in Links : TRUE)
    /\ queue = {}
    /\ events = 0

-----------------------------------------------------------------------------
(* Reads and writes.                                                       *)

EndsOf(l) == {Ends[l][1], Ends[l][2]}

\* Variant: wakes the owners only.
WatchersOwnersOnly(e) ==
    {l \in Links : linkCache[l].phase # "absent" /\ (epCache[e] = l \/ owner[e] = l)}

\* EndpointEventHandler: the Links that name the Endpoint at either end, and
\* the one that owns it.
Watchers(e) ==
    {l \in Links : /\ linkCache[l].phase # "absent"
                   /\ e \in EndsOf(l) \/ epCache[e] = l \/ owner[e] = l}

\* The reconcile of l ends; again: it is queued once more.
Return(l, again) ==
    /\ worker' = Idle(l)
    /\ queue' = IF again THEN queue \cup {l} ELSE queue

\* Client.Update of the Link.  A write that changes nothing is no new version;
\* one that records another failure may be, by its message alone.  A conflict
\* or a failure is an error and queues the Link again.
UpdateLink(l, new, again) ==
    \/ /\ worker.fresh
       /\ links' = [links EXCEPT ![l] = new]
       /\ \/ new = links[l] /\ linkStale' = linkStale
          \/ (new # links[l] \/ new.ready = "Failed") /\ linkStale' = linkStale \cup {l}
       /\ Return(l, again)
    \/ /\ ~worker.fresh
       /\ UNCHANGED <<links, linkStale>>
       /\ Return(l, TRUE)

\* Update of an Endpoint; one that changes nothing leaves the version alone.
UpdateEndpoint(e, claim) ==
    /\ owner' = [owner EXCEPT ![e] = claim]
    /\ epStale' = IF claim = owner[e] THEN epStale ELSE epStale \cup {e}
    /\ UNCHANGED epCache

-----------------------------------------------------------------------------
(* Reconcile.                                                              *)

\* IsClaimed
Claimed(e, l) == epCache[e] \notin {l, Nobody, "missing"}

\* Variant: takes the Endpoints for free.
GetEndpointsUnchecked(l, isFresh) ==
    worker' = [Idle(l) EXCEPT !.pc = "claim", !.fresh = isFresh,
               !.todo = Ends[l], !.copies = EndsOf(l) \ epStale]

\* getEndpoints, from the cache.  Nothing is claimed unless both ends can be;
\* a Link that finds an end claimed waits for an event of that Endpoint.
GetEndpoints(l, isFresh) ==
    LET missing == \E e \in EndsOf(l) : epCache[e] = "missing"
        taken   == \E e \in EndsOf(l) : Claimed(e, l)
    IN  worker' = IF missing \/ taken
                  THEN [Idle(l) EXCEPT !.pc = "fail", !.fresh = isFresh,
                        !.retry = ~taken]
                  ELSE [Idle(l) EXCEPT !.pc = "claim", !.fresh = isFresh,
                        !.todo = Ends[l], !.copies = EndsOf(l) \ epStale]

Start(l) ==
    /\ worker.pc = "idle"
    /\ l \in queue
    /\ queue' = queue \ {l}
    /\ LET cr == linkCache[l]
           isFresh == l \notin linkStale
       IN  \/ /\ cr.phase \in {"absent", "gone"}
              /\ worker' = Idle(l)
           \/ /\ cr.phase = "deleting"
              /\ worker' = [Idle(l) EXCEPT !.pc = "release", !.fresh = isFresh,
                            !.todo = Ends[l]]
           \/ /\ cr.phase = "live" /\ ~cr.finalizer
              /\ worker' = [Idle(l) EXCEPT !.pc = "finalize", !.fresh = isFresh]
           \/ /\ cr.phase = "live" /\ cr.finalizer
              /\ GetEndpoints(l, isFresh)
    /\ UNCHANGED <<links, linkCache, linkStale, eps, events>>

\* Variant: the finalizer is added after the Endpoints are claimed.
AddFinalizerLate(l) ==
    /\ worker.pc = "finalize" /\ worker.link = l
    /\ GetEndpoints(l, worker.fresh)
    /\ UNCHANGED <<links, linkCache, linkStale, eps, queue, events>>

AddFinalizer(l) ==
    /\ worker.pc = "finalize" /\ worker.link = l
    /\ \/ /\ worker.fresh
          /\ links' = [links EXCEPT ![l].finalizer = TRUE]
          /\ linkStale' = linkStale \cup {l}
          /\ GetEndpoints(l, TRUE)
       \/ /\ ~worker.fresh
          /\ worker' = [worker EXCEPT !.pc = "fail", !.retry = TRUE]
          /\ UNCHANGED <<links, linkStale>>
    /\ UNCHANGED <<linkCache, eps, queue, events>>

Undo(w) == [w EXCEPT !.pc = "undo", !.todo = Ends[w.link], !.copies = {}]

\* Variant: the Link is Ready once its first end is claimed.
ClaimFirst(l) ==
    /\ worker.pc = "claim" /\ worker.link = l
    /\ LET e == Head(worker.todo) IN
       \/ /\ e \in worker.copies
          /\ UpdateEndpoint(e, l)
          /\ worker' = [worker EXCEPT !.pc = "ready", !.todo = <<>>]
       \/ /\ e \notin worker.copies
          /\ worker' = Undo(worker)
          /\ UNCHANGED eps
    /\ UNCHANGED <<links, linkCache, linkStale, queue, events>>

\* apply: one end, from the copy taken by getEndpoints.
Claim(l) ==
    /\ worker.pc = "claim" /\ worker.link = l
    /\ LET e == Head(worker.todo)
           rest == Tail(worker.todo)
       IN  \/ /\ e \in worker.copies
              /\ UpdateEndpoint(e, l)
              /\ worker' = IF rest = <<>>
                           THEN [worker EXCEPT !.pc = "ready", !.todo = <<>>]
                           ELSE [worker EXCEPT !.todo = rest]
           \/ /\ e \notin worker.copies
              /\ worker' = Undo(worker)
              /\ UNCHANGED eps
    /\ UNCHANGED <<links, linkCache, linkStale, queue, events>>

\* What follows a release that ended with or without an error.
Released(w, failed) ==
    LET error == w.error \/ failed
        rest  == Tail(w.todo)
    IN  IF rest # <<>> THEN [w EXCEPT !.todo = rest, !.error = error]
        ELSE IF w.pc = "release" /\ ~error
             THEN [w EXCEPT !.pc = "unfinalize", !.todo = <<>>]
             ELSE [w EXCEPT !.pc = "fail", !.todo = <<>>, !.error = FALSE, !.retry = TRUE]

\* Variant: an Endpoint that another Link has claimed is an error.
ReleaseClaimedFails(l) ==
    /\ worker.pc \in {"undo", "release"} /\ worker.link = l
    /\ LET e == Head(worker.todo) IN
       \/ /\ epCache[e] # l
          /\ worker' = Released(worker, Claimed(e, l))
          /\ UNCHANGED eps
       \/ /\ epCache[e] = l /\ e \notin epStale
          /\ UpdateEndpoint(e, Nobody)
          /\ worker' = Released(worker, FALSE)
    /\ UNCHANGED <<links, linkCache, linkStale, queue, events>>

\* delete, after a failed apply or for a deleted Link: an Endpoint that the
\* cache shows as claimed by l is released.
Release(l) ==
    /\ worker.pc \in {"undo", "release"} /\ worker.link = l
    /\ LET e == Head(worker.todo) IN
       \/ /\ epCache[e] # l
          /\ worker' = Released(worker, FALSE)
          /\ UNCHANGED eps
       \/ /\ epCache[e] = l /\ e \notin epStale
          /\ UpdateEndpoint(e, Nobody)
          /\ worker' = Released(worker, FALSE)
       \/ /\ epCache[e] = l /\ e \in epStale
          /\ worker' = Released(worker, TRUE)
          /\ UNCHANGED eps
    /\ UNCHANGED <<links, linkCache, linkStale, queue, events>>

RemoveFinalizer(l) ==
    /\ worker.pc = "unfinalize" /\ worker.link = l
    /\ \/ /\ worker.fresh
          /\ links' = [links EXCEPT ![l].finalizer = FALSE, ![l].phase = "gone"]
          /\ linkStale' = linkStale \cup {l}
          /\ Return(l, FALSE)
       \/ /\ ~worker.fresh
          /\ worker' = [worker EXCEPT !.pc = "fail", !.retry = TRUE]
          /\ UNCHANGED <<links, linkStale, queue>>
    /\ UNCHANGED <<linkCache, eps, events>>

\* Variant: the condition is appended to the one it should replace.
LinkResultAppended(l) ==
    [links[l] EXCEPT !.ready = <<@, worker.pc>>]

\* handleError, or the Ready condition.
LinkResult(l) ==
    [links[l] EXCEPT !.ready = IF worker.pc = "ready" THEN "Ready" ELSE "Failed"]

\* The update that ends the reconcile.
Report(l) ==
    /\ worker.pc \in {"fail", "ready"} /\ worker.link = l
    /\ UpdateLink(l, LinkResult(l), worker.retry)
    /\ UNCHANGED <<linkCache, eps, events>>

Reconcile ==
    \E l \in Links :
        \/ Start(l)
        \/ AddFinalizer(l)
        \/ Claim(l)
        \/ Release(l)
        \/ RemoveFinalizer(l)
        \/ Report(l)

-----------------------------------------------------------------------------
(* Informers, users, the inventory of Endpoints, and failures.             *)

SyncLink(l) ==
    /\ l \in linkStale
    /\ linkCache' = [linkCache EXCEPT ![l] = links[l]]
    /\ linkStale' = linkStale \ {l}
    /\ queue' = queue \cup {l}
    /\ UNCHANGED <<links, eps, worker, events>>

SyncEndpoint(e) ==
    /\ e \in epStale
    /\ epCache' = [epCache EXCEPT ![e] = owner[e]]
    /\ epStale' = epStale \ {e}
    /\ queue' = queue \cup Watchers(e)
    /\ UNCHANGED <<links, linkCache, linkStale, owner, worker, events>>

Event(kind) ==
    /\ kind \in EventKinds
    /\ events < MaxEvents
    /\ events' = events + 1

\* Someone else writes the Link: the worker's copy is out of date.
UserWrites(l, new) ==
    /\ links' = [links EXCEPT ![l] = new]
    /\ linkStale' = linkStale \cup {l}
    /\ worker' = [worker EXCEPT !.fresh = @ /\ worker.link # l]
    /\ UNCHANGED <<linkCache, eps, queue>>

CreateLink(l) ==
    /\ links[l].phase = "absent"
    /\ UserWrites(l, [Absent EXCEPT !.phase = "live"])
    /\ UNCHANGED events

DeleteLink(l) ==
    /\ Event("delete")
    /\ links[l].phase = "live"
    /\ UserWrites(l, [links[l] EXCEPT !.phase =
                         IF links[l].finalizer THEN "deleting" ELSE "gone"])

\* Someone else writes the Endpoint.
InventoryWrites(e, claim) ==
    /\ owner' = [owner EXCEPT ![e] = claim]
    /\ epStale' = epStale \cup {e}
    /\ worker' = [worker EXCEPT !.copies = @ \ {e}]
    /\ UNCHANGED <<links, linkCache, linkStale, epCache, queue>>

CreateEndpoint(e) ==
    /\ owner[e] = "missing"
    /\ InventoryWrites(e, Nobody)
    /\ UNCHANGED events

TouchEndpoint(e) ==
    /\ Event("touch")
    /\ owner[e] # "missing"
    /\ InventoryWrites(e, owner[e])

RemoveEndpoint(e) ==
    /\ Event("remove")
    /\ owner[e] # "missing"
    /\ InventoryWrites(e, "missing")

\* The request in progress fails, or it lands and its answer is lost.
LinkRequestFails(l) ==
    \/ /\ worker.pc \in {"finalize", "unfinalize"}
       /\ worker' = [worker EXCEPT !.pc = "fail", !.fresh = FALSE, !.retry = TRUE]
       /\ \/ UNCHANGED <<links, linkStale>>
          \/ /\ worker.fresh
             /\ links' = [links EXCEPT ![l] =
                   IF worker.pc = "finalize" THEN [@ EXCEPT !.finalizer = TRUE]
                   ELSE [@ EXCEPT !.finalizer = FALSE, !.phase = "gone"]]
             /\ linkStale' = linkStale \cup {l}
       /\ UNCHANGED <<eps, queue>>
    \/ /\ worker.pc \in {"fail", "ready"}
       /\ \/ UpdateLink(l, LinkResult(l), TRUE)
          \/ Return(l, TRUE) /\ UNCHANGED <<links, linkStale>>
       /\ UNCHANGED eps

EndpointRequestFails(l) ==
    LET e == Head(worker.todo) IN
    /\ \/ /\ worker.pc = "claim"
          /\ worker' = Undo(worker)
          /\ \/ UNCHANGED eps
             \/ e \in worker.copies /\ UpdateEndpoint(e, l)
       \/ /\ worker.pc \in {"undo", "release"} /\ epCache[e] = l
          /\ worker' = Released(worker, TRUE)
          /\ \/ UNCHANGED eps
             \/ e \notin epStale /\ UpdateEndpoint(e, Nobody)
    /\ UNCHANGED <<links, linkStale, queue>>

RequestFails ==
    /\ Event("request")
    /\ LinkRequestFails(worker.link) \/ EndpointRequestFails(worker.link)
    /\ UNCHANGED linkCache

Restart ==
    /\ Event("restart")
    /\ linkCache' = links /\ linkStale' = {}
    /\ epCache' = owner /\ epStale' = {}
    /\ worker' = Idle(worker.link)
    /\ queue' = {l \in Links : links[l].phase \in {"live", "deleting"}}
    /\ UNCHANGED <<links, owner>>

Cluster ==
    \/ \E l \in Links : CreateLink(l) \/ DeleteLink(l)
    \/ \E e \in Endpoints : CreateEndpoint(e) \/ TouchEndpoint(e) \/ RemoveEndpoint(e)
    \/ RequestFails
    \/ Restart

Informers ==
    \/ \E l \in Links : SyncLink(l)
    \/ \E e \in Endpoints : SyncEndpoint(e)

Next == Reconcile \/ Informers \/ Cluster

Spec == Init /\ [][Next]_vars

\* The worker goes on, the work queue serves every Link in turn, the
\* informers deliver.
Fairness ==
    /\ WF_vars(Reconcile)
    /\ \A l \in Links : SF_vars(Start(l)) /\ WF_vars(SyncLink(l))
    /\ \A e \in Endpoints : WF_vars(SyncEndpoint(e))

FairSpec == Spec /\ Fairness

-----------------------------------------------------------------------------
(* Properties.                                                             *)

Owns(l) == \A e \in EndsOf(l) : owner[e] = l

\* A claimed Endpoint never passes from one Link to another: it is released
\* first, and only a reconcile of the Link that holds it does so, however
\* stale the Endpoints are that the reconciles of the others start from.
EndpointsChangeHands ==
    [][\A e \in Endpoints :
          owner[e] \in Links /\ owner'[e] # owner[e] =>
             \/ owner'[e] = "missing"
             \/ owner'[e] = Nobody /\ worker.link = owner[e]]_vars

\* A Link with a claimed Endpoint has the finalizer that will release it,
\* until it is gone.
ClaimNeedsFinalizer ==
    \A e \in Endpoints, l \in Links :
        owner[e] = l /\ links[l].phase # "gone" => links[l].finalizer

\* A Link turns Ready only at a moment when both its ends are its own: what
\* the reconcile claimed some requests ago, from copies older still, has not
\* been taken or released since.  Only the inventory may have removed an end,
\* and created it anew, which puts the copy out of date.
ReadyMeansClaimed ==
    [][\A l \in Links :
          links[l].ready # "Ready" /\ links'[l].ready = "Ready" =>
             \A e \in EndsOf(l) :
                \/ owner[e] \in {l, "missing"}
                \/ owner[e] = Nobody /\ e \notin worker.copies]_vars

\* Why these hold: an inductive invariant.  Bound says that a Link has the
\* finalizer, or is done with; it stays true once it is.
Bound(cr) == cr.finalizer \/ cr.phase = "gone"

\* A cached Link is an earlier version of the stored one, and what the cache
\* of Endpoints is not known to be behind on is as stored.
LinkCachesInv ==
    /\ \A l \in Links :
          /\ linkCache[l].phase # "absent" => links[l].phase # "absent"
          /\ linkCache[l].finalizer => Bound(links[l])
          /\ links[l].phase = "absent" => ~links[l].finalizer
    /\ \A e \in Endpoints \ epStale : epCache[e] = owner[e]

\* e is an end that the reconcile in progress has claimed: it is still its
\* own, unless the inventory removed it.
Held(e) ==
    \/ owner[e] \in {worker.link, "missing"}
    \/ owner[e] = Nobody /\ e \notin worker.copies

\* The ends are taken in order, all of them.
TodoInv ==
    worker.pc \in {"claim", "undo", "release"} =>
        worker.todo \in {Ends[worker.link], Tail(Ends[worker.link])}

\* A claim is made for a Link that will release it, over an Endpoint that
\* nobody else has; the ends that are done are held.
WorkerInv ==
    /\ worker.pc # "idle" => links[worker.link].phase # "absent"
    /\ worker.pc = "claim" =>
          /\ Bound(links[worker.link])
          /\ worker.copies \subseteq EndsOf(worker.link)
          /\ \A e \in worker.copies : owner[e] \in {worker.link, Nobody}
          /\ worker.todo # Ends[worker.link] => Held(Ends[worker.link][1])
    /\ worker.pc = "ready" => \A e \in EndsOf(worker.link) : Held(e)

\* However stale the caches are, no reconcile of a Link works against the
\* claims of another, and no claim outlives the finalizer.
LinkInvariant == LinkCachesInv /\ TodoInv /\ WorkerInv /\ ClaimNeedsFinalizer

\* It is Ready with both its ends, or it has Failed and one of them does not
\* exist or belongs to another Link.
Settled(l) ==
    \/ links[l].ready = "Ready" /\ Owns(l)
    \/ links[l].ready = "Failed" /\ \E e \in EndsOf(l) : owner[e] \notin {l, Nobody}

\* Every Link that is not deleted settles for good, provided that in the end
\* the Endpoint cache is up to date whenever a reconcile starts.  Without the
\* proviso a Link that its own write of a condition wakes can start from a
\* stale Endpoint for ever, fail on the conflict and write another condition.
LinksSettle ==
    <>[][\A l \in Links : Start(l) => epStale = {}]_vars =>
        <>[](\A l \in Links : links[l].phase = "live" => Settled(l))

\* Deleted Links go away: there is always a later moment without any that
\* waits for its deletion to complete.
DeletedLinksGo ==
    []<>(\A l \in Links : links[l].phase # "deleting")

=============================================================================
