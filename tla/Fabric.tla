------------------------------- MODULE Fabric -------------------------------
(***************************************************************************)
(* The two controllers that prepare the ground for Networks: the topology  *)
(* controller (reconcilers/topology), which turns a containerlab topology  *)
(* into Nodes and Links, and the design controller                         *)
(* (reconcilers/networkdesign), which turns a NetworkDesign into an index  *)
(* of AS numbers and claims of prefixes and ASes, once the Topology is     *)
(* ready.                                                                  *)
(*                                                                         *)
(* Both reconcile one object and the objects it owns; each has one worker. *)
(* A step is at most one request to the API server, except that the        *)
(* requests of one APIApply or APIDelete make one step, which a failing    *)
(* request may end anywhere.  All reads are served by caches that lag      *)
(* behind.  A write of an object is refused when it was made from a copy   *)
(* that is no longer the stored object; fresh has the caches and copies    *)
(* that are.                                                               *)
(***************************************************************************)
EXTENDS ContainerLab, NetworkDesign

CONSTANTS
    TopologySpecs,  \* the specs of the Topology, in the order of its changes
    DesignSpecs,    \* the specs of the NetworkDesign
    EventKinds,     \* the kinds of changes and failures that occur
    MaxEvents       \* bound on their number

Owners == {"topology", "design"}

AllFabricEvents == {"spec", "delete", "outage", "restart"}

ASSUME FabricAssumption ==
    /\ Len(TopologySpecs) \in Nat \ {0} /\ Len(DesignSpecs) \in Nat \ {0}
    /\ EventKinds \subseteq AllFabricEvents /\ MaxEvents \in Nat

VARIABLES
    object,      \* the Topology and the NetworkDesign as stored
    cache,       \* ... and as the informer caches show them
    fresh,       \* the caches and copies of them that are up to date
    owned,       \* the objects each of them owns
    ownedCache,  \* ... as the informer caches show them
    pc,          \* the request each controller sends next
    copy,        \* the copy of its object each controller works on
    verdict,     \* the condition it reports at the end, and whether it requeues
    queue,       \* the owners in the work queues
    outage,      \* the controllers whose requests may fail
    events       \* changes and outages so far

vars == <<object, cache, fresh, owned, ownedCache, pc, copy, verdict, queue, outage, events>>
work == <<pc, copy, verdict, queue>>

-----------------------------------------------------------------------------
(* Objects.  spec is a position in TopologySpecs or DesignSpecs.  cond is  *)
(* the Ready condition: an error that repeats itself leaves it as it is,   *)
(* so the failures are told apart by their messages.                       *)

Specs(o) == IF o = "topology" THEN TopologySpecs ELSE DesignSpecs

Conditions == {"none", "Ready", "NoContainerLab", "TopologyNotReady", "ParseError", "RequestError"}

Absent == [phase |-> "absent", spec |-> 1, fin |-> FALSE, cond |-> "none"]

NoVerdict == [cond |-> "none", again |-> FALSE]

Lab(cr) == TopologySpecs[cr.spec]

\* The index of the AS numbers, and what the claims depend on it for.
GetASIndex == <<"ASIndex">>
DesignClaims(d) ==
    {<<"IPClaim", c>> : c \in GetIPClaims(d)} \cup {<<"ASClaim", c>> : c \in GetASClaims(d)}

GetGENIDIndex == <<"GENIDIndex">>

\* What an object with this spec asks for.
Wanted(o, spec) ==
    IF o = "topology"
    THEN GetLabNodes(TopologySpecs[spec]) \cup GetLabLinks(TopologySpecs[spec]) \cup {GetGENIDIndex}
    ELSE {GetASIndex} \cup DesignClaims(DesignSpecs[spec])

Kinds(o) == IF o = "topology" THEN {"Node", "Link", "GENIDIndex"} ELSE {"ASIndex", "ASClaim", "IPClaim"}

\* The kinds delete() names.  The design controller names the ASIndex twice
\* and leaves the ASClaims out.
DeletedKinds(o) == IF o = "topology" THEN Kinds(o) ELSE {"ASIndex", "IPClaim"}

OfKinds(objects, kinds) == {x \in objects : x[1] \in kinds}

Live(o) == object[o].phase = "live"

Init ==
    /\ object = [o \in Owners |-> Absent] /\ cache = object
    /\ fresh = {<<"cache", o>> : o \in Owners}
    /\ owned = [o \in Owners |-> {}] /\ ownedCache = owned
    /\ pc = [o \in Owners |-> "idle"] /\ copy = object
    /\ verdict = [o \in Owners |-> NoVerdict]
    /\ queue = {} /\ outage = {} /\ events = 0

-----------------------------------------------------------------------------
(* Steps of a reconcile.                                                   *)

Goto(o, to) ==
    /\ pc' = [pc EXCEPT ![o] = to]
    /\ UNCHANGED <<copy, verdict, queue>>

\* On to the status update, which reports cond and requeues or not.
Conclude(o, cond, again) ==
    /\ pc' = [pc EXCEPT ![o] = "report"]
    /\ verdict' = [verdict EXCEPT ![o] = [cond |-> cond, again |-> again]]
    /\ UNCHANGED <<copy, queue>>

Return(o, q) ==
    /\ pc' = [pc EXCEPT ![o] = "idle"]
    /\ copy' = [copy EXCEPT ![o] = Absent]
    /\ verdict' = [verdict EXCEPT ![o] = NoVerdict]
    /\ queue' = q

\* A write of the object of o: its cache is behind, every other copy too.
Store(o, new, copyIsFresh) ==
    /\ object' = [object EXCEPT ![o] = new]
    /\ fresh' = (fresh \ {<<"cache", o>>, <<"copy", o>>})
                    \cup {x \in {<<"copy", o>>} : copyIsFresh}

\* Reconcile takes its object from the cache.
Take(o) ==
    /\ pc[o] = "idle" /\ o \in queue
    /\ LET cr == cache[o]
       IN  IF cr.phase \in {"absent", "gone"}
           THEN Return(o, queue \ {o}) /\ UNCHANGED fresh
           ELSE /\ pc' = [pc EXCEPT ![o] = IF cr.phase = "deleting" THEN "delete"
                                           ELSE IF cr.fin THEN "gate" ELSE "finalize"]
                /\ copy' = [copy EXCEPT ![o] = cr]
                /\ queue' = queue \ {o}
                /\ fresh' = IF <<"cache", o>> \in fresh THEN fresh \cup {<<"copy", o>>} ELSE fresh
                /\ UNCHANGED verdict
    /\ UNCHANGED <<object, cache, owned, ownedCache, outage, events>>

IsFresh(o) == <<"copy", o>> \in fresh

\* Variant: the finalizer is added to the copy and not stored.
AddFinalizerToCopy(o) ==
    /\ pc[o] = "finalize"
    /\ Goto(o, "gate")
    /\ UNCHANGED <<object, fresh, cache, owned, ownedCache, outage, events>>

\* Variant: the copy that is worked on does not get what was stored.
AddFinalizerOfOtherCopy(o) ==
    /\ pc[o] = "finalize"
    /\ \/ /\ IsFresh(o)
          /\ Store(o, [object[o] EXCEPT !.fin = TRUE], TRUE)
          /\ Goto(o, "gate")
       \/ /\ ~IsFresh(o)
          /\ Conclude(o, "Conflict", TRUE)
          /\ UNCHANGED <<object, fresh>>
    /\ UNCHANGED <<cache, owned, ownedCache, outage, events>>

AddFinalizer(o) ==
    /\ pc[o] = "finalize"
    /\ \/ /\ IsFresh(o)
          /\ Store(o, [object[o] EXCEPT !.fin = TRUE], TRUE)
          /\ copy' = [copy EXCEPT ![o].fin = TRUE]
          /\ pc' = [pc EXCEPT ![o] = "gate"]
          /\ UNCHANGED <<verdict, queue>>
       \/ /\ ~IsFresh(o)
          /\ Conclude(o, "Conflict", TRUE)
          /\ UNCHANGED <<object, fresh>>
    /\ UNCHANGED <<cache, owned, ownedCache, outage, events>>

\* A Topology without a lab, or with one that does not parse, is reported and
\* not tried again.
TopologyGate ==
    /\ pc["topology"] = "gate"
    /\ \/ Lab(copy["topology"]).text = "none" /\ Conclude("topology", "NoContainerLab", FALSE)
       \/ Lab(copy["topology"]).text = "broken" /\ Conclude("topology", "ParseError", FALSE)
       \/ IsLab(Lab(copy["topology"])) /\ Goto("topology", "apply")
    /\ UNCHANGED <<object, cache, fresh, owned, ownedCache, outage, events>>

IsTopologyReady ==
    cache["topology"].phase \in {"live", "deleting"} /\ cache["topology"].cond = "Ready"

\* Variant: the claims are released while the topology is not ready.
DesignGateReleasing ==
    /\ pc["design"] = "gate"
    /\ IF IsTopologyReady THEN Goto("design", "index")
       ELSE /\ pc' = [pc EXCEPT !["design"] = "undo"]
            /\ verdict' = [verdict EXCEPT !["design"] = [cond |-> "TopologyNotReady", again |-> FALSE]]
            /\ UNCHANGED <<copy, queue>>
    /\ UNCHANGED <<object, cache, fresh, owned, ownedCache, outage, events>>

\* "We do not release resources at this stage."
DesignGate ==
    /\ pc["design"] = "gate"
    /\ IF IsTopologyReady THEN Goto("design", "index")
       ELSE Conclude("design", "TopologyNotReady", FALSE)
    /\ UNCHANGED <<object, cache, fresh, owned, ownedCache, outage, events>>

-----------------------------------------------------------------------------
(* Owned objects.  APIApply first deletes what the cache lists as owned,   *)
(* of the kinds it is responsible for, and is not new, and then creates or *)
(* updates what is new; D and S are what it reached.                       *)

\* The part of an apply that is made at this pc, and where it goes on to.
Part(o) == IF o = "design" /\ pc[o] = "index" THEN {"ASIndex"}
           ELSE IF o = "design" THEN {"ASClaim", "IPClaim"} ELSE Kinds(o)

New(o) == OfKinds(Wanted(o, copy[o].spec), Part(o))
Obsolete(o) == OfKinds(ownedCache[o], Part(o)) \ New(o)

Reach(o, D, S) == owned' = [owned EXCEPT ![o] = (@ \ D) \cup S]

Apply(o) ==
    /\ pc[o] \in {"index", "apply"}
    /\ Reach(o, Obsolete(o), New(o))
    /\ IF pc[o] = "index" THEN Goto(o, "apply") ELSE Conclude(o, "Ready", FALSE)
    /\ UNCHANGED <<object, cache, fresh, ownedCache, outage, events>>

\* The design controller deletes what it applied before, and the error of
\* the apply is reported.
Undo ==
    /\ pc["design"] = "undo"
    /\ Reach("design", OfKinds(ownedCache["design"], DeletedKinds("design")), {})
    /\ pc' = [pc EXCEPT !["design"] = "report"]
    /\ UNCHANGED <<object, cache, fresh, ownedCache, copy, verdict, queue, outage, events>>

Delete(o) ==
    /\ pc[o] = "delete"
    /\ Reach(o, OfKinds(ownedCache[o], DeletedKinds(o)), {})
    /\ Goto(o, "unfinalize")
    /\ UNCHANGED <<object, cache, fresh, ownedCache, outage, events>>

\* An object that is being deleted has this finalizer, the only one.
RemoveFinalizer(o) ==
    /\ pc[o] = "unfinalize"
    /\ \/ /\ IsFresh(o)
          /\ Store(o, [object[o] EXCEPT !.fin = FALSE, !.phase = "gone"], FALSE)
          /\ Return(o, queue)
       \/ /\ ~IsFresh(o)
          /\ Conclude(o, "Conflict", TRUE)
          /\ UNCHANGED <<object, fresh>>
    /\ UNCHANGED <<cache, owned, ownedCache, outage, events>>

\* Variant: the condition is patched, whichever object the copy was.
ReportUnconditionally(o) ==
    /\ pc[o] = "report"
    /\ Store(o, [object[o] EXCEPT !.cond = verdict[o].cond], FALSE)
    /\ Return(o, IF verdict[o].again THEN queue \cup {o} ELSE queue)
    /\ UNCHANGED <<cache, owned, ownedCache, outage, events>>

\* Status().Update: refused for an old copy, and without effect, not even an
\* event, when the condition is what it was.
Report(o) ==
    /\ pc[o] = "report"
    /\ LET new == [object[o] EXCEPT !.cond = verdict[o].cond]
           again == IF verdict[o].again \/ ~IsFresh(o) THEN queue \cup {o} ELSE queue
       IN  /\ IF IsFresh(o) /\ new # object[o]
              THEN Store(o, new, FALSE)
              ELSE fresh' = fresh \ {<<"copy", o>>} /\ UNCHANGED object
           /\ Return(o, again)
    /\ UNCHANGED <<cache, owned, ownedCache, outage, events>>

Controller(o) ==
    \/ Take(o) \/ AddFinalizer(o) \/ Apply(o) \/ Delete(o) \/ RemoveFinalizer(o) \/ Report(o)
    \/ o = "topology" /\ TopologyGate
    \/ o = "design" /\ (DesignGate \/ Undo)

-----------------------------------------------------------------------------
(* Caches and watches.                                                     *)

\* Variant: the design controller does not watch Topologies.
WatchersOwnersOnly(o) == {o}

\* The owner itself, and for a Topology the designs of it the cache lists.
Watchers(o) ==
    {o} \cup {d \in {"design"} : o = "topology" /\ cache["design"].phase \in {"live", "deleting"}}

SyncObject(o) ==
    /\ <<"cache", o>> \notin fresh
    /\ cache' = [cache EXCEPT ![o] = object[o]]
    /\ fresh' = fresh \cup {<<"cache", o>>}
    /\ queue' = queue \cup Watchers(o)
    /\ UNCHANGED <<object, owned, ownedCache, pc, copy, verdict, outage, events>>

\* The caches of the owned objects catch up.
SyncOwned(o) ==
    /\ ownedCache[o] # owned[o]
    /\ ownedCache' = [ownedCache EXCEPT ![o] = owned[o]]
    /\ queue' = queue \cup {o}
    /\ UNCHANGED <<object, cache, fresh, owned, pc, copy, verdict, outage, events>>

-----------------------------------------------------------------------------
(* Users, failures, the cluster.                                           *)

Event(kind) == kind \in EventKinds /\ events < MaxEvents /\ events' = events + 1

UserWrites(o, new) ==
    /\ Store(o, new, FALSE)
    /\ UNCHANGED <<cache, owned, ownedCache, work>>

Create(o) ==
    /\ object[o].phase = "absent"
    /\ UserWrites(o, [Absent EXCEPT !.phase = "live"])
    /\ UNCHANGED <<outage, events>>

ChangeSpec(o) ==
    /\ Event("spec") /\ Live(o)
    /\ \E s \in object[o].spec + 1 .. Len(Specs(o)) : UserWrites(o, [object[o] EXCEPT !.spec = s])
    /\ UNCHANGED outage

DeleteObject(o) ==
    /\ Event("delete") /\ Live(o)
    /\ UserWrites(o, [object[o] EXCEPT !.phase = IF @ = "live" /\ object[o].fin THEN "deleting" ELSE "gone"])
    /\ UNCHANGED outage

\* For a while any number of the requests of one controller fail: a webhook
\* or the storage of the kinds it writes is out of order.
Outage(o) ==
    /\ Event("outage") /\ outage' = {o}
    /\ UNCHANGED <<object, cache, fresh, owned, ownedCache, work>>

OutageEnds ==
    /\ outage # {} /\ outage' = {}
    /\ UNCHANGED <<object, cache, fresh, owned, ownedCache, work, events>>

\* A request of an apply fails half-way.
ApplyFails(o) ==
    /\ o \in outage
    /\ pc[o] \in {"index", "apply"}
    /\ \/ \E D \in SUBSET Obsolete(o) : Reach(o, D, {})
       \/ \E S \in SUBSET New(o) : Reach(o, Obsolete(o), S)
    /\ verdict' = [verdict EXCEPT ![o] = [cond |-> "RequestError", again |-> o = "design"]]
    /\ pc' = [pc EXCEPT ![o] = IF o = "design" THEN "undo" ELSE "report"]
    /\ UNCHANGED <<object, cache, fresh, ownedCache, copy, queue, outage, events>>

\* Another request fails: it is reported and the reconcile is tried again.
RequestFails(o) ==
    /\ o \in outage
    /\ \/ /\ pc[o] \in {"finalize", "unfinalize"}
          /\ Conclude(o, "RequestError", TRUE)
          /\ UNCHANGED <<fresh, owned>>
       \/ /\ pc[o] \in {"delete", "undo"}
          /\ \E D \in SUBSET OfKinds(ownedCache[o], DeletedKinds(o)) : Reach(o, D, {})
          /\ Conclude(o, "RequestError", TRUE)
          /\ UNCHANGED fresh
       \/ /\ pc[o] = "report"
          /\ Return(o, queue \cup {o})
          /\ fresh' = fresh \ {<<"copy", o>>}
          /\ UNCHANGED owned
    /\ UNCHANGED <<object, cache, ownedCache, outage, events>>

Restart ==
    /\ Event("restart")
    /\ cache' = object /\ ownedCache' = owned
    /\ fresh' = {<<"cache", o>> : o \in Owners}
    /\ pc' = [o \in Owners |-> "idle"]
    /\ copy' = [o \in Owners |-> Absent]
    /\ verdict' = [o \in Owners |-> NoVerdict]
    /\ queue' = {o \in Owners : object[o].phase \in {"live", "deleting"}}
    /\ UNCHANGED <<object, owned, outage>>

\* The cluster removes what an object that is gone owned.
CollectGarbage(o) ==
    /\ object[o].phase = "gone" /\ owned[o] # {}
    /\ owned' = [owned EXCEPT ![o] = {}]
    /\ UNCHANGED <<object, cache, fresh, ownedCache, work, outage, events>>

Cluster ==
    \/ \E o \in Owners : \/ Create(o) \/ ChangeSpec(o) \/ DeleteObject(o)
                         \/ ApplyFails(o) \/ RequestFails(o) \/ CollectGarbage(o)
                         \/ Outage(o)
    \/ OutageEnds \/ Restart

Informers == \E o \in Owners : SyncObject(o) \/ SyncOwned(o)

Next == (\E o \in Owners : Controller(o)) \/ Informers \/ Cluster

Spec == Init /\ [][Next]_vars

\* Every controller, and the caches and the collector, go on while they have
\* work, and outages end; users and restarts owe nothing.
Fairness ==
    /\ \A o \in Owners : WF_vars(Controller(o))
    /\ \A o \in Owners : WF_vars(SyncObject(o))
    /\ WF_vars(\E o \in Owners : CollectGarbage(o) \/ SyncOwned(o))
    /\ WF_vars(OutageEnds)

FairSpec == Spec /\ Fairness

-----------------------------------------------------------------------------
(* Properties.                                                             *)

\* The type invariant; copies are taken of existing objects only, and an
\* object that does not exist is not up to date in anybody's hands.
FabricTypeOK ==
    /\ \A o \in Owners :
           /\ object[o] \in [phase : {"absent", "live", "deleting", "gone"}, spec : 1 .. Len(Specs(o)),
                             fin : BOOLEAN, cond : Conditions]
           /\ owned[o] \subseteq UNION {Wanted(o, s) : s \in 1 .. Len(Specs(o))}
           /\ object[o].phase = "deleting" => object[o].fin
           /\ pc[o] = "idle" <=> copy[o].phase = "absent"
           /\ IsFresh(o) => copy[o] = object[o]
           /\ <<"cache", o>> \in fresh => cache[o] = object[o]
    /\ queue \subseteq Owners /\ events \in 0 .. MaxEvents

\* When Ready is stored, all that the stored spec asks for has been created,
\* although the spec may change and a request may fail while the controller
\* applies (topology/reconciler.go:126-147, networkdesign/reconciler.go:132-155).
ReadyMeansApplied ==
    [][\A o \in Owners :
          object'[o].phase = "live" /\ object'[o].cond = "Ready" /\ object[o].cond # "Ready" =>
              Wanted(o, object'[o].spec) \subseteq owned[o]]_vars

\* What the spec of a live object asks for is taken away only after a failed
\* apply of the design, or by a reconcile that does not know that spec yet: a
\* Topology that is not ready, or not there, takes no claim away
\* (networkdesign/reconciler.go:125-130, 133-141).
NothingNeededIsReleased ==
    [][\A o \in Owners : Live(o) /\ IsFresh(o) =>
          \/ Wanted(o, object[o].spec) \cap owned[o] \subseteq owned'[o]
          \/ o = "design" /\ verdict'[o].cond = "RequestError"]_vars

\* An object that owns anything has the finalizer under which it will be
\* released, until it is gone, although the controller adds it to a cached
\* copy and works on while users delete and change the stored object.
OwnersHoldFinalizer ==
    \A o \in Owners : object[o].phase # "gone" /\ owned[o] # {} => object[o].fin

\* Why these hold: an inductive invariant.  Kept stays true once it is.
Kept(o) == object[o].fin \/ object[o].phase = "gone"

\* A reconcile works on a copy of an object that was there, and has not seen
\* more than was stored; the finalizer comes before the objects.
CopiesInv(o) ==
    /\ IsFresh(o) => pc[o] # "idle"
    /\ verdict[o].cond = "Conflict" => pc[o] = "report" /\ ~IsFresh(o)
    /\ pc[o] \in {"delete", "unfinalize"} => copy[o].phase = "deleting"
    /\ pc[o] \in {"finalize", "gate", "index", "apply", "undo"} => copy[o].phase = "live"
    /\ copy[o].phase \in {"absent", "live", "deleting"}
    /\ pc[o] \in {"gate", "index", "apply"} => copy[o].fin
    /\ copy[o].fin \/ cache[o].fin \/ owned[o] # {} => Kept(o)
    /\ object[o].phase = "absent" => ~object[o].fin

\* What an apply has reached is still there while the copy is up to date, and
\* only a failed apply is undone.
AppliesInv(o) ==
    /\ IsFresh(o) /\ o = "design" /\ pc[o] = "apply" => GetASIndex \in owned[o]
    /\ IsFresh(o) /\ pc[o] = "report" /\ verdict[o].cond = "Ready" =>
          Wanted(o, object[o].spec) \subseteq owned[o]
    /\ pc[o] = "undo" => o = "design" /\ verdict[o].cond = "RequestError"

\* A status that lands describes the stored object, and what it vouches for
\* is there.
FabricInvariant ==
    /\ FabricTypeOK
    /\ \A o \in Owners : CopiesInv(o) /\ AppliesInv(o)
    /\ OwnersHoldFinalizer

TopologySettled ==
    LET t == object["topology"]
    IN  \/ IsLab(Lab(t)) /\ t.cond = "Ready" /\ owned["topology"] = Wanted("topology", t.spec)
        \/ Lab(t).text = "none" /\ t.cond = "NoContainerLab"
        \/ Lab(t).text = "broken" /\ t.cond = "ParseError"
        \/ t.cond = "RequestError" /\ events > 0

DesignSettled ==
    LET d == object["design"]
    IN  IF Live("topology") /\ object["topology"].cond = "Ready"
        THEN d.cond = "Ready" /\ owned["design"] = Wanted("design", d.spec)
        ELSE d.cond = "TopologyNotReady"

\* Once users and failures pause, deleted objects are gone, a Topology is
\* Ready with exactly its Nodes and Links, and a design Ready with exactly
\* its claims, or says that the Topology is not ready.  A failed apply of the
\* Topology is tried again only because it changes the condition: when the
\* next one fails with the same message, RequestError may stay.
FabricSettles ==
    <>[](/\ \A o \in Owners : object[o].phase # "deleting"
                             /\ (object[o].phase = "gone" => owned[o] = {})
         /\ Live("topology") => TopologySettled
         /\ Live("design") => DesignSettled)
=============================================================================
