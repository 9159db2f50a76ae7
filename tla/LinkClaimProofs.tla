-------------------------- MODULE LinkClaimProofs --------------------------
(***************************************************************************)
(* Theorems about LinkClaim, for any number of Links and Endpoints and any *)
(* ends, of Links that share none, one or both of them.                    *)
(***************************************************************************)
EXTENDS LinkClaim, TLAPS

-----------------------------------------------------------------------------
(* Types.                                                                  *)

\* Nothing left to do is a list of Endpoints too.
LEMMA NothingLeft == <<>> \in Seq(Endpoints)
  OBVIOUS

\* The two ends of a Link, taken off one after the other.
LEMMA EndsFacts ==
    ASSUME NEW l \in Links
    PROVE  /\ Ends[l] \in Seq(Endpoints) /\ Ends[l] # <<>>
           /\ Tail(Ends[l]) \in Seq(Endpoints) /\ Tail(Ends[l]) # <<>>
           /\ Tail(Ends[l]) # Ends[l] /\ Tail(Tail(Ends[l])) = <<>>
           /\ Head(Ends[l]) = Ends[l][1] /\ Head(Tail(Ends[l])) = Ends[l][2]
           /\ Ends[l][1] \in Endpoints /\ Ends[l][2] \in Endpoints
<1>1. PICK a \in Endpoints, b \in Endpoints : Ends[l] = <<a, b>>
  BY LinkAssumption
<1>2. Tail(<<a, b>>) = <<b>> /\ Tail(<<b>>) = <<>> /\ <<b>> # <<a, b>>
  OBVIOUS
<1>3. QED BY <1>1, <1>2

\* A new reconcile is typed.
LEMMA IdleType == \A l \in Links : Idle(l) \in Worker
  BY DEF Idle, Worker, PCs

\* What a reconcile takes from the caches is typed.
LEMMA GetEndpointsType ==
    ASSUME NEW l \in Links, NEW isFresh \in BOOLEAN, GetEndpoints(l, isFresh)
    PROVE  worker' \in Worker /\ TodoInv'
<1>1. Ends[l] \in Seq(Endpoints) /\ EndsOf(l) \subseteq Endpoints
  BY EndsFacts DEF EndsOf
<1>2. \/ \E again \in BOOLEAN :
            worker' = [Idle(l) EXCEPT !.pc = "fail", !.fresh = isFresh, !.retry = again]
      \/ worker' = [Idle(l) EXCEPT !.pc = "claim", !.fresh = isFresh,
                     !.todo = Ends[l], !.copies = EndsOf(l) \ epStale]
  BY DEF GetEndpoints
<1>3. TodoInv'
  BY <1>2, IdleType DEF Idle, Worker, TodoInv
<1>4. CASE \E again \in BOOLEAN :
              worker' = [Idle(l) EXCEPT !.pc = "fail", !.fresh = isFresh, !.retry = again]
  BY <1>3, <1>4, IdleType DEF Worker, PCs
<1>5. CASE worker' = [Idle(l) EXCEPT !.pc = "claim", !.fresh = isFresh,
                      !.todo = Ends[l], !.copies = EndsOf(l) \ epStale]
  <2>1. PICK ends \in Seq(Endpoints), copies \in SUBSET Endpoints :
           ends = Ends[l] /\ copies = EndsOf(l) \ epStale
    BY <1>1
  <2>2. worker' = [Idle(l) EXCEPT !.pc = "claim", !.fresh = isFresh, !.todo = ends,
                   !.copies = copies]
    BY <1>5, <2>1
  <2>3. Idle(l) \in Worker
    BY IdleType
  <2>4. worker' \in Worker
    BY <2>2, <2>3 DEF Worker, PCs
  <2>5. QED BY <1>3, <2>4
<1>6. QED BY <1>2, <1>4, <1>5

\* Undoing the claims starts with the first end again.
LEMMA UndoType ==
    ASSUME TypeOK, worker' = Undo(worker)
    PROVE  worker' \in Worker /\ TodoInv'
<1>1. worker \in Worker /\ worker.link \in Links
  BY DEF TypeOK, Worker
<1>2. Ends[worker.link] \in Seq(Endpoints)
  BY <1>1, EndsFacts
<1>3. QED BY <1>1, <1>2 DEF Undo, Worker, PCs, TodoInv

\* After the first end comes the second, and then the end of the loop.
LEMMA RestFacts ==
    ASSUME TypeOK, TodoInv, worker.pc \in {"claim", "undo", "release"}
    PROVE  /\ worker.todo # <<>> /\ Head(worker.todo) \in EndsOf(worker.link)
           /\ Head(worker.todo) \in Endpoints
           /\ Tail(worker.todo) \in Seq(Endpoints)
           /\ Tail(worker.todo) # <<>> => Tail(worker.todo) = Tail(Ends[worker.link])
<1>1. PICK l \in Links : l = worker.link
  BY DEF TypeOK, Worker
<1>2. worker.todo \in {Ends[l], Tail(Ends[l])}
  BY <1>1 DEF TodoInv
<1>3. CASE worker.todo = Ends[l]
  BY <1>1, <1>3, EndsFacts DEF EndsOf
<1>4. CASE worker.todo = Tail(Ends[l])
  <2>1. /\ Tail(worker.todo) = <<>> /\ worker.todo # <<>>
        /\ Head(worker.todo) = Ends[l][2] /\ Ends[l][2] \in Endpoints
    BY <1>4, EndsFacts
  <2>2. QED BY <1>1, <2>1, NothingLeft DEF EndsOf
<1>5. QED BY <1>2, <1>3, <1>4

\* So does a release, whether it fails or not.
LEMMA ReleasedType ==
    ASSUME TypeOK, TodoInv, worker.pc \in {"undo", "release"},
           NEW failed \in BOOLEAN, worker' = Released(worker, failed)
    PROVE  worker' \in Worker /\ TodoInv'
<1>1. worker \in Worker /\ worker.link \in Links /\ worker.error \in BOOLEAN
  BY DEF TypeOK, Worker
<1>2. CASE Tail(worker.todo) # <<>>
  <2>1. worker' = [worker EXCEPT !.todo = Tail(worker.todo), !.error = worker.error \/ failed]
    BY <1>2 DEF Released
  <2>2. (worker.error \/ failed) \in BOOLEAN
    OBVIOUS
  <2>3. QED BY <1>1, <1>2, <2>1, <2>2, RestFacts DEF Worker, PCs, TodoInv
<1>3. CASE Tail(worker.todo) = <<>>
  <2>1. \/ worker' = [worker EXCEPT !.pc = "unfinalize", !.todo = <<>>]
        \/ worker' = [worker EXCEPT !.pc = "fail", !.todo = <<>>, !.error = FALSE, !.retry = TRUE]
    BY <1>3 DEF Released
  <2>2. QED BY <1>1, <2>1, NothingLeft DEF Worker, PCs, TodoInv
<1>4. QED BY <1>2, <1>3

\* The types of what a write of an Endpoint or of a Link leaves.
LEMMA UpdateEndpointType ==
    ASSUME TypeOK, NEW e \in Endpoints, NEW claim \in Claims,
           UpdateEndpoint(e, claim)
    PROVE  /\ owner' \in [Endpoints -> Claims] /\ epStale' \in SUBSET Endpoints
           /\ epCache' \in [Endpoints -> Claims]
  BY DEF TypeOK, UpdateEndpoint

LEMMA UpdateLinkType ==
    ASSUME TypeOK, NEW l \in Links, NEW new \in LinkObject, NEW again \in BOOLEAN,
           UpdateLink(l, new, again)
    PROVE  /\ links' \in [Links -> LinkObject] /\ linkStale' \in SUBSET Links
           /\ worker' \in Worker /\ worker'.pc = "idle" /\ queue' \in SUBSET Links
<1>1. worker' = Idle(l) /\ queue' \in SUBSET Links
  BY DEF TypeOK, UpdateLink, Return
<1>2. QED BY <1>1, IdleType DEF TypeOK, UpdateLink, Idle

\* The result of a reconcile is a Link.
LEMMA LinkResultType ==
    ASSUME TypeOK, NEW l \in Links
    PROVE  /\ LinkResult(l) \in LinkObject
           /\ LinkResult(l).phase = links[l].phase
           /\ LinkResult(l).finalizer = links[l].finalizer
           /\ LinkResult(l).ready = "Ready" => worker.pc = "ready"
<1>1. links[l] \in LinkObject
  BY DEF TypeOK
<1>2. QED BY <1>1 DEF LinkResult, LinkObject

\* A user's write and the inventory's change nothing of the reconcile but
\* which of its copies are up to date.
LEMMA WritesType ==
    ASSUME TypeOK, TodoInv
    PROVE  /\ \A l \in Links, new \in LinkObject :
                 UserWrites(l, new) /\ events' \in 0 .. MaxEvents => TypeOK' /\ TodoInv'
           /\ \A e \in Endpoints, claim \in Claims :
                 InventoryWrites(e, claim) /\ events' \in 0 .. MaxEvents => TypeOK' /\ TodoInv'
<1>0. worker \in Worker
  BY DEF TypeOK
<1>1. ASSUME NEW l \in Links, NEW new \in LinkObject, UserWrites(l, new),
             events' \in 0 .. MaxEvents
      PROVE  TypeOK' /\ TodoInv'
  <2>1. PICK isFresh \in BOOLEAN : worker' = [worker EXCEPT !.fresh = isFresh]
    BY <1>0, <1>1 DEF UserWrites, Worker
  <2>2. worker' \in Worker /\ TodoInv'
    BY <1>0, <2>1 DEF Worker, TodoInv
  <2>3. QED BY <1>1, <2>2 DEF UserWrites, TypeOK, eps
<1>2. ASSUME NEW e \in Endpoints, NEW claim \in Claims, InventoryWrites(e, claim),
             events' \in 0 .. MaxEvents
      PROVE  TypeOK' /\ TodoInv'
  <2>1. worker' \in Worker /\ TodoInv'
    BY <1>0, <1>2 DEF InventoryWrites, Worker, TodoInv
  <2>2. QED BY <1>2, <2>1 DEF InventoryWrites, TypeOK
<1>3. QED BY <1>1, <1>2

\* What the writes of the finalizer store.
LEMMA FinalizerTypes ==
    ASSUME TypeOK, NEW l \in Links
    PROVE  /\ [links EXCEPT ![l].finalizer = TRUE] \in [Links -> LinkObject]
           /\ [links EXCEPT ![l].finalizer = FALSE, ![l].phase = "gone"] \in [Links -> LinkObject]
<1>1. /\ links \in [Links -> LinkObject]
      /\ [links[l] EXCEPT !.finalizer = TRUE] \in LinkObject
      /\ [links[l] EXCEPT !.finalizer = FALSE, !.phase = "gone"] \in LinkObject
  BY DEF TypeOK, LinkObject
<1>2. /\ [links EXCEPT ![l].finalizer = TRUE]
            = [links EXCEPT ![l] = [links[l] EXCEPT !.finalizer = TRUE]]
      /\ [links EXCEPT ![l].finalizer = FALSE, ![l].phase = "gone"]
            = [links EXCEPT ![l] = [links[l] EXCEPT !.finalizer = FALSE, !.phase = "gone"]]
  BY <1>1
<1>3. QED BY <1>1, <1>2

\* A reconcile of l that goes on to report a failure.
LEMMA FailType ==
    ASSUME TypeOK, worker' = [worker EXCEPT !.pc = "fail", !.retry = TRUE]
    PROVE  worker' \in Worker /\ TodoInv'
  BY DEF TypeOK, Worker, PCs, TodoInv

\* A step of a reconcile keeps the types.
LEMMA ReconcileType ==
    ASSUME TypeOK, TodoInv, Reconcile
    PROVE  TypeOK' /\ TodoInv'
<1> USE DEF eps
<1>0. worker \in Worker /\ worker.fresh \in BOOLEAN /\ worker.retry \in BOOLEAN
  BY DEF TypeOK, Worker
<1>1. ASSUME NEW l \in Links, Start(l) PROVE TypeOK' /\ TodoInv'
  <2>1. queue' \in SUBSET Links /\ UNCHANGED <<links, linkCache, linkStale, eps, events>>
    BY <1>1 DEF Start, TypeOK
  <2>2. worker' \in Worker /\ TodoInv'
    <3>1. CASE worker' = Idle(l)
      BY <3>1, IdleType DEF Idle, TodoInv
    <3>2. ASSUME NEW isFresh \in BOOLEAN, GetEndpoints(l, isFresh)
          PROVE  worker' \in Worker /\ TodoInv'
      BY <3>2, GetEndpointsType
    <3>3. CASE \E isFresh \in BOOLEAN : worker' = [Idle(l) EXCEPT !.pc = "finalize", !.fresh = isFresh]
      BY <3>3, IdleType DEF Worker, PCs, TodoInv
    <3>4. CASE \E isFresh \in BOOLEAN : worker' = [Idle(l) EXCEPT !.pc = "release",
                                              !.fresh = isFresh, !.todo = Ends[l]]
      <4>1. Idle(l).link = l /\ Idle(l) \in Worker /\ Ends[l] \in Seq(Endpoints)
        BY IdleType, EndsFacts DEF Idle
      <4>2. QED BY <3>4, <4>1 DEF Worker, PCs, TodoInv
    <3>5. (l \notin linkStale) \in BOOLEAN
      OBVIOUS
    <3>6. QED BY <1>1, <3>1, <3>2, <3>3, <3>4, <3>5 DEF Start
  <2>3. QED BY <2>1, <2>2 DEF TypeOK
<1>2. ASSUME NEW l \in Links, AddFinalizer(l) PROVE TypeOK' /\ TodoInv'
  <2>1. CASE worker.fresh
    <3>1. /\ links' = [links EXCEPT ![l].finalizer = TRUE] /\ linkStale' = linkStale \cup {l}
          /\ GetEndpoints(l, TRUE) /\ UNCHANGED <<linkCache, eps, queue, events>>
      BY <1>2, <2>1 DEF AddFinalizer
    <3>2. QED BY <3>1, GetEndpointsType, FinalizerTypes DEF TypeOK
  <2>2. CASE ~worker.fresh
    BY <1>2, <2>2, FailType DEF AddFinalizer, TypeOK
  <2>3. QED BY <2>1, <2>2
<1>3. ASSUME NEW l \in Links, Claim(l) PROVE TypeOK' /\ TodoInv'
  <2>1. Head(worker.todo) \in Endpoints /\ l \in Claims /\ worker.pc = "claim"
    BY <1>3, RestFacts DEF Claim, Claims
  <2>2. UNCHANGED <<links, linkCache, linkStale, queue, events>>
    BY <1>3 DEF Claim
  <2>3. CASE Head(worker.todo) \in worker.copies
    <3>1. UpdateEndpoint(Head(worker.todo), l)
      BY <1>3, <2>3 DEF Claim
    <3>2. \/ worker' = [worker EXCEPT !.pc = "ready", !.todo = <<>>]
          \/ /\ Tail(worker.todo) # <<>>
             /\ worker' = [worker EXCEPT !.todo = Tail(worker.todo)]
      BY <1>3, <2>3 DEF Claim
    <3>3. worker' \in Worker /\ TodoInv'
      BY <1>0, <2>1, <3>2, RestFacts, NothingLeft DEF Worker, PCs, TodoInv
    <3>4. QED BY <2>1, <2>2, <3>1, <3>3, UpdateEndpointType DEF TypeOK
  <2>4. CASE Head(worker.todo) \notin worker.copies
    BY <1>3, <2>2, <2>4, UndoType DEF Claim, TypeOK
  <2>5. QED BY <2>3, <2>4
<1>4. ASSUME NEW l \in Links, Release(l) PROVE TypeOK' /\ TodoInv'
  <2>1. Head(worker.todo) \in Endpoints /\ Nobody \in Claims
    BY <1>4, RestFacts DEF Release, Claims
  <2>2. \E failed \in BOOLEAN : worker' = Released(worker, failed)
    BY <1>4 DEF Release
  <2>3. worker' \in Worker /\ TodoInv'
    BY <1>4, <2>2, ReleasedType DEF Release
  <2>4. QED BY <1>4, <2>1, <2>3, UpdateEndpointType DEF Release, TypeOK
<1>5. ASSUME NEW l \in Links, RemoveFinalizer(l) PROVE TypeOK' /\ TodoInv'
  <2>1. CASE worker.fresh
    <3>1. /\ links' = [links EXCEPT ![l].finalizer = FALSE, ![l].phase = "gone"]
          /\ linkStale' = linkStale \cup {l} /\ worker' = Idle(l)
          /\ UNCHANGED <<linkCache, eps, queue, events>>
      BY <1>5, <2>1 DEF RemoveFinalizer, Return
    <3>2. worker' \in Worker /\ TodoInv'
      BY <3>1, IdleType DEF Idle, TodoInv
    <3>3. QED BY <3>1, <3>2, FinalizerTypes DEF TypeOK
  <2>2. CASE ~worker.fresh
    BY <1>5, <2>2, FailType DEF RemoveFinalizer, TypeOK
  <2>3. QED BY <2>1, <2>2
<1>6. ASSUME NEW l \in Links, Report(l) PROVE TypeOK' /\ TodoInv'
  <2>1. UpdateLink(l, LinkResult(l), worker.retry)
    BY <1>6 DEF Report
  <2>2. QED BY <1>0, <1>6, <2>1, UpdateLinkType, LinkResultType DEF Report, TypeOK, TodoInv
<1>7. QED BY <1>1, <1>2, <1>3, <1>4, <1>5, <1>6 DEF Reconcile

\* A request that fails, or whose answer is lost.
LEMMA RequestFailsType ==
    ASSUME TypeOK, TodoInv, RequestFails
    PROVE  TypeOK' /\ TodoInv'
<1> USE DEF eps
<1>0. /\ worker \in Worker /\ worker.link \in Links
      /\ events' \in 0 .. MaxEvents /\ UNCHANGED linkCache
  BY LinkAssumption DEF RequestFails, Event, TypeOK, Worker
<1>1. CASE LinkRequestFails(worker.link)
  <2>1. CASE worker.pc \in {"finalize", "unfinalize"}
    <3>1. worker' = [worker EXCEPT !.pc = "fail", !.fresh = FALSE, !.retry = TRUE]
      BY <1>1, <2>1 DEF LinkRequestFails
    <3>2. worker' \in Worker /\ TodoInv'
      BY <1>0, <3>1 DEF Worker, PCs, TodoInv
    <3>3. UNCHANGED <<owner, epCache, epStale, queue>>
      BY <1>1, <2>1 DEF LinkRequestFails
    <3>4. PICK l \in Links : l = worker.link
      BY <1>0
    <3>5. links' \in [Links -> LinkObject] /\ linkStale' \in SUBSET Links
      <4>1. /\ links \in [Links -> LinkObject] /\ linkStale \in SUBSET Links
            /\ [links[l] EXCEPT !.finalizer = TRUE] \in LinkObject
            /\ [links[l] EXCEPT !.finalizer = FALSE, !.phase = "gone"] \in LinkObject
        BY DEF TypeOK, LinkObject
      <4>2. \/ UNCHANGED <<links, linkStale>>
            \/ /\ linkStale' = linkStale \cup {l}
               /\ links' = [links EXCEPT ![l] =
                     IF worker.pc = "finalize" THEN [links[l] EXCEPT !.finalizer = TRUE]
                     ELSE [links[l] EXCEPT !.finalizer = FALSE, !.phase = "gone"]]
        BY <1>1, <2>1, <3>4 DEF LinkRequestFails
      <4>3. QED BY <4>1, <4>2
    <3>6. QED BY <1>0, <3>2, <3>3, <3>5 DEF TypeOK
  <2>2. CASE worker.pc \in {"fail", "ready"}
    <3>1. UNCHANGED <<owner, epCache, epStale>>
      BY <1>1, <2>2 DEF LinkRequestFails
    <3>2. CASE UpdateLink(worker.link, LinkResult(worker.link), TRUE)
      <4>1. /\ links' \in [Links -> LinkObject] /\ linkStale' \in SUBSET Links
            /\ worker' \in Worker /\ worker'.pc = "idle" /\ queue' \in SUBSET Links
        BY <1>0, <3>2, UpdateLinkType, LinkResultType
      <4>2. QED BY <1>0, <3>1, <4>1 DEF TypeOK, TodoInv
    <3>3. CASE Return(worker.link, TRUE) /\ UNCHANGED <<links, linkStale>>
      BY <1>0, <3>1, <3>3, IdleType DEF Return, Idle, TypeOK, TodoInv
    <3>4. QED BY <1>1, <2>2, <3>2, <3>3 DEF LinkRequestFails
  <2>3. QED BY <1>1, <2>1, <2>2 DEF LinkRequestFails
<1>2. CASE EndpointRequestFails(worker.link)
  <2>1. /\ worker.pc \in {"claim", "undo", "release"}
        /\ UNCHANGED <<links, linkStale, queue>>
    BY <1>2 DEF EndpointRequestFails
  <2>2. Head(worker.todo) \in Endpoints /\ worker.link \in Claims /\ Nobody \in Claims
    BY <1>0, <2>1, RestFacts DEF Claims
  <2>3. \/ worker' = Undo(worker)
        \/ worker.pc \in {"undo", "release"} /\ worker' = Released(worker, TRUE)
    BY <1>2 DEF EndpointRequestFails
  <2>4. worker' \in Worker /\ TodoInv'
    BY <2>3, UndoType, ReleasedType
  <2>5. \/ UNCHANGED <<owner, epCache, epStale>>
        \/ \E claim \in Claims : UpdateEndpoint(Head(worker.todo), claim)
    BY <1>2, <2>2 DEF EndpointRequestFails
  <2>6. QED BY <1>0, <2>1, <2>2, <2>4, <2>5, UpdateEndpointType DEF TypeOK
<1>3. QED BY <1>1, <1>2 DEF RequestFails

\* Every variable keeps its type, whatever the Links and their ends; and the
\* reconciles go through both ends.
THEOREM LinkTypeCorrect == Spec => [](TypeOK /\ TodoInv)
<1>1. Init => TypeOK /\ TodoInv
  <2> SUFFICES ASSUME Init PROVE TypeOK /\ TodoInv
    OBVIOUS
  <2>1. PICK l \in Links : worker = Idle(l)
    <3>1. (CHOOSE l \in Links : TRUE) \in Links
      BY LinkAssumption
    <3>2. QED BY <3>1, Zenon DEF Init
  <2>2. worker \in Worker /\ TodoInv
    BY <2>1, IdleType DEF Idle, TodoInv
  <2>3. QED BY <2>2, LinkAssumption DEF Init, TypeOK, Absent, LinkObject, Claims
<1>2. TypeOK /\ TodoInv /\ [Next]_vars => TypeOK' /\ TodoInv'
  <2> SUFFICES ASSUME TypeOK, TodoInv, [Next]_vars PROVE TypeOK' /\ TodoInv'
    OBVIOUS
  <2> USE DEF eps
  <2>1. CASE Reconcile
    BY <2>1, ReconcileType
  <2>2. ASSUME NEW l \in Links, SyncLink(l) PROVE TypeOK' /\ TodoInv'
    BY <2>2 DEF SyncLink, TypeOK, TodoInv
  <2>3. ASSUME NEW e \in Endpoints, SyncEndpoint(e) PROVE TypeOK' /\ TodoInv'
    BY <2>3 DEF SyncEndpoint, Watchers, TypeOK, TodoInv
  <2>4. ASSUME NEW kind, Event(kind) PROVE events' \in 0 .. MaxEvents
    BY <2>4, LinkAssumption DEF Event, TypeOK
  <2>5. ASSUME NEW l \in Links, CreateLink(l) \/ DeleteLink(l) PROVE TypeOK' /\ TodoInv'
    <3>1. /\ [Absent EXCEPT !.phase = "live"] \in LinkObject
          /\ \A ph \in {"deleting", "gone"} : [links[l] EXCEPT !.phase = ph] \in LinkObject
      BY DEF TypeOK, Absent, LinkObject
    <3>2. \E new \in LinkObject : UserWrites(l, new)
      BY <2>5, <3>1 DEF CreateLink, DeleteLink
    <3>3. events' \in 0 .. MaxEvents
      BY <2>4, <2>5 DEF CreateLink, DeleteLink, TypeOK
    <3>4. QED BY <3>2, <3>3, WritesType
  <2>6. ASSUME NEW e \in Endpoints,
               CreateEndpoint(e) \/ TouchEndpoint(e) \/ RemoveEndpoint(e)
        PROVE  TypeOK' /\ TodoInv'
    <3>1. owner[e] \in Claims /\ Nobody \in Claims /\ "missing" \in Claims
      BY DEF TypeOK, Claims
    <3>2. \E claim \in Claims : InventoryWrites(e, claim)
      BY <2>6, <3>1 DEF CreateEndpoint, TouchEndpoint, RemoveEndpoint
    <3>3. events' \in 0 .. MaxEvents
      BY <2>4, <2>6 DEF CreateEndpoint, TouchEndpoint, RemoveEndpoint, TypeOK
    <3>4. QED BY <3>2, <3>3, WritesType
  <2>7. CASE RequestFails
    BY <2>7, RequestFailsType
  <2>8. CASE Restart
    <3>1. worker' = Idle(worker.link) /\ worker.link \in Links
      BY <2>8 DEF Restart, TypeOK, Worker
    <3>2. worker' \in Worker /\ TodoInv'
      BY <3>1, IdleType DEF Idle, TodoInv
    <3>3. QED BY <2>4, <2>8, <3>2 DEF Restart, TypeOK
  <2>9. CASE UNCHANGED vars
    BY <2>9 DEF vars, TypeOK, TodoInv
  <2>10. QED BY <2>1, <2>2, <2>3, <2>5, <2>6, <2>7, <2>8, <2>9
         DEF Next, Informers, Cluster
<1>3. QED BY <1>1, <1>2, PTL DEF Spec

-----------------------------------------------------------------------------
(* What a step may do to the Links and to the claims.                      *)

\* Links come into being once, and those that are bound remain so; only a
\* reconcile that has both ends calls its Link Ready.
LinkMoves(l) ==
    /\ links[l].phase # "absent" =>
          /\ links'[l].phase # "absent"
          /\ Bound(links[l]) => Bound(links'[l])
    /\ links'[l].phase = "absent" => ~links'[l].finalizer
    /\ linkCache'[l] \in {linkCache[l], links[l]}
    /\ links[l].ready # "Ready" /\ links'[l].ready = "Ready" =>
          l = worker.link /\ worker.pc = "ready"

\* A step that leaves the Links and their cache alone.
LEMMA LinkStays ==
    ASSUME LinkInvariant, NEW l \in Links, links'[l] = links[l],
           linkCache'[l] \in {linkCache[l], links[l]}
    PROVE  LinkMoves(l)
  BY DEF LinkMoves, LinkInvariant, LinkCachesInv, Bound

\* A write of one Link.
LEMMA LinkWritten ==
    ASSUME TypeOK, LinkInvariant, NEW k \in Links, NEW new \in LinkObject,
           links' = [links EXCEPT ![k] = new], linkCache' = linkCache,
           new.phase # "absent",
           links[k].phase # "absent" /\ Bound(links[k]) => Bound(new),
           new.ready = "Ready" =>
              links[k].ready = "Ready" \/ (k = worker.link /\ worker.pc = "ready")
    PROVE  \A l \in Links : LinkMoves(l)
<1> SUFFICES ASSUME NEW l \in Links PROVE LinkMoves(l)
  OBVIOUS
<1>0. links \in [Links -> LinkObject]
  BY DEF TypeOK
<1>1. CASE l = k
  <2>1. links'[l] = new /\ linkCache'[l] = linkCache[l]
    BY <1>0, <1>1
  <2>2. QED BY <1>1, <2>1 DEF LinkMoves, Bound
<1>2. CASE l # k
  BY <1>0, <1>2, LinkStays
<1>3. QED BY <1>1, <1>2

\* The update that ends a reconcile.
LEMMA UpdateLinkMoves ==
    ASSUME TypeOK, LinkInvariant, worker.pc \in {"fail", "ready"},
           NEW again \in BOOLEAN, linkCache' = linkCache,
           UpdateLink(worker.link, LinkResult(worker.link), again)
    PROVE  \A l \in Links : LinkMoves(l)
<1>1. worker.link \in Links /\ links[worker.link].phase # "absent"
  BY DEF TypeOK, Worker, LinkInvariant, WorkerInv
<1>2. CASE links' = links
  BY <1>2, LinkStays
<1>3. CASE links' = [links EXCEPT ![worker.link] = LinkResult(worker.link)]
  <2>1. PICK k \in Links, new \in LinkObject : k = worker.link /\ new = LinkResult(k)
    BY <1>1, LinkResultType
  <2>2. /\ new.phase = links[k].phase /\ new.finalizer = links[k].finalizer
        /\ new.ready = "Ready" => worker.pc = "ready"
    BY <2>1, LinkResultType
  <2>3. /\ links' = [links EXCEPT ![k] = new] /\ new.phase # "absent"
        /\ links[k].phase # "absent" /\ Bound(links[k]) => Bound(new)
        /\ new.ready = "Ready" =>
              links[k].ready = "Ready" \/ (k = worker.link /\ worker.pc = "ready")
    BY <1>1, <1>3, <2>1, <2>2 DEF Bound
  <2>4. QED BY <2>3, LinkWritten, Zenon
<1>4. QED BY <1>2, <1>3 DEF UpdateLink

\* The writes of the finalizer.
LEMMA FinalizerMoves ==
    ASSUME TypeOK, LinkInvariant, NEW k \in Links, worker.link = k,
           worker.pc \in {"finalize", "unfinalize"}, linkCache' = linkCache,
           \/ links' = [links EXCEPT ![k] = [@ EXCEPT !.finalizer = TRUE]]
           \/ links' = [links EXCEPT ![k] = [@ EXCEPT !.finalizer = FALSE, !.phase = "gone"]]
    PROVE  \A l \in Links : LinkMoves(l)
<1>1. links[k] \in LinkObject /\ links[k].phase # "absent"
  BY DEF TypeOK, LinkInvariant, WorkerInv
<1>2. PICK new \in LinkObject :
         /\ links' = [links EXCEPT ![k] = new]
         /\ new.phase # "absent" /\ Bound(new)
         /\ new.ready = links[k].ready
  <2>1. CASE links' = [links EXCEPT ![k] = [@ EXCEPT !.finalizer = TRUE]]
    <3> DEFINE new == [links[k] EXCEPT !.finalizer = TRUE]
    <3>1. new \in LinkObject /\ new.phase # "absent" /\ Bound(new) /\ new.ready = links[k].ready
      BY <1>1 DEF LinkObject, Bound
    <3>2. QED BY <2>1, <3>1
  <2>2. CASE links' = [links EXCEPT ![k] = [@ EXCEPT !.finalizer = FALSE, !.phase = "gone"]]
    <3> DEFINE new == [links[k] EXCEPT !.finalizer = FALSE, !.phase = "gone"]
    <3>1. new \in LinkObject /\ new.phase = "gone" /\ Bound(new) /\ new.ready = links[k].ready
      BY <1>1 DEF LinkObject, Bound
    <3>2. QED BY <2>2, <3>1
  <2>3. QED BY <2>1, <2>2
<1>3. /\ links[k].phase # "absent" /\ Bound(links[k]) => Bound(new)
      /\ new.ready = "Ready" => links[k].ready = "Ready" \/ (k = worker.link /\ worker.pc = "ready")
  BY <1>2
<1>4. QED BY <1>2, <1>3, LinkWritten, Zenon

\* Any step.
LEMMA StepLinkMoves ==
    ASSUME TypeOK, LinkInvariant, [Next]_vars
    PROVE  \A l \in Links : LinkMoves(l)
<1>1. CASE links' = links /\ linkCache' = linkCache
  BY <1>1, LinkStays
<1>2. ASSUME NEW k \in Links, AddFinalizer(k) \/ RemoveFinalizer(k)
      PROVE  \A l \in Links : LinkMoves(l)
  <2>1. CASE worker.fresh
    <3>1. /\ linkCache' = linkCache /\ worker.link = k /\ worker.pc \in {"finalize", "unfinalize"}
          /\ \/ links' = [links EXCEPT ![k].finalizer = TRUE]
             \/ links' = [links EXCEPT ![k].finalizer = FALSE, ![k].phase = "gone"]
      BY <1>2, <2>1 DEF AddFinalizer, RemoveFinalizer
    <3>2. links \in [Links -> LinkObject]
      BY DEF TypeOK
    <3>3. \/ links' = [links EXCEPT ![k] = [@ EXCEPT !.finalizer = TRUE]]
          \/ links' = [links EXCEPT ![k] = [@ EXCEPT !.finalizer = FALSE, !.phase = "gone"]]
      BY <3>1, <3>2
    <3>4. QED BY <3>1, <3>3, FinalizerMoves
  <2>2. CASE ~worker.fresh
    BY <1>1, <1>2, <2>2 DEF AddFinalizer, RemoveFinalizer
  <2>3. QED BY <2>1, <2>2
<1>3. ASSUME NEW k \in Links, Report(k) PROVE \A l \in Links : LinkMoves(l)
  <2>1. /\ UpdateLink(worker.link, LinkResult(worker.link), worker.retry)
        /\ linkCache' = linkCache /\ worker.pc \in {"fail", "ready"}
        /\ worker.retry \in BOOLEAN
    BY <1>3 DEF Report, TypeOK, Worker
  <2>2. QED BY <2>1, UpdateLinkMoves
<1>4. ASSUME NEW k \in Links, SyncLink(k) PROVE \A l \in Links : LinkMoves(l)
  <2>1. \A l \in Links : links'[l] = links[l] /\ linkCache'[l] \in {linkCache[l], links[l]}
    BY <1>4 DEF SyncLink, TypeOK
  <2>2. QED BY <2>1, LinkStays
<1>5. ASSUME NEW k \in Links, CreateLink(k) \/ DeleteLink(k) PROVE \A l \in Links : LinkMoves(l)
  <2>1. PICK new \in LinkObject :
           /\ links' = [links EXCEPT ![k] = new] /\ linkCache' = linkCache
           /\ new.phase # "absent"
           /\ links[k].phase # "absent" /\ Bound(links[k]) => Bound(new)
           /\ new.ready = "Ready" => links[k].ready = "Ready"
    <3>1. links[k] \in LinkObject
      BY DEF TypeOK
    <3>2. CASE CreateLink(k)
      <4> DEFINE new == [Absent EXCEPT !.phase = "live"]
      <4>1. new \in LinkObject /\ new.phase = "live" /\ new.ready = "Unknown"
        BY DEF Absent, LinkObject
      <4>2. links' = [links EXCEPT ![k] = new] /\ linkCache' = linkCache /\ links[k].phase = "absent"
        BY <3>2 DEF CreateLink, UserWrites
      <4>3. QED BY <4>1, <4>2
    <3>3. CASE DeleteLink(k)
      <4> DEFINE new == [links[k] EXCEPT !.phase = IF links[k].finalizer THEN "deleting" ELSE "gone"]
      <4>1. new \in LinkObject /\ new.phase # "absent" /\ new.ready = links[k].ready /\ Bound(new)
        BY <3>1 DEF LinkObject, Bound
      <4>2. links' = [links EXCEPT ![k] = new] /\ linkCache' = linkCache
        BY <3>3 DEF DeleteLink, UserWrites
      <4>3. QED BY <4>1, <4>2
    <3>4. QED BY <1>5, <3>2, <3>3
  <2>2. QED BY <2>1, LinkWritten
<1>6. CASE RequestFails
  <2>0. linkCache' = linkCache
    BY <1>6 DEF RequestFails
  <2>1. CASE LinkRequestFails(worker.link)
    <3>1. CASE links' = links
      BY <1>1, <2>0, <3>1
    <3>2. CASE worker.pc \in {"finalize", "unfinalize"} /\ links' # links
      <4>1. PICK k \in Links : k = worker.link
        BY DEF TypeOK, Worker
      <4>2. \/ links' = [links EXCEPT ![k] = [@ EXCEPT !.finalizer = TRUE]]
            \/ links' = [links EXCEPT ![k] = [@ EXCEPT !.finalizer = FALSE, !.phase = "gone"]]
        BY <2>1, <3>2, <4>1 DEF LinkRequestFails
      <4>3. QED BY <2>0, <3>2, <4>1, <4>2, FinalizerMoves
    <3>3. CASE worker.pc \in {"fail", "ready"} /\ links' # links
      BY <2>0, <2>1, <3>3, UpdateLinkMoves DEF LinkRequestFails
    <3>4. QED BY <2>1, <3>1, <3>2, <3>3 DEF LinkRequestFails
  <2>2. CASE EndpointRequestFails(worker.link)
    BY <1>1, <2>0, <2>2 DEF EndpointRequestFails
  <2>3. QED BY <1>6, <2>1, <2>2 DEF RequestFails
<1>7. CASE Restart
  <2>1. \A l \in Links : links'[l] = links[l] /\ linkCache'[l] \in {linkCache[l], links[l]}
    BY <1>7 DEF Restart
  <2>2. QED BY <2>1, LinkStays
<1>8. CASE \/ \E k \in Links : Start(k) \/ Claim(k) \/ Release(k)
           \/ \E e \in Endpoints : SyncEndpoint(e)
           \/ \E e \in Endpoints : CreateEndpoint(e) \/ TouchEndpoint(e) \/ RemoveEndpoint(e)
           \/ UNCHANGED vars
  BY <1>1, <1>8 DEF Start, Claim, Release, SyncEndpoint, CreateEndpoint, TouchEndpoint,
                    RemoveEndpoint, InventoryWrites, vars
<1>9. QED BY <1>2, <1>3, <1>4, <1>5, <1>6, <1>7, <1>8 DEF Next, Reconcile, Informers, Cluster

\* The inventory removes an Endpoint, or creates it anew.
InventoryMoves(e) ==
    /\ owner'[e] = "missing" \/ (owner[e] = "missing" /\ owner'[e] = Nobody)
    /\ e \notin worker'.copies

\* A claim is changed by the inventory, or by the reconcile in progress: it
\* takes what its copies show to be free and releases what is its own.
OwnerMoves(e) ==
    \/ owner'[e] = owner[e]
    \/ InventoryMoves(e)
    \/ worker.pc = "claim" /\ e \in worker.copies /\ owner'[e] = worker.link
    \/ worker.pc \in {"undo", "release"} /\ owner[e] = worker.link /\ owner'[e] = Nobody

\* The cache of an Endpoint that is not known to be behind shows its claim.
EndpointCached(e) == e \notin epStale => epCache[e] = owner[e]

LEMMA UpdateEndpointMoves ==
    ASSUME TypeOK, LinkInvariant, NEW e \in Endpoints, NEW claim \in Claims,
           UpdateEndpoint(e, claim)
    PROVE  /\ owner'[e] = claim
           /\ \A f \in Endpoints : f # e => owner'[f] = owner[f]
           /\ \A f \in Endpoints : EndpointCached(f)'
  BY DEF TypeOK, UpdateEndpoint, EndpointCached, LinkInvariant, LinkCachesInv

\* Any step.
LEMMA StepOwnerMoves ==
    ASSUME TypeOK, LinkInvariant, [Next]_vars
    PROVE  \A e \in Endpoints : OwnerMoves(e) /\ EndpointCached(e)'
<1> USE DEF eps
<1>0. /\ worker.link \in Links /\ worker.link \in Claims /\ Nobody \in Claims /\ TodoInv
      /\ \A e \in Endpoints : EndpointCached(e)
  BY DEF TypeOK, Worker, Claims, LinkInvariant, LinkCachesInv, EndpointCached
<1>1. CASE UNCHANGED eps
  BY <1>0, <1>1 DEF OwnerMoves, EndpointCached
<1>2. ASSUME worker.pc = "claim", Head(worker.todo) \in worker.copies,
             UpdateEndpoint(Head(worker.todo), worker.link)
      PROVE  \A e \in Endpoints : OwnerMoves(e) /\ EndpointCached(e)'
  <2>1. PICK f \in Endpoints : f = Head(worker.todo)
    BY <1>0, <1>2, RestFacts
  <2>2. QED BY <1>0, <1>2, <2>1, UpdateEndpointMoves DEF OwnerMoves
<1>3. ASSUME worker.pc \in {"undo", "release"}, epCache[Head(worker.todo)] = worker.link,
             Head(worker.todo) \notin epStale, UpdateEndpoint(Head(worker.todo), Nobody)
      PROVE  \A e \in Endpoints : OwnerMoves(e) /\ EndpointCached(e)'
  <2>1. PICK f \in Endpoints : f = Head(worker.todo)
    BY <1>0, <1>3, RestFacts
  <2>2. owner[f] = worker.link
    BY <1>0, <1>3, <2>1 DEF EndpointCached
  <2>3. QED BY <1>0, <1>3, <2>1, <2>2, UpdateEndpointMoves DEF OwnerMoves
<1>4. ASSUME NEW l \in Links, Claim(l) \/ Release(l)
      PROVE  \A e \in Endpoints : OwnerMoves(e) /\ EndpointCached(e)'
  BY <1>1, <1>2, <1>3, <1>4 DEF Claim, Release
<1>5. ASSUME NEW f \in Endpoints, SyncEndpoint(f)
      PROVE  \A e \in Endpoints : OwnerMoves(e) /\ EndpointCached(e)'
  BY <1>0, <1>5 DEF SyncEndpoint, OwnerMoves, EndpointCached, TypeOK
<1>6. ASSUME NEW f \in Endpoints, CreateEndpoint(f) \/ TouchEndpoint(f) \/ RemoveEndpoint(f)
      PROVE  \A e \in Endpoints : OwnerMoves(e) /\ EndpointCached(e)'
  <2>1. PICK claim : InventoryWrites(f, claim) /\ (\/ claim = owner[f]
                                                   \/ claim = "missing"
                                                   \/ owner[f] = "missing" /\ claim = Nobody)
    BY <1>6 DEF CreateEndpoint, TouchEndpoint, RemoveEndpoint
  <2>2. /\ owner'[f] = claim /\ f \notin worker'.copies
        /\ \A e \in Endpoints : e # f => owner'[e] = owner[e]
        /\ epCache' = epCache /\ epStale' = epStale \cup {f}
    BY <2>1 DEF InventoryWrites, TypeOK, Worker
  <2>3. QED BY <1>0, <2>1, <2>2 DEF OwnerMoves, InventoryMoves, EndpointCached
<1>7. CASE RequestFails
  <2>1. CASE LinkRequestFails(worker.link)
    BY <1>1, <2>1 DEF LinkRequestFails
  <2>2. CASE EndpointRequestFails(worker.link)
    BY <1>1, <1>2, <1>3, <2>2 DEF EndpointRequestFails
  <2>3. QED BY <1>7, <2>1, <2>2 DEF RequestFails
<1>8. CASE Restart
  BY <1>8 DEF Restart, OwnerMoves, EndpointCached
<1>9. CASE \/ \E k \in Links : Start(k) \/ AddFinalizer(k) \/ RemoveFinalizer(k) \/ Report(k)
           \/ \E k \in Links : SyncLink(k) \/ CreateLink(k) \/ DeleteLink(k)
           \/ UNCHANGED vars
  BY <1>1, <1>9 DEF Start, AddFinalizer, RemoveFinalizer, Report, SyncLink, CreateLink,
                    DeleteLink, UserWrites, vars
<1>10. QED BY <1>4, <1>5, <1>6, <1>7, <1>8, <1>9 DEF Next, Reconcile, Informers, Cluster

-----------------------------------------------------------------------------
(* The inductive invariant.                                                *)

\* Where the worker is not about to claim or to report success, its Link
\* only has to exist.
LEMMA WorkerElsewhere ==
    ASSUME worker'.pc \notin {"claim", "ready"},
           worker'.pc # "idle" => links'[worker'.link].phase # "absent"
    PROVE  WorkerInv'
  BY DEF WorkerInv

\* Others write: the reconcile goes on with fewer copies that are up to date.
LEMMA WorkerKeeps ==
    ASSUME TypeOK, LinkInvariant, \A l \in Links : LinkMoves(l),
           worker'.pc = worker.pc, worker'.link = worker.link, worker'.todo = worker.todo,
           worker'.copies \subseteq worker.copies,
           \A e \in Endpoints : owner'[e] = owner[e] \/ InventoryMoves(e)
    PROVE  WorkerInv'
<1>1. PICK l \in Links : l = worker.link
  BY DEF TypeOK, Worker
<1>2. Ends[l][1] \in Endpoints /\ Ends[l][2] \in Endpoints
  BY EndsFacts
<1>3. ASSUME NEW e \in Endpoints, Held(e) PROVE Held(e)'
  BY <1>1, <1>3 DEF Held, InventoryMoves
<1>4. worker'.pc # "idle" => links'[l].phase # "absent"
  BY <1>1 DEF LinkInvariant, WorkerInv, LinkMoves
<1>5. worker'.pc = "claim" =>
        /\ Bound(links'[l])
        /\ worker'.copies \subseteq EndsOf(l)
        /\ \A e \in worker'.copies : owner'[e] \in {l, Nobody}
        /\ worker'.todo # Ends[l] => Held(Ends[l][1])'
  <2>1. CASE worker.pc = "claim"
    <3>1. Bound(links[l]) /\ links[l].phase # "absent" /\ worker.copies \subseteq EndsOf(l)
      BY <1>1, <2>1 DEF LinkInvariant, WorkerInv
    <3>2. \A e \in worker'.copies : e \in Endpoints /\ owner[e] \in {l, Nobody}
      BY <1>1, <1>2, <2>1, <3>1 DEF LinkInvariant, WorkerInv, EndsOf
    <3>3. \A e \in worker'.copies : owner'[e] = owner[e]
      BY <3>2 DEF InventoryMoves
    <3>4. worker'.todo # Ends[l] => Held(Ends[l][1])'
      BY <1>1, <1>2, <1>3, <2>1 DEF LinkInvariant, WorkerInv
    <3>5. QED BY <3>1, <3>2, <3>3, <3>4 DEF LinkMoves
  <2>2. QED BY <2>1
<1>6. worker'.pc = "ready" => \A e \in EndsOf(l) : Held(e)'
  BY <1>1, <1>2, <1>3 DEF LinkInvariant, WorkerInv, EndsOf
<1>7. QED BY <1>1, <1>4, <1>5, <1>6 DEF WorkerInv, EndsOf

\* A reconcile that has found both ends to be free may claim them.
LEMMA GetEndpointsInv ==
    ASSUME LinkInvariant, NEW l \in Links, NEW isFresh \in BOOLEAN,
           GetEndpoints(l, isFresh), owner' = owner,
           links'[l].phase # "absent", Bound(links'[l])
    PROVE  WorkerInv'
<1>0. Idle(l) \in Worker /\ Idle(l).link = l
  BY IdleType DEF Idle
<1>1. CASE (\E e \in EndsOf(l) : epCache[e] = "missing") \/ (\E e \in EndsOf(l) : Claimed(e, l))
  <2>1. worker'.pc = "fail" /\ worker'.link = l
    BY <1>0, <1>1 DEF GetEndpoints, Worker
  <2>2. QED BY <2>1, WorkerElsewhere
<1>2. CASE \A e \in EndsOf(l) : epCache[e] # "missing" /\ ~Claimed(e, l)
  <2>1. /\ worker'.pc = "claim" /\ worker'.link = l /\ worker'.todo = Ends[l]
        /\ worker'.copies = EndsOf(l) \ epStale
    BY <1>0, <1>2 DEF GetEndpoints, Worker
  <2>2. ASSUME NEW e \in worker'.copies PROVE owner'[e] \in {l, Nobody}
    <3>1. e \in Endpoints /\ e \in EndsOf(l) /\ e \notin epStale
      BY <2>1, <2>2, EndsFacts DEF EndsOf
    <3>2. owner[e] = epCache[e]
      BY <3>1 DEF LinkInvariant, LinkCachesInv
    <3>3. QED BY <1>2, <3>1, <3>2 DEF Claimed
  <2>3. QED BY <2>1, <2>2 DEF WorkerInv, EndsOf
<1>3. QED BY <1>1, <1>2

\* A claim that lands: the first end is held, or both are.
LEMMA ClaimInv ==
    ASSUME TypeOK, LinkInvariant, NEW l \in Links, Claim(l)
    PROVE  WorkerInv'
<1>0. /\ worker \in Worker /\ worker.link = l /\ worker.pc = "claim" /\ links' = links
      /\ TodoInv /\ owner \in [Endpoints -> Claims]
  BY DEF Claim, TypeOK, LinkInvariant
<1>1. /\ links[l].phase # "absent" /\ Bound(links[l]) /\ worker.copies \subseteq EndsOf(l)
      /\ \A e \in worker.copies : owner[e] \in {l, Nobody}
      /\ worker.todo # Ends[l] => Held(Ends[l][1])
  BY <1>0 DEF LinkInvariant, WorkerInv
<1>2. PICK e \in Endpoints : e = Head(worker.todo)
  BY <1>0, RestFacts
<1>3. CASE e \notin worker.copies
  <2>1. worker'.pc = "undo" /\ worker'.link = l
    BY <1>0, <1>2, <1>3 DEF Claim, Undo, Worker
  <2>2. QED BY <1>0, <1>1, <2>1, WorkerElsewhere
<1>4. CASE e \in worker.copies
  <2>1. owner' = [owner EXCEPT ![e] = l]
    BY <1>2, <1>4 DEF Claim, UpdateEndpoint
  <2>2. owner'[e] = l /\ \A f \in Endpoints : f # e => owner'[f] = owner[f]
    BY <1>0, <2>1
  <2>3. CASE Tail(worker.todo) = <<>>
    <3>1. worker.todo = Tail(Ends[l]) /\ e = Ends[l][2] /\ Held(Ends[l][1])
      BY <1>0, <1>1, <1>2, <2>3, EndsFacts DEF TodoInv
    <3>2. worker'.pc = "ready" /\ worker'.link = l /\ worker'.copies = worker.copies
      BY <1>0, <1>2, <1>4, <2>3 DEF Claim, Worker
    <3>3. Ends[l][1] \in Endpoints
      BY EndsFacts
    <3>4. Held(Ends[l][1])' /\ Held(Ends[l][2])'
      BY <1>0, <2>2, <3>1, <3>2, <3>3 DEF Held
    <3>5. QED BY <1>0, <1>1, <3>2, <3>4 DEF WorkerInv, EndsOf
  <2>4. CASE Tail(worker.todo) # <<>>
    <3>1. worker.todo = Ends[l] /\ e = Ends[l][1]
      BY <1>0, <1>2, <2>4, EndsFacts DEF TodoInv
    <3>2. /\ worker'.pc = "claim" /\ worker'.link = l /\ worker'.copies = worker.copies
      BY <1>0, <1>2, <1>4, <2>4 DEF Claim, Worker
    <3>3. Held(Ends[l][1])'
      BY <2>2, <3>1, <3>2 DEF Held
    <3>4. \A f \in worker'.copies : f \in Endpoints /\ owner'[f] \in {l, Nobody}
      BY <1>1, <2>2, <3>2, EndsFacts DEF EndsOf
    <3>5. QED BY <1>0, <1>1, <3>2, <3>3, <3>4 DEF WorkerInv, EndsOf
  <2>5. QED BY <2>3, <2>4
<1>5. QED BY <1>3, <1>4

\* A step of a reconcile.
LEMMA ReconcileInv ==
    ASSUME TypeOK, LinkInvariant, \A l \in Links : LinkMoves(l), Reconcile
    PROVE  WorkerInv'
<1>0. /\ worker \in Worker /\ worker.link \in Links
      /\ worker.pc # "idle" => links[worker.link].phase # "absent"
  BY DEF TypeOK, Worker, LinkInvariant, WorkerInv
<1>1. worker.pc # "idle" => links'[worker.link].phase # "absent"
  BY <1>0 DEF LinkMoves
<1>2. ASSUME NEW l \in Links, Start(l) PROVE WorkerInv'
  <2>0. Idle(l) \in Worker /\ Idle(l).link = l /\ Idle(l).pc = "idle" /\ links' = links /\ owner' = owner
    BY <1>2, IdleType DEF Idle, Start, eps
  <2>1. linkCache[l].phase # "absent" => links[l].phase # "absent"
    BY DEF LinkInvariant, LinkCachesInv
  <2>2. CASE linkCache[l].phase \in {"absent", "gone"}
    <3>1. worker'.pc = "idle"
      BY <1>2, <2>0, <2>2 DEF Start
    <3>2. QED BY <3>1, WorkerElsewhere
  <2>3. CASE linkCache[l].phase = "deleting" \/ (linkCache[l].phase = "live" /\ ~linkCache[l].finalizer)
    <3>1. worker'.pc \in {"release", "finalize"} /\ worker'.link = l
      BY <1>2, <2>0, <2>3 DEF Start, Worker
    <3>2. QED BY <2>0, <2>1, <2>3, <3>1, WorkerElsewhere
  <2>4. CASE linkCache[l].phase = "live" /\ linkCache[l].finalizer
    <3>1. PICK isFresh \in BOOLEAN : GetEndpoints(l, isFresh)
      BY <1>2, <2>4 DEF Start
    <3>2. Bound(links[l])
      BY <2>4 DEF LinkInvariant, LinkCachesInv
    <3>3. QED BY <2>0, <2>1, <2>4, <3>1, <3>2, GetEndpointsInv
  <2>5. QED BY <1>2, <2>2, <2>3, <2>4 DEF Start
<1>3. ASSUME NEW l \in Links, AddFinalizer(l) PROVE WorkerInv'
  <2>1. CASE worker.fresh
    <3>1. links' = [links EXCEPT ![l].finalizer = TRUE] /\ GetEndpoints(l, TRUE) /\ owner' = owner
      BY <1>3, <2>1 DEF AddFinalizer, eps
    <3>2. links[l] \in LinkObject /\ links \in [Links -> LinkObject]
      BY DEF TypeOK
    <3>3. Bound(links'[l]) /\ links'[l].phase # "absent"
      BY <1>1, <1>3, <3>1, <3>2 DEF Bound, AddFinalizer, LinkObject
    <3>4. QED BY <3>1, <3>3, GetEndpointsInv
  <2>2. CASE ~worker.fresh
    <3>1. worker'.pc = "fail" /\ worker'.link = worker.link /\ worker.pc = "finalize"
      BY <1>0, <1>3, <2>2 DEF AddFinalizer, Worker
    <3>2. QED BY <1>1, <3>1, WorkerElsewhere
  <2>3. QED BY <2>1, <2>2
<1>4. ASSUME NEW l \in Links, Claim(l) PROVE WorkerInv'
  BY <1>4, ClaimInv
<1>5. ASSUME NEW l \in Links, Release(l) PROVE WorkerInv'
  <2>1. PICK failed \in BOOLEAN : worker' = Released(worker, failed)
    BY <1>5 DEF Release
  <2>2. worker'.pc \in {"undo", "release", "unfinalize", "fail"} /\ worker'.link = worker.link
    BY <1>0, <1>5, <2>1 DEF Release, Released, Worker
  <2>3. QED BY <1>1, <1>5, <2>2, WorkerElsewhere DEF Release
<1>6. ASSUME NEW l \in Links, RemoveFinalizer(l) PROVE WorkerInv'
  <2>1. CASE worker.fresh
    <3>1. worker'.pc = "idle"
      BY <1>6, <2>1 DEF RemoveFinalizer, Return, Idle
    <3>2. QED BY <3>1, WorkerElsewhere
  <2>2. CASE ~worker.fresh
    <3>1. worker'.pc = "fail" /\ worker'.link = worker.link /\ worker.pc = "unfinalize"
      BY <1>0, <1>6, <2>2 DEF RemoveFinalizer, Worker
    <3>2. QED BY <1>1, <3>1, WorkerElsewhere
  <2>3. QED BY <2>1, <2>2
<1>7. ASSUME NEW l \in Links, Report(l) PROVE WorkerInv'
  <2>1. worker'.pc = "idle"
    BY <1>7 DEF Report, UpdateLink, Return, Idle
  <2>2. QED BY <2>1, WorkerElsewhere
<1>8. QED BY <1>2, <1>3, <1>4, <1>5, <1>6, <1>7 DEF Reconcile

\* A request that fails leaves a claim that was under way to be undone.
LEMMA RequestFailsInv ==
    ASSUME TypeOK, LinkInvariant, \A l \in Links : LinkMoves(l), RequestFails
    PROVE  WorkerInv'
<1>0. /\ worker \in Worker /\ worker.link \in Links
      /\ worker.pc # "idle" => links'[worker.link].phase # "absent"
  BY DEF TypeOK, Worker, LinkInvariant, WorkerInv, LinkMoves
<1>1. \/ worker'.pc = "idle"
      \/ /\ worker.pc # "idle" /\ worker'.link = worker.link
         /\ worker'.pc \in {"fail", "undo", "release", "unfinalize"}
  <2>1. CASE LinkRequestFails(worker.link)
    <3>1. CASE worker' = [worker EXCEPT !.pc = "fail", !.fresh = FALSE, !.retry = TRUE]
               /\ worker.pc \in {"finalize", "unfinalize"}
      BY <1>0, <3>1 DEF Worker
    <3>2. CASE worker' = Idle(worker.link)
      BY <3>2 DEF Idle
    <3>3. QED BY <2>1, <3>1, <3>2 DEF LinkRequestFails, UpdateLink, Return
  <2>2. CASE EndpointRequestFails(worker.link)
    <3>1. CASE worker.pc = "claim" /\ worker' = Undo(worker)
      BY <1>0, <3>1 DEF Undo, Worker
    <3>2. CASE worker.pc \in {"undo", "release"} /\ worker' = Released(worker, TRUE)
      BY <1>0, <3>2 DEF Released, Worker
    <3>3. QED BY <2>2, <3>1, <3>2 DEF EndpointRequestFails
  <2>3. QED BY <2>1, <2>2 DEF RequestFails
<1>2. QED BY <1>0, <1>1, WorkerElsewhere

\* Any step keeps what the worker relies on.
LEMMA StepWorkerInv ==
    ASSUME TypeOK, LinkInvariant, [Next]_vars
    PROVE  WorkerInv'
<1>0. (\A l \in Links : LinkMoves(l)) /\ worker \in Worker /\ worker.copies \subseteq Endpoints
  BY StepLinkMoves DEF TypeOK, Worker
<1>1. CASE Reconcile
  BY <1>0, <1>1, ReconcileInv
<1>2. CASE RequestFails
  BY <1>0, <1>2, RequestFailsInv
<1>3. CASE Restart
  <2>1. worker'.pc = "idle"
    BY <1>3 DEF Restart, Idle
  <2>2. QED BY <2>1, WorkerElsewhere
<1>4. CASE worker' = worker /\ owner' = owner
  BY <1>0, <1>4, WorkerKeeps
<1>5. ASSUME NEW k \in Links, CreateLink(k) \/ DeleteLink(k) PROVE WorkerInv'
  <2>1. /\ owner' = owner /\ worker'.pc = worker.pc /\ worker'.link = worker.link
        /\ worker'.todo = worker.todo /\ worker'.copies = worker.copies
    BY <1>0, <1>5 DEF CreateLink, DeleteLink, UserWrites, eps, Worker
  <2>2. QED BY <1>0, <2>1, WorkerKeeps
<1>6. ASSUME NEW f \in Endpoints, CreateEndpoint(f) \/ TouchEndpoint(f) \/ RemoveEndpoint(f)
      PROVE  WorkerInv'
  <2>1. PICK claim : InventoryWrites(f, claim) /\ (\/ claim = owner[f]
                                                   \/ claim = "missing"
                                                   \/ owner[f] = "missing" /\ claim = Nobody)
    BY <1>6 DEF CreateEndpoint, TouchEndpoint, RemoveEndpoint
  <2>2. /\ worker'.pc = worker.pc /\ worker'.link = worker.link
        /\ worker'.todo = worker.todo /\ worker'.copies = worker.copies \ {f}
    BY <1>0, <2>1 DEF InventoryWrites, Worker
  <2>3. owner'[f] = claim /\ \A e \in Endpoints : e # f => owner'[e] = owner[e]
    BY <2>1 DEF InventoryWrites, TypeOK
  <2>4. \A e \in Endpoints : owner'[e] = owner[e] \/ InventoryMoves(e)
    BY <2>1, <2>2, <2>3 DEF InventoryMoves
  <2>5. QED BY <1>0, <2>2, <2>4, WorkerKeeps
<1>7. CASE \/ \E l \in Links : SyncLink(l)
           \/ \E e \in Endpoints : SyncEndpoint(e)
           \/ UNCHANGED vars
  BY <1>4, <1>7 DEF SyncLink, SyncEndpoint, eps, vars
<1>8. QED BY <1>1, <1>2, <1>3, <1>5, <1>6, <1>7 DEF Next, Informers, Cluster

\* However stale the two caches are, the reconciles rely on nothing that
\* others can undo: what is claimed is held until the Link is Ready, and the
\* finalizer outlives every claim.
THEOREM LinkCorrect == Spec => []LinkInvariant
<1>1. Init => LinkInvariant
  <2> SUFFICES ASSUME Init PROVE LinkInvariant
    OBVIOUS
  <2>1. worker.pc = "idle"
    BY Zenon DEF Init, Idle
  <2>2. WorkerInv /\ TodoInv
    BY <2>1 DEF WorkerInv, TodoInv
  <2>3. LinkCachesInv
    BY DEF Init, LinkCachesInv, Absent
  <2>4. \A e \in Endpoints : owner[e] \notin Links
    BY LinkAssumption DEF Init
  <2>5. QED BY <2>2, <2>3, <2>4 DEF LinkInvariant, ClaimNeedsFinalizer
<1>2. TypeOK /\ TodoInv' /\ LinkInvariant /\ [Next]_vars => LinkInvariant'
  <2> SUFFICES ASSUME TypeOK, TodoInv', LinkInvariant, [Next]_vars PROVE LinkInvariant'
    OBVIOUS
  <2>1. /\ \A l \in Links : LinkMoves(l)
        /\ \A e \in Endpoints : OwnerMoves(e) /\ EndpointCached(e)'
    BY StepLinkMoves, StepOwnerMoves
  <2>2. WorkerInv'
    BY StepWorkerInv
  <2>3. LinkCachesInv'
    BY <2>1 DEF LinkInvariant, LinkCachesInv, LinkMoves, EndpointCached, Bound
  <2>4. ClaimNeedsFinalizer'
    <3> SUFFICES ASSUME NEW e \in Endpoints, NEW l \in Links, owner'[e] = l
                 PROVE  Bound(links'[l])
      BY DEF ClaimNeedsFinalizer, Bound
    <3>1. CASE owner[e] = l
      <4>1. Bound(links[l]) /\ links[l].phase # "absent"
        BY <3>1 DEF LinkInvariant, ClaimNeedsFinalizer, LinkCachesInv, Bound
      <4>2. QED BY <2>1, <4>1 DEF LinkMoves
    <3>2. CASE worker.pc = "claim" /\ l = worker.link
      <4>1. Bound(links[l]) /\ links[l].phase # "absent"
        BY <3>2 DEF LinkInvariant, WorkerInv
      <4>2. QED BY <2>1, <4>1 DEF LinkMoves
    <3>3. QED BY <2>1, <3>1, <3>2, LinkAssumption DEF OwnerMoves, InventoryMoves
  <2>5. QED BY <2>2, <2>3, <2>4 DEF LinkInvariant
<1>3. QED BY <1>1, <1>2, LinkTypeCorrect, PTL DEF Spec

\* The types alone.
THEOREM LinkTypes == Spec => []TypeOK
  BY LinkTypeCorrect, PTL

\* A Link with a claimed Endpoint has the finalizer that will release it.
THEOREM ClaimsAreReleased == Spec => []ClaimNeedsFinalizer
<1>1. LinkInvariant => ClaimNeedsFinalizer
  BY DEF LinkInvariant
<1>2. QED BY <1>1, LinkCorrect, PTL

\* An Endpoint passes from one Link to another only by way of a release of
\* the first, whatever the reconcile of the second has read.
THEOREM NoTakeover == Spec => EndpointsChangeHands
<1>1. TypeOK /\ LinkInvariant /\ [Next]_vars =>
        [\A e \in Endpoints :
           owner[e] \in Links /\ owner'[e] # owner[e] =>
             \/ owner'[e] = "missing"
             \/ owner'[e] = Nobody /\ worker.link = owner[e]]_vars
  <2> SUFFICES ASSUME TypeOK, LinkInvariant, [Next]_vars, NEW e \in Endpoints,
                      owner[e] \in Links, owner'[e] # owner[e]
               PROVE  owner'[e] = "missing" \/ (owner'[e] = Nobody /\ worker.link = owner[e])
    OBVIOUS
  <2>1. OwnerMoves(e)
    BY StepOwnerMoves
  <2>2. worker.pc = "claim" /\ e \in worker.copies => owner[e] = worker.link
    BY LinkAssumption DEF LinkInvariant, WorkerInv
  <2>3. QED BY <2>1, <2>2, LinkAssumption DEF OwnerMoves, InventoryMoves
<1>2. QED BY <1>1, LinkTypes, LinkCorrect, PTL DEF Spec, EndpointsChangeHands

\* A Link turns Ready only while both its ends are its own.
THEOREM ReadyOnlyWhenClaimed == Spec => ReadyMeansClaimed
<1>1. TypeOK /\ LinkInvariant /\ [Next]_vars =>
        [\A l \in Links :
           links[l].ready # "Ready" /\ links'[l].ready = "Ready" =>
             \A e \in EndsOf(l) :
                \/ owner[e] \in {l, "missing"}
                \/ owner[e] = Nobody /\ e \notin worker.copies]_vars
  <2> SUFFICES ASSUME TypeOK, LinkInvariant, [Next]_vars, NEW l \in Links,
                      links[l].ready # "Ready", links'[l].ready = "Ready",
                      NEW e \in EndsOf(l)
               PROVE  owner[e] \in {l, "missing"} \/ (owner[e] = Nobody /\ e \notin worker.copies)
    OBVIOUS
  <2>1. l = worker.link /\ worker.pc = "ready"
    BY StepLinkMoves DEF LinkMoves
  <2>2. Held(e)
    BY <2>1 DEF LinkInvariant, WorkerInv
  <2>3. QED BY <2>1, <2>2 DEF Held
<1>2. QED BY <1>1, LinkTypes, LinkCorrect, PTL DEF Spec, ReadyMeansClaimed
=============================================================================
