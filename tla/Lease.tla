------------------------------- MODULE Lease -------------------------------
(***************************************************************************)
(* The coordination Lease that serialises the work on one object           *)
(* (reconcilers/lease): any number of processes, each with a clock and an  *)
(* informer cache of its own, acquire it for a fixed Duration before they  *)
(* act.  Processes with the same holder identity share it.                 *)
(*                                                                         *)
(* `now' is the time of an ideal clock; the clock of process p is ahead of *)
(* it by Skew[p].  As in NetworkPipeline the sets `current' and `fresh'    *)
(* stand for resourceVersions: the caches and the copies that are up to    *)
(* date.  An update made from any other copy is a conflict.                *)
(***************************************************************************)
EXTENDS Naturals

CONSTANTS
    Processes,   \* processes that acquire the lease
    Identity,    \* the holder identity each of them gives
    Skew,        \* how far ahead the clock of each of them is
    MaxSkew,     \* bound on it
    Duration,    \* defaultLeaseInterval
    MaxTime,     \* bound on the time
    NoHolder     \* there is no lease yet

Identities == {Identity[p] : p \in Processes}

ASSUME LeaseAssumption ==
    /\ MaxSkew \in Nat
    /\ Skew \in [Processes -> 0 .. MaxSkew]
    /\ Duration \in Nat
    /\ MaxTime \in Nat
    /\ NoHolder \notin Identities

VARIABLES
    now,      \* ideal time
    lease,    \* the Lease as the API server stores it
    cache,    \* the Lease as each process's cache shows it
    current,  \* processes whose cache shows the stored Lease
    fresh,    \* processes whose copy is the stored Lease
    pc,       \* where each process is in AcquireLease, or after it
    since     \* ideal time at which it last read its clock

vars == <<now, lease, cache, current, fresh, pc, since>>

LeaseObject == [holder : Identities \cup {NoHolder}, renew : Nat]
NoLease     == [holder |-> NoHolder, renew |-> 0]

Clock(p, t) == t + Skew[p]

\* "working": AcquireLease has returned nil and the reconcile goes on.
PCs == {"idle", "create", "check", "update", "working"}

TypeOK ==
    /\ now \in Nat
    /\ lease \in LeaseObject
    /\ cache \in [Processes -> LeaseObject]
    /\ current \in SUBSET Processes
    /\ fresh \in SUBSET Processes
    /\ pc \in [Processes -> PCs]
    /\ since \in [Processes -> Nat]

Init ==
    /\ now = 0
    /\ lease = NoLease
    /\ cache = [p \in Processes |-> NoLease]
    /\ current = Processes
    /\ fresh = {}
    /\ pc = [p \in Processes |-> "idle"]
    /\ since = [p \in Processes |-> 0]

-----------------------------------------------------------------------------
(* AcquireLease.                                                           *)

Become(p, to) == pc' = [pc EXCEPT ![p] = to]

\* The time p read is of no use once AcquireLease or the reconcile is over.
GiveUp(p) == Become(p, "idle") /\ since' = [since EXCEPT ![p] = 0]

\* Variant: the lease names the process.
GetLeaseOfProcess(p) == [holder |-> p, renew |-> Clock(p, since[p])]

\* The lease of p, with the time p read before the request.
GetLease(p) == [holder |-> Identity[p], renew |-> Clock(p, since[p])]

\* The first Get decides whether the lease is created.
Get(p) ==
    /\ pc[p] = "idle"
    /\ \/ /\ cache[p] = NoLease
          /\ Become(p, "create")
          /\ since' = [since EXCEPT ![p] = now]
       \/ /\ cache[p] # NoLease
          /\ Become(p, "check")
          /\ UNCHANGED since
    /\ UNCHANGED <<now, lease, cache, current, fresh>>

\* A create that finds a lease is an error; the caller retries later.
Create(p) ==
    /\ pc[p] = "create"
    /\ \/ /\ lease = NoLease
          /\ lease' = GetLease(p)
          /\ current' = {} /\ fresh' = {}
          /\ Become(p, "check")
          /\ UNCHANGED since
       \/ /\ lease # NoLease
          /\ GiveUp(p)
          /\ UNCHANGED <<lease, current, fresh>>
    /\ UNCHANGED <<now, cache>>

\* Variant: the lease is taken over at the very moment of its expiry.
MayTakeAtExpiry(p) ==
    /\ cache[p] # NoLease
    /\ \/ cache[p].holder = Identity[p]
       \/ cache[p].renew + Duration <= Clock(p, now)

\* Variant: whoever finds a lease takes it.
MayTakeAny(p) == cache[p] # NoLease

\* One's own lease, or one whose renewal lies more than its duration back.
MayTake(p) ==
    /\ cache[p] # NoLease
    /\ \/ cache[p].holder = Identity[p]
       \/ cache[p].renew + Duration < Clock(p, now)

\* The second Get and the check of the holder.
Check(p) ==
    /\ pc[p] = "check"
    /\ \/ /\ MayTake(p)
          /\ Become(p, "update")
          /\ since' = [since EXCEPT ![p] = now]
          /\ fresh' = IF p \in current THEN fresh \cup {p} ELSE fresh
       \/ /\ ~MayTake(p)
          /\ GiveUp(p)
          /\ UNCHANGED fresh
    /\ UNCHANGED <<now, lease, cache, current>>

\* Variant: the stored lease is replaced whatever it has become.
UpdateUnconditionally(p) ==
    /\ pc[p] = "update"
    /\ lease' = GetLease(p)
    /\ current' = {} /\ fresh' = {}
    /\ Become(p, "working")
    /\ UNCHANGED <<now, cache, since>>

\* Take over the lease or renew it.
Update(p) ==
    /\ pc[p] = "update"
    /\ \/ /\ p \in fresh
          /\ lease' = GetLease(p)
          /\ current' = {} /\ fresh' = {}
          /\ Become(p, "working")
          /\ UNCHANGED since
       \/ /\ p \notin fresh
          /\ GiveUp(p)
          /\ UNCHANGED <<lease, current, fresh>>
    /\ UNCHANGED <<now, cache>>

\* Nothing releases the lease when the reconcile is done.
Finish(p) ==
    /\ pc[p] = "working"
    /\ GiveUp(p)
    /\ UNCHANGED <<now, lease, cache, current, fresh>>

-----------------------------------------------------------------------------
(* Time, informers and failures.                                           *)

Tick ==
    /\ now < MaxTime
    /\ now' = now + 1
    /\ UNCHANGED <<lease, cache, current, fresh, pc, since>>

Sync(p) ==
    /\ p \notin current
    /\ cache' = [cache EXCEPT ![p] = lease]
    /\ current' = current \cup {p}
    /\ UNCHANGED <<now, lease, fresh, pc, since>>

\* The request fails, or it lands and its answer is lost: the process gives
\* up in either case.
RequestFails(p) ==
    /\ pc[p] \in {"create", "update"}
    /\ GiveUp(p)
    /\ \/ /\ fresh' = fresh \ {p}
          /\ UNCHANGED <<lease, current>>
       \/ /\ \/ pc[p] = "create" /\ lease = NoLease /\ lease' = GetLease(p)
             \/ pc[p] = "update" /\ p \in fresh /\ lease' = GetLease(p)
          /\ current' = {} /\ fresh' = {}
    /\ UNCHANGED <<now, cache>>

Restart(p) ==
    /\ GiveUp(p)
    /\ cache' = [cache EXCEPT ![p] = lease]
    /\ current' = current \cup {p}
    /\ fresh' = fresh \ {p}
    /\ UNCHANGED <<now, lease>>

Next ==
    \/ \E p \in Processes :
          \/ Get(p)
          \/ Create(p)
          \/ Check(p)
          \/ Update(p)
          \/ Finish(p)
          \/ Sync(p)
          \/ RequestFails(p)
          \/ Restart(p)
    \/ Tick

Spec == Init /\ [][Next]_vars

-----------------------------------------------------------------------------
(* Properties.                                                             *)

\* How long a process that has acquired the lease may rely on it, whatever
\* the clocks of the others show.
Reliable(p) == pc[p] = "working" /\ now + MaxSkew <= since[p] + Duration

\* Processes of different identities never rely on the lease at the same
\* time, in spite of stale caches, skewed clocks, lost answers and restarts.
LeaseExclusive ==
    \A p, q \in Processes :
        Reliable(p) /\ Reliable(q) => Identity[p] = Identity[q]

\* The lease is not taken from an identity while one of its processes relies
\* on it ("lease is held by another").
NoEarlyTakeover ==
    [][\A p \in Processes : Reliable(p) => lease'.holder = Identity[p]]_vars

\* Why: the stored lease names the identity of who relies on it and is not
\* older than its acquisition, and a copy that can still be written is newer
\* than every acquisition.
LeaseInvariant ==
    /\ \A p \in current : cache[p] = lease
    /\ \A p \in Processes : since[p] <= now
    /\ \A p \in Processes :
          Reliable(p) => lease.holder = Identity[p] /\ lease.renew >= since[p]
    /\ \A q \in fresh :
          /\ pc[q] = "update"
          /\ \/ lease.holder = Identity[q]
             \/ lease.renew + Duration < Clock(q, since[q])
          /\ \A p \in Processes : pc[p] = "working" => since[p] <= since[q]

=============================================================================
