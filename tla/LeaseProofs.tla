---------------------------- MODULE LeaseProofs ----------------------------
(***************************************************************************)
(* Theorems about Lease, for any number of processes, any skew of their    *)
(* clocks within MaxSkew and any Duration.                                 *)
(***************************************************************************)
EXTENDS Lease, TLAPS

USE LeaseAssumption

\* The clocks and the objects that the steps store are typed.
LEMMA GetLeaseType ==
    ASSUME TypeOK, NEW p \in Processes
    PROVE  /\ GetLease(p) \in LeaseObject
           /\ GetLease(p).holder = Identity[p] /\ GetLease(p).holder # NoHolder
           /\ GetLease(p).renew >= since[p]
           /\ GetLease(p).renew <= since[p] + MaxSkew
<1>1. Skew[p] \in Nat /\ Skew[p] <= MaxSkew
  OBVIOUS
<1>2. since[p] + Skew[p] \in Nat
  BY <1>1 DEF TypeOK
<1>3. Identity[p] \in Identities
  BY DEF Identities
<1>4. QED BY <1>1, <1>2, <1>3 DEF GetLease, LeaseObject, Clock, TypeOK

\* Every variable keeps its type.
THEOREM LeaseTypeCorrect == Spec => []TypeOK
<1>1. Init => TypeOK
  BY DEF Init, TypeOK, NoLease, LeaseObject, PCs
<1>2. TypeOK /\ [Next]_vars => TypeOK'
  <2> SUFFICES ASSUME TypeOK, [Next]_vars PROVE TypeOK'
    OBVIOUS
  <2> USE DEF TypeOK, Become, GiveUp, PCs
  <2>1. ASSUME NEW p \in Processes, Get(p) PROVE TypeOK'
    BY <2>1 DEF Get
  <2>2. ASSUME NEW p \in Processes, Create(p) PROVE TypeOK'
    BY <2>2, GetLeaseType DEF Create
  <2>3. ASSUME NEW p \in Processes, Check(p) PROVE TypeOK'
    BY <2>3 DEF Check
  <2>4. ASSUME NEW p \in Processes, Update(p) PROVE TypeOK'
    BY <2>4, GetLeaseType DEF Update
  <2>5. ASSUME NEW p \in Processes, Finish(p) PROVE TypeOK'
    BY <2>5 DEF Finish
  <2>6. ASSUME NEW p \in Processes, Sync(p) PROVE TypeOK'
    BY <2>6 DEF Sync
  <2>7. ASSUME NEW p \in Processes, RequestFails(p) PROVE TypeOK'
    BY <2>7, GetLeaseType DEF RequestFails
  <2>8. ASSUME NEW p \in Processes, Restart(p) PROVE TypeOK'
    BY <2>8 DEF Restart
  <2>9. CASE Tick
    BY <2>9 DEF Tick
  <2>10. CASE UNCHANGED vars
    BY <2>10 DEF vars
  <2>11. QED
    BY <2>1, <2>2, <2>3, <2>4, <2>5, <2>6, <2>7, <2>8, <2>9, <2>10 DEF Next
<1>3. QED BY <1>1, <1>2, PTL DEF Spec

\* No update that lands shortens what a process of another identity relies
\* on, and one of the same identity only extends it.
LEMMA TakeoverStep ==
    ASSUME TypeOK, LeaseInvariant, NEW q \in fresh,
           NEW p \in Processes, Reliable(p)
    PROVE  Identity[p] = Identity[q] /\ since[p] <= since[q]
<1>1. q \in Processes /\ Skew[q] \in Nat /\ Skew[q] <= MaxSkew
  BY DEF TypeOK
<1>2. lease.holder = Identity[p] /\ lease.renew >= since[p] /\ since[q] <= now
  BY <1>1 DEF LeaseInvariant
<1>3. lease.renew \in Nat /\ since[p] \in Nat /\ since[q] \in Nat /\ now \in Nat
  BY <1>1 DEF TypeOK, LeaseObject
<1>4. ~ (lease.renew + Duration < Clock(q, since[q]))
  BY <1>1, <1>2, <1>3 DEF Reliable, Clock
<1>5. QED BY <1>1, <1>2, <1>4 DEF LeaseInvariant, Reliable

\* A step that stores the lease of q after a check.
LEMMA StoreStep ==
    ASSUME TypeOK, LeaseInvariant, NEW q \in fresh,
           lease' = GetLease(q), current' = {}, fresh' = {},
           UNCHANGED <<now, cache>>,
           \/ since' = since /\ pc' = [pc EXCEPT ![q] = "working"]
           \/ since' = [since EXCEPT ![q] = 0] /\ pc' = [pc EXCEPT ![q] = "idle"]
    PROVE  LeaseInvariant'
<1>1. q \in Processes
  BY DEF TypeOK
<1>2. \A p \in Processes : since'[p] <= now' /\ since'[p] \in Nat
  BY DEF LeaseInvariant, TypeOK
<1>3. ASSUME NEW p \in Processes, Reliable(p)'
      PROVE  lease'.holder = Identity[p] /\ lease'.renew >= since'[p]
  <2>1. CASE p = q
    <3>1. since'[q] = since[q]
      BY <1>1, <1>3, <2>1 DEF Reliable, TypeOK
    <3>2. QED BY <1>1, <2>1, <3>1, GetLeaseType
  <2>2. CASE p # q
    <3>1. Reliable(p) /\ since'[p] = since[p]
      BY <1>3, <2>2 DEF Reliable, TypeOK
    <3>2. Identity[p] = Identity[q] /\ since[p] <= since[q]
      BY <3>1, TakeoverStep
    <3>3. GetLease(q).holder = Identity[q] /\ GetLease(q).renew >= since[q]
          /\ GetLease(q).renew \in Nat
      BY <1>1, GetLeaseType DEF LeaseObject
    <3>4. QED BY <1>1, <3>1, <3>2, <3>3 DEF TypeOK
  <2>3. QED BY <2>1, <2>2
<1>4. QED BY <1>2, <1>3 DEF LeaseInvariant

\* A step that leaves the lease, the copies and the times of the others alone.
LEMMA LocalStep ==
    ASSUME TypeOK, LeaseInvariant, NEW p \in Processes,
           UNCHANGED lease, now' \in Nat, now' >= now,
           fresh' \subseteq fresh,
           \A q \in current' : cache'[q] = lease,
           \A q \in Processes \ {p} : pc'[q] = pc[q] /\ since'[q] = since[q],
           \/ pc'[p] = pc[p] /\ since'[p] = since[p]
           \/ /\ p \notin fresh' /\ pc'[p] # "working"
              /\ since'[p] \in {since[p], 0, now}
    PROVE  LeaseInvariant'
<1>1. \A q \in Processes : since'[q] <= now'
  BY DEF LeaseInvariant, TypeOK
<1>2. \A q \in Processes : Reliable(q)' => Reliable(q) /\ since'[q] = since[q]
  BY DEF Reliable, TypeOK
<1>3. \A q \in fresh' : q \in fresh /\ pc'[q] = pc[q] /\ since'[q] = since[q]
  BY DEF TypeOK
<1>4. \A q \in Processes : pc'[q] = "working" => pc[q] = "working" /\ since'[q] = since[q]
  OBVIOUS
<1>5. QED BY <1>1, <1>2, <1>3, <1>4 DEF LeaseInvariant, Clock

\* The lease names who relies on it, and no copy that is still up to date
\* predates an acquisition.
THEOREM LeaseCorrect == Spec => []LeaseInvariant
<1>1. Init => LeaseInvariant
  BY DEF Init, LeaseInvariant, Reliable
<1>2. TypeOK /\ LeaseInvariant /\ [Next]_vars => LeaseInvariant'
  <2> SUFFICES ASSUME TypeOK, LeaseInvariant, [Next]_vars PROVE LeaseInvariant'
    OBVIOUS
  <2>0. \A q \in current : cache[q] = lease
    BY DEF LeaseInvariant
  <2>1. ASSUME NEW p \in Processes, Get(p) PROVE LeaseInvariant'
    <3>1. p \notin fresh
      BY <2>1 DEF Get, LeaseInvariant
    <3>2. /\ UNCHANGED <<now, lease, cache, current, fresh>>
          /\ \A q \in Processes \ {p} : pc'[q] = pc[q] /\ since'[q] = since[q]
          /\ pc'[p] # "working" /\ since'[p] \in {since[p], now}
      BY <2>1 DEF Get, Become, TypeOK
    <3>3. QED BY <2>0, <3>1, <3>2, LocalStep DEF TypeOK
  <2>2. ASSUME NEW p \in Processes, Create(p) PROVE LeaseInvariant'
    <3>1. CASE lease = NoLease /\ lease' = GetLease(p)
      <4>1. /\ UNCHANGED <<now, cache, since>> /\ current' = {} /\ fresh' = {}
            /\ pc' = [pc EXCEPT ![p] = "check"]
        BY <2>2, <3>1, GetLeaseType DEF Create, Become, NoLease
      <4>2. \A q \in Processes : ~Reliable(q)
        BY <3>1 DEF LeaseInvariant, NoLease, Identities
      <4>3. \A q \in Processes : ~Reliable(q)'
        BY <4>1, <4>2 DEF Reliable, TypeOK
      <4>4. QED BY <4>1, <4>3 DEF LeaseInvariant
    <3>2. CASE lease # NoLease
      <4>1. p \notin fresh
        BY <2>2 DEF Create, LeaseInvariant
      <4>2. QED BY <2>0, <2>2, <3>2, <4>1, LocalStep DEF Create, GiveUp, Become, TypeOK
    <3>3. QED BY <2>2, <3>1, <3>2 DEF Create
  <2>3. ASSUME NEW p \in Processes, Check(p) PROVE LeaseInvariant'
    <3>1. p \notin fresh
      BY <2>3 DEF Check, LeaseInvariant
    <3>2. CASE ~MayTake(p)
      BY <2>0, <2>3, <3>1, <3>2, LocalStep DEF Check, GiveUp, Become, TypeOK
    <3>3. CASE MayTake(p)
      <4>1. /\ UNCHANGED <<now, lease, cache, current>>
            /\ pc' = [pc EXCEPT ![p] = "update"]
            /\ since' = [since EXCEPT ![p] = now]
            /\ fresh' = IF p \in current THEN fresh \cup {p} ELSE fresh
        BY <2>3, <3>3 DEF Check, Become
      <4>2. \A q \in Processes : since'[q] <= now'
        BY <4>1 DEF LeaseInvariant, TypeOK
      <4>3. \A q \in Processes : Reliable(q)' => Reliable(q) /\ since'[q] = since[q]
        BY <4>1 DEF Reliable, TypeOK
      <4>4. ASSUME NEW q \in fresh'
            PROVE  /\ pc'[q] = "update"
                   /\ \/ lease'.holder = Identity[q]
                      \/ lease'.renew + Duration < Clock(q, since'[q])
                   /\ \A r \in Processes : pc'[r] = "working" => since'[r] <= since'[q]
        <5>1. CASE q = p
          <6>1. p \in current
            BY <3>1, <4>1, <4>4, <5>1
          <6>2. cache[p] = lease
            BY <2>0, <6>1
          <6>3. QED BY <3>3, <4>1, <4>2, <5>1, <6>2 DEF MayTake, TypeOK
        <5>2. CASE q # p
          <6>1. q \in fresh /\ pc'[q] = pc[q] /\ since'[q] = since[q]
            BY <4>1, <4>4, <5>2 DEF TypeOK
          <6>2. \A r \in Processes : pc'[r] = "working" => pc[r] = "working" /\ since'[r] = since[r]
            BY <4>1 DEF TypeOK
          <6>3. QED BY <4>1, <6>1, <6>2 DEF LeaseInvariant
        <5>3. QED BY <5>1, <5>2
      <4>5. QED BY <2>0, <4>1, <4>2, <4>3, <4>4 DEF LeaseInvariant
    <3>4. QED BY <3>2, <3>3
  <2>4. ASSUME NEW p \in Processes, Update(p) PROVE LeaseInvariant'
    <3>1. CASE p \in fresh
      BY <2>4, <3>1, StoreStep DEF Update, Become
    <3>2. CASE p \notin fresh
      BY <2>0, <2>4, <3>2, LocalStep DEF Update, GiveUp, Become, TypeOK
    <3>3. QED BY <3>1, <3>2
  <2>5. ASSUME NEW p \in Processes, Finish(p) PROVE LeaseInvariant'
    <3>1. p \notin fresh
      BY <2>5 DEF Finish, LeaseInvariant
    <3>2. QED BY <2>0, <2>5, <3>1, LocalStep DEF Finish, GiveUp, Become, TypeOK
  <2>6. ASSUME NEW p \in Processes, Sync(p) PROVE LeaseInvariant'
    <3>1. \A q \in current' : cache'[q] = lease
      BY <2>0, <2>6 DEF Sync, TypeOK
    <3>2. QED BY <2>6, <3>1, LocalStep DEF Sync, TypeOK
  <2>7. ASSUME NEW p \in Processes, RequestFails(p) PROVE LeaseInvariant'
    <3>1. CASE fresh' = fresh \ {p} /\ UNCHANGED <<lease, current>>
      BY <2>0, <2>7, <3>1, LocalStep DEF RequestFails, GiveUp, Become, TypeOK
    <3>2. CASE pc[p] = "create" /\ lease = NoLease /\ lease' = GetLease(p)
               /\ current' = {} /\ fresh' = {}
      <4>1. \A q \in Processes : ~Reliable(q)
        BY <3>2 DEF LeaseInvariant, NoLease, Identities
      <4>2. \A q \in Processes : ~Reliable(q)' /\ since'[q] <= now'
        BY <2>7, <4>1 DEF RequestFails, GiveUp, Become, Reliable, TypeOK, LeaseInvariant
      <4>3. QED BY <3>2, <4>2 DEF LeaseInvariant
    <3>3. CASE pc[p] = "update" /\ p \in fresh /\ lease' = GetLease(p)
               /\ current' = {} /\ fresh' = {}
      BY <2>7, <3>3, StoreStep DEF RequestFails, GiveUp, Become
    <3>4. QED BY <2>7, <3>1, <3>2, <3>3 DEF RequestFails
  <2>8. ASSUME NEW p \in Processes, Restart(p) PROVE LeaseInvariant'
    <3>1. \A q \in current' : cache'[q] = lease
      BY <2>0, <2>8 DEF Restart, TypeOK
    <3>2. QED BY <2>8, <3>1, LocalStep DEF Restart, GiveUp, Become, TypeOK
  <2>9. CASE Tick
    <3>1. CASE Processes = {}
      BY <2>9, <3>1 DEF Tick, LeaseInvariant, TypeOK
    <3>2. CASE Processes # {}
      <4>1. PICK p \in Processes : TRUE
        BY <3>2
      <4>2. QED BY <2>0, <2>9, <4>1, LocalStep DEF Tick, TypeOK
    <3>3. QED BY <3>1, <3>2
  <2>10. CASE UNCHANGED vars
    BY <2>10 DEF vars, LeaseInvariant, Reliable, Clock
  <2>11. QED
    BY <2>1, <2>2, <2>3, <2>4, <2>5, <2>6, <2>7, <2>8, <2>9, <2>10 DEF Next
<1>3. QED BY <1>1, <1>2, LeaseTypeCorrect, PTL DEF Spec

\* Whoever relies on the lease does so under the identity it names.
THEOREM LeaseIsExclusive == Spec => []LeaseExclusive
<1>1. LeaseInvariant => LeaseExclusive
  BY DEF LeaseInvariant, LeaseExclusive
<1>2. QED BY <1>1, LeaseCorrect, PTL

\* The lease stays with an identity that relies on it.
THEOREM TakeoverOnlyAfterExpiry == Spec => NoEarlyTakeover
<1> DEFINE Kept == \A p \in Processes : Reliable(p) => lease'.holder = Identity[p]
<1>1. TypeOK /\ LeaseInvariant /\ [Next]_vars => [Kept]_vars
  <2> SUFFICES ASSUME TypeOK, LeaseInvariant, [Next]_vars,
                      NEW p \in Processes, Reliable(p)
               PROVE  lease'.holder = Identity[p]
    OBVIOUS
  <2>1. lease.holder = Identity[p] /\ lease # NoLease
    BY DEF LeaseInvariant, NoLease, Identities
  <2>2. CASE lease' = lease
    BY <2>1, <2>2
  <2>3. CASE \E q \in fresh : lease' = GetLease(q)
    <3>1. PICK q \in fresh : lease' = GetLease(q)
      BY <2>3
    <3>2. QED BY <3>1, TakeoverStep, GetLeaseType DEF TypeOK
  <2>4. \/ lease' = lease
        \/ \E q \in fresh : lease' = GetLease(q)
    BY <2>1 DEF Next, vars, Get, Create, Check, Update, Finish, Sync,
                RequestFails, Restart, Tick
  <2>5. QED BY <2>2, <2>3, <2>4
<1>2. QED BY <1>1, LeaseTypeCorrect, LeaseCorrect, PTL DEF Spec, NoEarlyTakeover

=============================================================================
