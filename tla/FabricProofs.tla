---------------------------- MODULE FabricProofs ----------------------------
(***************************************************************************)
(* Theorems about Fabric, for any series of topologies and designs.        *)
(***************************************************************************)
EXTENDS Fabric, TLAPS

-----------------------------------------------------------------------------
(* Types.                                                                  *)

FabricObject ==
    [phase : {"absent", "live", "deleting", "gone"}, spec : Nat, fin : BOOLEAN, cond : Conditions]

Verdicts == [cond : Conditions \cup {"Conflict"}, again : BOOLEAN]

FabricPCs ==
    {"idle", "finalize", "gate", "index", "apply", "undo", "delete", "unfinalize", "report"}

\* What the specs of o ask for, all of them together.
Asked(o) == UNION {Wanted(o, s) : s \in 1 .. Len(Specs(o))}
Things == Asked("topology") \cup Asked("design")

Shapes ==
    /\ object \in [Owners -> FabricObject] /\ cache \in [Owners -> FabricObject]
    /\ copy \in [Owners -> FabricObject]
    /\ pc \in [Owners -> FabricPCs] /\ verdict \in [Owners -> Verdicts]
    /\ owned \in [Owners -> SUBSET Things]

\* All that is to be shown of one owner.
Local(o) ==
    /\ object[o].spec \in 1 .. Len(Specs(o)) /\ cache[o].spec \in 1 .. Len(Specs(o))
    /\ copy[o].spec \in 1 .. Len(Specs(o))
    /\ owned[o] \subseteq Asked(o)
    /\ object[o].phase = "deleting" => object[o].fin
    /\ pc[o] = "idle" <=> copy[o].phase = "absent"
    /\ IsFresh(o) => copy[o] = object[o]
    /\ <<"cache", o>> \in fresh => cache[o] = object[o]
    /\ CopiesInv(o) /\ AppliesInv(o)

Rest == queue \subseteq Owners /\ events \in 0 .. MaxEvents

\* It is the same as the invariants.
LEMMA LocalParts ==
    Shapes => ((\A o \in Owners : Local(o)) /\ Rest <=>
               /\ FabricInvariant
               /\ \A o \in Owners : /\ cache[o].spec \in 1 .. Len(Specs(o))
                                    /\ copy[o].spec \in 1 .. Len(Specs(o)))
<1> SUFFICES ASSUME Shapes
             PROVE  (\A o \in Owners : Local(o)) /\ Rest <=>
                      /\ FabricInvariant
                      /\ \A o \in Owners : /\ cache[o].spec \in 1 .. Len(Specs(o))
                                           /\ copy[o].spec \in 1 .. Len(Specs(o))
  OBVIOUS
<1>1. \A o \in Owners : object[o] \in FabricObject
  BY DEF Shapes
<1>2. \A o \in Owners :
         object[o].spec \in 1 .. Len(Specs(o)) <=>
           object[o] \in [phase : {"absent", "live", "deleting", "gone"},
                          spec : 1 .. Len(Specs(o)), fin : BOOLEAN, cond : Conditions]
  BY <1>1 DEF FabricObject
<1>3. (\A o \in Owners : CopiesInv(o)) => OwnersHoldFinalizer
  BY DEF CopiesInv, OwnersHoldFinalizer, Kept
<1>4. QED BY <1>2, <1>3 DEF Local, Rest, FabricTypeOK, FabricInvariant, Asked

\* What a spec asks for is of the kinds its owner is responsible for.
LEMMA WantedKinds ==
    ASSUME NEW o \in Owners, NEW s
    PROVE  OfKinds(Wanted(o, s), Kinds(o)) = Wanted(o, s)
<1>1. CASE o = "topology"
  <2>1. \A x \in GetLabNodes(TopologySpecs[s]) : x[1] = "Node"
    BY DEF GetLabNodes
  <2>2. \A x \in GetLabLinks(TopologySpecs[s]) : x[1] = "Link"
    BY DEF GetLabLinks
  <2>3. QED BY <1>1, <2>1, <2>2 DEF Wanted, Kinds, OfKinds, GetGENIDIndex
<1>2. CASE o = "design"
  <2>1. \A x \in DesignClaims(DesignSpecs[s]) : x[1] \in {"IPClaim", "ASClaim"}
    BY DEF DesignClaims
  <2>2. QED BY <1>2, <2>1 DEF Wanted, Kinds, OfKinds, GetASIndex
<1>3. QED BY <1>1, <1>2 DEF Owners

\* An apply makes only what its spec asks for, and spares all of that.
LEMMA ApplyFacts ==
    ASSUME NEW o \in Owners, copy[o].spec \in 1 .. Len(Specs(o))
    PROVE  /\ New(o) \subseteq Wanted(o, copy[o].spec) /\ New(o) \subseteq Asked(o)
           /\ Obsolete(o) \cap Wanted(o, copy[o].spec) = {}
           /\ o = "topology" => New(o) = Wanted(o, copy[o].spec)
           /\ o = "design" /\ pc[o] = "index" => GetASIndex \in New(o)
           /\ o = "design" /\ pc[o] # "index" =>
                 Wanted(o, copy[o].spec) \subseteq New(o) \cup {GetASIndex}
<1>1. New(o) \subseteq Wanted(o, copy[o].spec)
  BY DEF New, OfKinds
<1>2. New(o) \subseteq Asked(o)
  BY <1>1 DEF Asked
<1>3. Obsolete(o) \cap Wanted(o, copy[o].spec) = {}
  BY DEF Obsolete, New, OfKinds
<1>4. o = "topology" => New(o) = Wanted(o, copy[o].spec)
  BY WantedKinds DEF New, Part
<1>5. o = "design" /\ pc[o] = "index" => GetASIndex \in New(o)
  BY DEF New, Part, OfKinds, Wanted, GetASIndex
<1>6. o = "design" /\ pc[o] # "index" => Wanted(o, copy[o].spec) \subseteq New(o) \cup {GetASIndex}
  BY DEF New, Part, OfKinds, Wanted, DesignClaims
<1>7. QED BY <1>1, <1>2, <1>3, <1>4, <1>5, <1>6

-----------------------------------------------------------------------------
(* One lemma per step.                                                     *)

\* A step that is none of d's.
Elsewhere(d) ==
    /\ object'[d] = object[d] /\ cache'[d] = cache[d] /\ owned'[d] = owned[d]
    /\ pc'[d] = pc[d] /\ copy'[d] = copy[d] /\ verdict'[d] = verdict[d]
    /\ IsFresh(d)' => IsFresh(d)
    /\ <<"cache", d>> \in fresh' => <<"cache", d>> \in fresh

AllLocal == Shapes /\ \A o \in Owners : Local(o)

LEMMA ElsewhereStep ==
    ASSUME NEW d \in Owners, Local(d), Elsewhere(d)
    PROVE  Local(d)'
<1>1. CopiesInv(d)'
  BY DEF Local, CopiesInv, Elsewhere, Kept
<1>2. AppliesInv(d)'
  BY DEF Local, AppliesInv, Elsewhere
<1>3. QED BY <1>1, <1>2 DEF Local, Elsewhere

\* A step of o that keeps what is to be shown of it.
LEMMA OwnerStep ==
    ASSUME AllLocal, NEW o \in Owners, Shapes', Local(o)',
           \A d \in Owners \ {o} : Elsewhere(d)
    PROVE  AllLocal'
<1>1. \A d \in Owners \ {o} : Local(d)'
  BY ElsewhereStep DEF AllLocal
<1>2. QED BY <1>1 DEF AllLocal

\* Absent objects and empty verdicts are typed.
LEMMA NothingTypes ==
    /\ Absent \in FabricObject /\ NoVerdict \in Verdicts
    /\ \A o \in Owners : Absent.spec \in 1 .. Len(Specs(o))
  BY FabricAssumption DEF Absent, FabricObject, NoVerdict, Verdicts, Conditions, Specs

LEMMA TakeStep ==
    ASSUME AllLocal, NEW o \in Owners, Take(o)
    PROVE  AllLocal'
<1>0. Shapes /\ Local(o) /\ pc[o] = "idle"
  BY DEF AllLocal, Take
<1>1. CASE cache[o].phase \in {"absent", "gone"}
  <2>1. /\ pc' = [pc EXCEPT ![o] = "idle"] /\ copy' = [copy EXCEPT ![o] = Absent]
        /\ verdict' = [verdict EXCEPT ![o] = NoVerdict]
        /\ UNCHANGED <<object, cache, owned, fresh>>
    BY <1>1 DEF Take, Return
  <2>2. Shapes'
    BY <1>0, <2>1, NothingTypes DEF Shapes, FabricPCs
  <2>3. \A d \in Owners \ {o} : Elsewhere(d)
    BY <1>0, <2>1 DEF Elsewhere, Shapes, IsFresh
  <2>4. /\ pc'[o] = "idle" /\ copy'[o] = Absent /\ verdict'[o] = NoVerdict
        /\ ~IsFresh(o)
    BY <1>0, <2>1 DEF Shapes, Local, CopiesInv
  <2>5. Local(o)'
    BY <1>0, <2>1, <2>4, NothingTypes
    DEF Local, CopiesInv, AppliesInv, IsFresh, Kept, Absent, NoVerdict
  <2>6. QED BY <2>2, <2>3, <2>5, OwnerStep
<1>2. CASE cache[o].phase \notin {"absent", "gone"}
  <2>0. PICK to \in {"delete", "gate", "finalize"} :
           /\ pc' = [pc EXCEPT ![o] = to]
           /\ to = "delete" <=> cache[o].phase = "deleting"
           /\ to = "gate" => cache[o].fin
    BY <1>2 DEF Take
  <2>1. /\ copy' = [copy EXCEPT ![o] = cache[o]]
        /\ UNCHANGED <<object, cache, owned, verdict>>
        /\ fresh' = IF <<"cache", o>> \in fresh THEN fresh \cup {<<"copy", o>>} ELSE fresh
    BY <1>2 DEF Take
  <2>2. cache[o] \in FabricObject /\ object[o] \in FabricObject
    BY <1>0 DEF Shapes
  <2>3. Shapes'
    BY <1>0, <2>0, <2>1, <2>2 DEF Shapes, FabricPCs
  <2>4. \A d \in Owners \ {o} : Elsewhere(d)
    BY <1>0, <2>0, <2>1 DEF Elsewhere, Shapes, IsFresh
  <2>5. /\ pc'[o] = to /\ copy'[o] = cache[o] /\ object'[o] = object[o] /\ cache'[o] = cache[o]
        /\ owned'[o] = owned[o] /\ verdict'[o] = verdict[o]
        /\ IsFresh(o)' => <<"cache", o>> \in fresh
        /\ <<"cache", o>> \in fresh' => <<"cache", o>> \in fresh
    BY <1>0, <2>0, <2>1 DEF Shapes, IsFresh, Local, CopiesInv
  <2>6. Local(o)'
    BY <1>0, <1>2, <2>0, <2>2, <2>5
    DEF Local, CopiesInv, AppliesInv, Kept, FabricObject
  <2>7. QED BY <2>3, <2>4, <2>6, OwnerStep
<1>3. QED BY <1>1, <1>2

\* The reconcile goes on: what it may leave behind, and where it may go.
LEMMA WorkStep ==
    ASSUME AllLocal, NEW o \in Owners, NEW to \in FabricPCs, NEW v \in Verdicts, NEW S,
           UNCHANGED <<object, cache, fresh, copy>>,
           pc' = [pc EXCEPT ![o] = to], verdict' = [verdict EXCEPT ![o] = v],
           owned' = [owned EXCEPT ![o] = S],
           pc[o] # "idle", to \notin {"idle", "finalize"},
           S \subseteq Asked(o), S # {} => owned[o] # {} \/ copy[o].fin,
           to \in {"delete", "unfinalize"} => copy[o].phase = "deleting",
           to \in {"gate", "index", "apply", "undo"} => copy[o].phase = "live" /\ copy[o].fin,
           v.cond = "Conflict" => to = "report" /\ ~IsFresh(o),
           IsFresh(o) /\ o = "design" /\ to = "apply" => GetASIndex \in S,
           IsFresh(o) /\ to = "report" /\ v.cond = "Ready" => Wanted(o, object[o].spec) \subseteq S,
           to = "undo" => o = "design" /\ v.cond = "RequestError"
    PROVE  AllLocal'
<1>0. Shapes /\ Local(o)
  BY DEF AllLocal
<1>1. Shapes'
  <2>1. S \subseteq Things
    BY DEF Owners, Things
  <2>2. QED BY <1>0, <2>1 DEF Shapes
<1>2. \A d \in Owners \ {o} : Elsewhere(d)
  BY <1>0 DEF Elsewhere, Shapes, IsFresh
<1>3. pc'[o] = to /\ verdict'[o] = v /\ owned'[o] = S /\ IsFresh(o)' = IsFresh(o)
  BY <1>0 DEF Shapes, IsFresh
<1>4. CopiesInv(o)'
  BY <1>0, <1>3 DEF Local, CopiesInv, Kept
<1>5. AppliesInv(o)'
  BY <1>3 DEF AppliesInv
<1>6. Local(o)'
  BY <1>0, <1>3, <1>4, <1>5 DEF Local, CopiesInv
<1>7. QED BY <1>1, <1>2, <1>6, OwnerStep

\* The object of o is written, or its copy is given up; the reconcile of o
\* goes on with an old copy or is over.
LEMMA StoreStep ==
    ASSUME AllLocal, NEW o \in Owners, NEW new \in FabricObject,
           object' = [object EXCEPT ![o] = new], UNCHANGED <<cache, owned>>,
           \A x \in fresh' : x \in fresh /\ x # <<"copy", o>>,
           <<"cache", o>> \in fresh' => new = object[o],
           \/ UNCHANGED <<pc, copy, verdict>>
           \/ /\ pc' = [pc EXCEPT ![o] = "idle"] /\ copy' = [copy EXCEPT ![o] = Absent]
              /\ verdict' = [verdict EXCEPT ![o] = NoVerdict],
           new.spec \in 1 .. Len(Specs(o)),
           new.phase = "deleting" => new.fin,
           new.phase = "absent" => ~new.fin,
           Kept(o) => new.fin \/ new.phase = "gone"
    PROVE  AllLocal'
<1>0. Shapes /\ Local(o)
  BY DEF AllLocal
<1>1. Shapes'
  BY <1>0, NothingTypes DEF Shapes, FabricPCs
<1>2. \A d \in Owners \ {o} : Elsewhere(d)
  BY <1>0 DEF Elsewhere, Shapes, IsFresh
<1>3. /\ object'[o] = new /\ ~IsFresh(o)'
      /\ <<"cache", o>> \in fresh' => <<"cache", o>> \in fresh
  BY <1>0 DEF Shapes, IsFresh
<1>4. CASE UNCHANGED <<pc, copy, verdict>>
  <2>1. CopiesInv(o)' /\ AppliesInv(o)'
    BY <1>0, <1>3, <1>4 DEF Local, CopiesInv, AppliesInv, Kept
  <2>2. Local(o)'
    BY <1>0, <1>3, <1>4, <2>1 DEF Local
  <2>3. QED BY <1>1, <1>2, <2>2, OwnerStep
<1>5. CASE /\ pc' = [pc EXCEPT ![o] = "idle"] /\ copy' = [copy EXCEPT ![o] = Absent]
           /\ verdict' = [verdict EXCEPT ![o] = NoVerdict]
  <2>1. pc'[o] = "idle" /\ copy'[o] = Absent /\ verdict'[o] = NoVerdict
    BY <1>0, <1>5 DEF Shapes
  <2>2. CopiesInv(o)' /\ AppliesInv(o)'
    BY <1>0, <1>3, <2>1 DEF Local, CopiesInv, AppliesInv, Kept, Absent, NoVerdict
  <2>3. Local(o)'
    BY <1>0, <1>3, <2>1, <2>2, NothingTypes DEF Local, Absent
  <2>4. QED BY <1>1, <1>2, <2>3, OwnerStep
<1>6. QED BY <1>4, <1>5

\* On to a status update, with the reason of a failure.
LEMMA ConcludeStep ==
    ASSUME AllLocal, NEW o \in Owners, UNCHANGED <<object, cache, fresh, copy, owned>>,
           NEW cond \in (Conditions \cup {"Conflict"}) \ {"Ready"}, NEW again \in BOOLEAN,
           Conclude(o, cond, again), pc[o] # "idle",
           cond = "Conflict" => ~IsFresh(o)
    PROVE  AllLocal'
<1> DEFINE v == [cond |-> cond, again |-> again]
<1>1. v \in Verdicts /\ "report" \in FabricPCs /\ Local(o) /\ Shapes
  BY DEF Verdicts, FabricPCs, AllLocal
<1>2. /\ pc' = [pc EXCEPT ![o] = "report"] /\ verdict' = [verdict EXCEPT ![o] = v]
      /\ owned' = [owned EXCEPT ![o] = owned[o]] /\ owned[o] \subseteq Asked(o)
  BY <1>1 DEF Conclude, Shapes, Local
<1>3. v.cond = cond
  OBVIOUS
<1>4. QED BY <1>1, <1>2, <1>3, WorkStep

LEMMA AddFinalizerStep ==
    ASSUME AllLocal, NEW o \in Owners, AddFinalizer(o)
    PROVE  AllLocal'
<1>0. Shapes /\ Local(o) /\ pc[o] = "finalize" /\ object[o] \in FabricObject
  BY DEF AllLocal, AddFinalizer, Shapes
<1>1. CASE IsFresh(o)
  <2> DEFINE new == [object[o] EXCEPT !.fin = TRUE]
  <2>1. /\ object' = [object EXCEPT ![o] = new] /\ copy' = [copy EXCEPT ![o].fin = TRUE]
        /\ pc' = [pc EXCEPT ![o] = "gate"]
        /\ fresh' = (fresh \ {<<"cache", o>>, <<"copy", o>>}) \cup {<<"copy", o>>}
        /\ UNCHANGED <<cache, owned, verdict>>
    BY <1>0, <1>1 DEF AddFinalizer, Store, IsFresh
  <2>2. copy[o] = object[o]
    BY <1>0, <1>1 DEF Local
  <2>3. copy' = [copy EXCEPT ![o] = new] /\ new \in FabricObject
    BY <1>0, <2>1, <2>2 DEF Shapes, FabricObject
  <2>4. /\ new.fin /\ new.phase = object[o].phase /\ new.spec = object[o].spec
    BY <1>0 DEF FabricObject
  <2>5. Shapes'
    BY <1>0, <2>1, <2>3 DEF Shapes, FabricPCs
  <2>6. \A d \in Owners \ {o} : Elsewhere(d)
    BY <1>0, <2>1, <2>3 DEF Elsewhere, Shapes, IsFresh
  <2>7. /\ object'[o] = new /\ copy'[o] = new /\ pc'[o] = "gate"
        /\ verdict'[o] = verdict[o] /\ owned'[o] = owned[o] /\ cache'[o] = cache[o]
        /\ <<"cache", o>> \notin fresh'
    BY <1>0, <2>1, <2>3 DEF Shapes
  <2>8. CopiesInv(o)' /\ AppliesInv(o)'
    BY <1>0, <2>2, <2>4, <2>7 DEF Local, CopiesInv, AppliesInv, Kept
  <2>9. Local(o)'
    BY <1>0, <2>2, <2>4, <2>7, <2>8 DEF Local
  <2>10. QED BY <2>5, <2>6, <2>9, OwnerStep
<1>2. CASE ~IsFresh(o)
  <2>1. Conclude(o, "Conflict", TRUE) /\ UNCHANGED <<object, cache, fresh, copy, owned>>
    BY <1>2 DEF AddFinalizer, Conclude
  <2>2. QED BY <1>0, <1>2, <2>1, ConcludeStep
<1>3. QED BY <1>1, <1>2

\* The gates in front of the applies.
LEMMA GateStep ==
    ASSUME AllLocal, TopologyGate \/ DesignGate
    PROVE  AllLocal'
<1>0. PICK o \in Owners, to \in {"apply", "index"} :
         /\ pc[o] = "gate" /\ (o = "design" => to = "index")
         /\ UNCHANGED <<object, cache, fresh, copy, owned>>
         /\ \/ \E cond \in Conditions \ {"Ready"} : Conclude(o, cond, FALSE)
            \/ Goto(o, to)
  BY DEF TopologyGate, DesignGate, Owners, Conditions, Conclude, Goto
<1>1. Shapes /\ Local(o) /\ to \in FabricPCs
  BY DEF AllLocal, FabricPCs
<1>2. CASE \E cond \in Conditions \ {"Ready"} : Conclude(o, cond, FALSE)
  BY <1>0, <1>2, ConcludeStep DEF Conditions
<1>3. CASE Goto(o, to)
  <2>1. verdict[o] \in Verdicts /\ owned[o] \subseteq Asked(o)
    BY <1>1 DEF Shapes, Local
  <2>2. /\ pc' = [pc EXCEPT ![o] = to] /\ verdict' = [verdict EXCEPT ![o] = verdict[o]]
        /\ owned' = [owned EXCEPT ![o] = owned[o]]
    BY <1>0, <1>1, <1>3 DEF Goto, Shapes
  <2>3. copy[o].phase = "live" /\ copy[o].fin /\ verdict[o].cond # "Conflict"
    BY <1>0, <1>1 DEF Local, CopiesInv
  <2>4. QED BY <1>0, <1>1, <2>1, <2>2, <2>3, WorkStep
<1>4. QED BY <1>0, <1>2, <1>3

\* What an apply that reaches everything leaves.
LEMMA ApplyStep ==
    ASSUME AllLocal, NEW o \in Owners, Apply(o)
    PROVE  AllLocal'
<1> DEFINE S == (owned[o] \ Obsolete(o)) \cup New(o)
<1>0. /\ Shapes /\ Local(o) /\ pc[o] \in {"index", "apply"}
      /\ UNCHANGED <<object, cache, fresh, copy>>
      /\ owned' = [owned EXCEPT ![o] = S]
      /\ copy[o].spec \in 1 .. Len(Specs(o))
      /\ copy[o].phase = "live" /\ copy[o].fin /\ verdict[o].cond # "Conflict"
      /\ verdict[o] \in Verdicts /\ owned[o] \subseteq Asked(o)
  BY DEF AllLocal, Apply, Reach, Goto, Conclude, Local, CopiesInv, Shapes
<1>1. S \subseteq Asked(o)
  BY <1>0, ApplyFacts
<1>2. CASE pc[o] = "index"
  <2>1. pc' = [pc EXCEPT ![o] = "apply"] /\ verdict' = [verdict EXCEPT ![o] = verdict[o]]
    BY <1>0, <1>2 DEF Apply, Goto, Shapes
  <2>2. o = "design" => GetASIndex \in S
    BY <1>0, <1>2, ApplyFacts
  <2>3. "apply" \in FabricPCs
    BY DEF FabricPCs
  <2> HIDE DEF S
  <2>4. (S # {} => owned[o] # {} \/ copy[o].fin) /\ "apply" \notin {"idle", "finalize", "report", "undo"}
    BY <1>0
  <2>5. QED BY <1>0, <1>1, <1>2, <2>1, <2>2, <2>3, <2>4, WorkStep
<1>3. CASE pc[o] = "apply"
  <2> DEFINE v == [cond |-> "Ready", again |-> FALSE]
  <2>1. /\ pc' = [pc EXCEPT ![o] = "report"] /\ verdict' = [verdict EXCEPT ![o] = v]
    BY <1>0, <1>3 DEF Apply, Conclude
  <2>2. v \in Verdicts /\ v.cond = "Ready" /\ "report" \in FabricPCs
    BY DEF Verdicts, Conditions, FabricPCs
  <2>3. ASSUME IsFresh(o) PROVE Wanted(o, object[o].spec) \subseteq S
    <3>1. copy[o] = object[o]
      BY <1>0, <2>3 DEF Local
    <3>2. CASE o = "topology"
      BY <1>0, <3>1, <3>2, ApplyFacts
    <3>3. CASE o = "design"
      <4>1. GetASIndex \in owned[o]
        BY <1>0, <1>3, <2>3, <3>3 DEF Local, AppliesInv
      <4>2. GetASIndex \in Wanted(o, copy[o].spec)
        BY <3>3 DEF Wanted
      <4>3. QED BY <1>0, <1>3, <3>1, <3>3, <4>1, <4>2, ApplyFacts
    <3>4. QED BY <3>2, <3>3 DEF Owners
  <2> HIDE DEF S, v
  <2>4. QED BY <1>0, <1>1, <1>3, <2>1, <2>2, <2>3, WorkStep
<1>4. QED BY <1>0, <1>2, <1>3

\* An apply that fails half-way.
LEMMA ApplyFailsStep ==
    ASSUME AllLocal, NEW o \in Owners, ApplyFails(o)
    PROVE  AllLocal'
<1> DEFINE v == [cond |-> "RequestError", again |-> o = "design"]
<1>0. /\ Shapes /\ Local(o) /\ pc[o] \in {"index", "apply"}
      /\ UNCHANGED <<object, cache, fresh, copy>>
      /\ verdict' = [verdict EXCEPT ![o] = v]
      /\ copy[o].spec \in 1 .. Len(Specs(o))
      /\ copy[o].phase = "live" /\ copy[o].fin /\ owned[o] \subseteq Asked(o)
  BY DEF AllLocal, ApplyFails, Local, CopiesInv
<1>1. PICK to \in {"undo", "report"} :
         pc' = [pc EXCEPT ![o] = to] /\ (to = "undo" => o = "design")
  BY DEF ApplyFails
<1>2. PICK S : S \subseteq Asked(o) /\ owned' = [owned EXCEPT ![o] = S]
  <2>1. CASE \E D \in SUBSET Obsolete(o) : Reach(o, D, {})
    BY <1>0, <2>1 DEF Reach
  <2>2. CASE \E N \in SUBSET New(o) : Reach(o, Obsolete(o), N)
    <3>1. New(o) \subseteq Asked(o)
      BY <1>0, ApplyFacts
    <3>2. QED BY <1>0, <2>2, <3>1 DEF Reach
  <2>3. QED BY <2>1, <2>2 DEF ApplyFails
<1>3. v \in Verdicts /\ v.cond = "RequestError" /\ to \in FabricPCs
  BY DEF Verdicts, Conditions, FabricPCs
<1> HIDE DEF v
<1>4. QED BY <1>0, <1>1, <1>2, <1>3, WorkStep

\* Objects are released: by a deletion, or after a failed apply of the design.
LEMMA ReleaseStep ==
    ASSUME AllLocal, NEW o \in Owners, Delete(o) \/ (o = "design" /\ Undo)
    PROVE  AllLocal'
<1> DEFINE S == owned[o] \ OfKinds(ownedCache[o], DeletedKinds(o))
<1>0. PICK to \in {"unfinalize", "report"} :
         /\ pc' = [pc EXCEPT ![o] = to] /\ UNCHANGED <<object, cache, fresh, copy, verdict>>
         /\ to = "unfinalize" => pc[o] = "delete"
         /\ to = "report" => pc[o] = "undo"
         /\ pc[o] \in {"delete", "undo"}
         /\ owned' = [owned EXCEPT ![o] = S]
  BY DEF Delete, Undo, Goto, Reach
<1>1. /\ Shapes /\ Local(o) /\ verdict[o] \in Verdicts
      /\ verdict' = [verdict EXCEPT ![o] = verdict[o]]
  BY <1>0 DEF AllLocal, Shapes
<1>2. /\ S \subseteq Asked(o) /\ (S # {} => owned[o] # {})
      /\ verdict[o].cond # "Conflict"
      /\ to = "unfinalize" => copy[o].phase = "deleting"
      /\ to = "report" => verdict[o].cond # "Ready"
      /\ to \in FabricPCs
  BY <1>0, <1>1 DEF Local, CopiesInv, AppliesInv, FabricPCs
<1> HIDE DEF S
<1>3. UNCHANGED <<object, cache, fresh, copy>> /\ pc[o] # "idle"
  BY <1>0
<1>4. QED BY <1>0, <1>1, <1>2, <1>3, WorkStep

\* A deletion ends with the finalizer, if the copy is up to date.
LEMMA RemoveFinalizerStep ==
    ASSUME AllLocal, NEW o \in Owners, RemoveFinalizer(o)
    PROVE  AllLocal'
<1>0. Shapes /\ Local(o) /\ pc[o] = "unfinalize" /\ object[o] \in FabricObject
  BY DEF AllLocal, RemoveFinalizer, Shapes
<1>1. CASE IsFresh(o)
  <2> DEFINE new == [object[o] EXCEPT !.fin = FALSE, !.phase = "gone"]
  <2>1. /\ object' = [object EXCEPT ![o] = new] /\ UNCHANGED <<cache, owned>>
        /\ fresh' = (fresh \ {<<"cache", o>>, <<"copy", o>>}) \cup {}
        /\ pc' = [pc EXCEPT ![o] = "idle"] /\ copy' = [copy EXCEPT ![o] = Absent]
        /\ verdict' = [verdict EXCEPT ![o] = NoVerdict]
    BY <1>1 DEF RemoveFinalizer, Store, Return
  <2>2. new \in FabricObject /\ new.spec = object[o].spec /\ new.phase = "gone"
    BY <1>0 DEF FabricObject
  <2>3. new.spec \in 1 .. Len(Specs(o))
    BY <1>0, <2>2 DEF Local
  <2> HIDE DEF new
  <2>4. QED BY <2>1, <2>2, <2>3, StoreStep
<1>2. CASE ~IsFresh(o)
  <2>1. Conclude(o, "Conflict", TRUE) /\ UNCHANGED <<object, cache, fresh, copy, owned>>
    BY <1>2 DEF RemoveFinalizer, Conclude
  <2>2. QED BY <1>0, <1>2, <2>1, ConcludeStep
<1>3. QED BY <1>1, <1>2

\* The reconcile ends: the object is as it was, or has another condition.
LEMMA ReturnStep ==
    ASSUME AllLocal, NEW o \in Owners, NEW cond \in Conditions, NEW q, Return(o, q),
           object' = [object EXCEPT ![o] = [@ EXCEPT !.cond = cond]],
           UNCHANGED <<cache, owned>>,
           \A x \in fresh' : x \in fresh /\ x # <<"copy", o>>,
           <<"cache", o>> \in fresh' => object' = object
    PROVE  AllLocal'
<1> DEFINE new == [object[o] EXCEPT !.cond = cond]
<1>0. Shapes /\ Local(o) /\ object[o] \in FabricObject
  BY DEF AllLocal, Shapes
<1>1. /\ new \in FabricObject /\ new.spec = object[o].spec /\ new.phase = object[o].phase
      /\ new.fin = object[o].fin
  BY <1>0 DEF FabricObject
<1>2. object' = [object EXCEPT ![o] = new] /\ object'[o] = new
  BY <1>0 DEF Shapes
<1>3. /\ new.spec \in 1 .. Len(Specs(o))
      /\ new.phase = "deleting" => new.fin
      /\ new.phase = "absent" => ~new.fin
      /\ Kept(o) => new.fin \/ new.phase = "gone"
  BY <1>0, <1>1 DEF Local, CopiesInv, Kept
<1> HIDE DEF new
<1>4. /\ pc' = [pc EXCEPT ![o] = "idle"] /\ copy' = [copy EXCEPT ![o] = Absent]
      /\ verdict' = [verdict EXCEPT ![o] = NoVerdict]
  BY DEF Return
<1>5. <<"cache", o>> \in fresh' => new = object[o]
  BY <1>2
<1>6. QED BY <1>1, <1>2, <1>3, <1>4, <1>5, StoreStep

LEMMA ReportStep ==
    ASSUME AllLocal, NEW o \in Owners, Report(o)
    PROVE  AllLocal'
<1> DEFINE new == [object[o] EXCEPT !.cond = verdict[o].cond]
<1>0. /\ Shapes /\ Local(o) /\ object[o] \in FabricObject /\ verdict[o] \in Verdicts
      /\ UNCHANGED <<cache, owned>>
  BY DEF AllLocal, Report, Shapes
<1>1. PICK q : Return(o, q)
  BY DEF Report
<1>2. CASE IsFresh(o) /\ new # object[o]
  <2>1. object' = [object EXCEPT ![o] = [@ EXCEPT !.cond = verdict[o].cond]]
    BY <1>2 DEF Report, Store
  <2>2. fresh' = (fresh \ {<<"cache", o>>, <<"copy", o>>}) \cup {}
    BY <1>2 DEF Report, Store
  <2>3. verdict[o].cond \in Conditions
    BY <1>0, <1>2 DEF Local, CopiesInv, Verdicts
  <2>4. QED BY <1>0, <1>1, <2>1, <2>2, <2>3, ReturnStep
<1>3. CASE ~(IsFresh(o) /\ new # object[o])
  <2>1. fresh' = fresh \ {<<"copy", o>>} /\ UNCHANGED object
    BY <1>3 DEF Report
  <2>2. object' = [object EXCEPT ![o] = [@ EXCEPT !.cond = object[o].cond]]
    BY <1>0, <2>1 DEF Shapes, FabricObject
  <2>3. object[o].cond \in Conditions
    BY <1>0 DEF FabricObject
  <2>4. QED BY <1>0, <1>1, <2>1, <2>2, <2>3, ReturnStep
<1>4. QED BY <1>2, <1>3

\* Another request fails.
LEMMA RequestFailsStep ==
    ASSUME AllLocal, NEW o \in Owners, RequestFails(o)
    PROVE  AllLocal'
<1>0. /\ Shapes /\ Local(o) /\ object[o] \in FabricObject
      /\ UNCHANGED <<object, cache>>
  BY DEF AllLocal, RequestFails, Shapes
<1>1. CASE /\ pc[o] \in {"finalize", "unfinalize"}
           /\ Conclude(o, "RequestError", TRUE)
           /\ UNCHANGED <<fresh, owned>>
  <2>1. UNCHANGED copy /\ pc[o] # "idle"
    BY <1>1 DEF Conclude
  <2>2. QED BY <1>0, <1>1, <2>1, ConcludeStep DEF Conditions
<1>2. CASE /\ pc[o] \in {"delete", "undo"}
           /\ \E D \in SUBSET OfKinds(ownedCache[o], DeletedKinds(o)) : Reach(o, D, {})
           /\ Conclude(o, "RequestError", TRUE)
           /\ UNCHANGED fresh
  <2> DEFINE v == [cond |-> "RequestError", again |-> TRUE]
  <2>1. PICK S \in SUBSET owned[o] : owned' = [owned EXCEPT ![o] = S]
    BY <1>0, <1>2 DEF Reach
  <2>2. /\ pc' = [pc EXCEPT ![o] = "report"] /\ verdict' = [verdict EXCEPT ![o] = v]
        /\ UNCHANGED copy
    BY <1>2 DEF Conclude
  <2>3. v \in Verdicts /\ v.cond = "RequestError" /\ "report" \in FabricPCs
    BY DEF Verdicts, Conditions, FabricPCs
  <2>4. S \subseteq Asked(o) /\ (S # {} => owned[o] # {})
    BY <1>0, <2>1 DEF Local
  <2> HIDE DEF v
  <2>5. QED BY <1>0, <1>2, <2>1, <2>2, <2>3, <2>4, WorkStep
<1>3. CASE /\ pc[o] = "report"
           /\ Return(o, queue \cup {o})
           /\ fresh' = fresh \ {<<"copy", o>>}
           /\ UNCHANGED owned
  <2>1. object' = [object EXCEPT ![o] = [@ EXCEPT !.cond = object[o].cond]]
    BY <1>0 DEF Shapes, FabricObject
  <2>2. object[o].cond \in Conditions
    BY <1>0 DEF FabricObject
  <2>3. QED BY <1>0, <1>3, <2>1, <2>2, ReturnStep
<1>4. QED BY <1>1, <1>2, <1>3 DEF RequestFails

\* Users create, change and delete.
LEMMA UserStep ==
    ASSUME AllLocal, NEW o \in Owners, Create(o) \/ ChangeSpec(o) \/ DeleteObject(o)
    PROVE  AllLocal'
<1>0. Shapes /\ Local(o) /\ object[o] \in FabricObject
  BY DEF AllLocal, Shapes
<1>1. PICK new \in FabricObject :
         /\ UserWrites(o, new) /\ new.spec \in 1 .. Len(Specs(o))
         /\ new.phase = "deleting" => new.fin
         /\ new.phase # "absent"
         /\ Kept(o) => new.fin \/ new.phase = "gone"
  <2>1. CASE Create(o)
    <3> DEFINE new == [Absent EXCEPT !.phase = "live"]
    <3>1. /\ new \in FabricObject /\ new.spec \in 1 .. Len(Specs(o)) /\ new.phase = "live"
      BY NothingTypes DEF Absent, FabricObject
    <3>2. ~Kept(o)
      BY <1>0, <2>1 DEF Create, Kept, Local, CopiesInv
    <3>3. UserWrites(o, new)
      BY <2>1 DEF Create
    <3>4. QED BY <3>1, <3>2, <3>3
  <2>2. CASE ChangeSpec(o)
    <3>1. PICK s \in object[o].spec + 1 .. Len(Specs(o)) : UserWrites(o, [object[o] EXCEPT !.spec = s])
      BY <2>2 DEF ChangeSpec
    <3> DEFINE new == [object[o] EXCEPT !.spec = s]
    <3>2. Len(Specs(o)) \in Nat /\ object[o].spec \in 1 .. Len(Specs(o))
      BY <1>0, FabricAssumption DEF Specs, Local
    <3>3. s \in 1 .. Len(Specs(o)) /\ s \in Nat
      BY <3>2
    <3>4. /\ new \in FabricObject /\ new.spec = s /\ new.phase = "live" /\ new.fin = object[o].fin
      BY <1>0, <2>2, <3>3 DEF FabricObject, ChangeSpec, Live
    <3>5. Kept(o) => new.fin
      BY <2>2, <3>4 DEF Kept, ChangeSpec, Live
    <3>6. QED BY <3>1, <3>3, <3>4, <3>5
  <2>3. CASE DeleteObject(o)
    <3> DEFINE to == IF object[o].fin THEN "deleting" ELSE "gone"
               new == [object[o] EXCEPT !.phase = to]
    <3>1. /\ new \in FabricObject /\ new.spec = object[o].spec /\ new.fin = object[o].fin
          /\ new.phase = IF object[o].fin THEN "deleting" ELSE "gone"
      BY <1>0 DEF FabricObject
    <3>2. UserWrites(o, [object[o] EXCEPT
                           !.phase = IF @ = "live" /\ object[o].fin THEN "deleting" ELSE "gone"])
      BY <2>3 DEF DeleteObject
    <3>3. UserWrites(o, new)
      BY <1>0, <2>3, <3>2 DEF DeleteObject, Live, FabricObject
    <3>4. object[o].spec \in 1 .. Len(Specs(o)) /\ object[o].fin \in BOOLEAN
      BY <1>0 DEF Local, FabricObject
    <3> HIDE DEF new
    <3>5. QED BY <2>3, <3>1, <3>3, <3>4 DEF Kept, DeleteObject, Live
  <2>4. QED BY <2>1, <2>2, <2>3
<1>2. /\ object' = [object EXCEPT ![o] = new] /\ UNCHANGED <<cache, owned, pc, copy, verdict>>
      /\ fresh' = (fresh \ {<<"cache", o>>, <<"copy", o>>}) \cup {}
  BY <1>1 DEF UserWrites, Store, work
<1>3. QED BY <1>1, <1>2, StoreStep

\* The cache shows the object.
LEMMA SyncObjectStep ==
    ASSUME AllLocal, NEW o \in Owners, SyncObject(o)
    PROVE  AllLocal'
<1>0. /\ Shapes /\ Local(o)
      /\ cache' = [cache EXCEPT ![o] = object[o]] /\ fresh' = fresh \cup {<<"cache", o>>}
      /\ UNCHANGED <<object, owned, pc, copy, verdict>>
  BY DEF AllLocal, SyncObject
<1>1. Shapes'
  BY <1>0 DEF Shapes
<1>2. \A d \in Owners \ {o} : Elsewhere(d)
  BY <1>0 DEF Elsewhere, Shapes, IsFresh
<1>3. cache'[o] = object[o] /\ IsFresh(o)' = IsFresh(o)
  BY <1>0 DEF Shapes, IsFresh
<1>4. CopiesInv(o)' /\ AppliesInv(o)'
  BY <1>0, <1>3 DEF Local, CopiesInv, AppliesInv, Kept
<1>5. Local(o)'
  BY <1>0, <1>3, <1>4 DEF Local
<1>6. QED BY <1>1, <1>2, <1>5, OwnerStep

\* The collector takes what an object that is gone owned.
LEMMA CollectStep ==
    ASSUME AllLocal, NEW o \in Owners, CollectGarbage(o)
    PROVE  AllLocal'
<1>0. /\ Shapes /\ Local(o) /\ object[o].phase = "gone"
      /\ owned' = [owned EXCEPT ![o] = {}]
      /\ UNCHANGED <<object, cache, fresh, pc, copy, verdict>>
  BY DEF AllLocal, CollectGarbage, work
<1>1. Shapes'
  BY <1>0 DEF Shapes
<1>2. \A d \in Owners \ {o} : Elsewhere(d)
  BY <1>0 DEF Elsewhere, Shapes, IsFresh
<1>3. owned'[o] = {} /\ ~IsFresh(o) /\ IsFresh(o)' = IsFresh(o)
  BY <1>0 DEF Shapes, IsFresh, Local, CopiesInv
<1>4. CopiesInv(o)' /\ AppliesInv(o)'
  BY <1>0, <1>3 DEF Local, CopiesInv, AppliesInv, Kept
<1>5. Local(o)'
  BY <1>0, <1>3, <1>4 DEF Local
<1>6. QED BY <1>1, <1>2, <1>5, OwnerStep

\* A restart forgets the reconciles, and the caches are read anew.
LEMMA RestartStep ==
    ASSUME AllLocal, Restart
    PROVE  AllLocal'
<1>0. /\ Shapes /\ (\A o \in Owners : Local(o))
      /\ cache' = object /\ fresh' = {<<"cache", d>> : d \in Owners}
      /\ pc' = [d \in Owners |-> "idle"] /\ copy' = [d \in Owners |-> Absent]
      /\ verdict' = [d \in Owners |-> NoVerdict] /\ UNCHANGED <<object, owned>>
  BY DEF AllLocal, Restart
<1>1. Shapes'
  BY <1>0, NothingTypes DEF Shapes, FabricPCs
<1>2. ASSUME NEW o \in Owners PROVE Local(o)'
  <2>1. /\ pc'[o] = "idle" /\ copy'[o] = Absent /\ verdict'[o] = NoVerdict
        /\ ~IsFresh(o)' /\ Local(o)
    BY <1>0 DEF IsFresh
  <2>2. CopiesInv(o)' /\ AppliesInv(o)'
    BY <1>0, <2>1 DEF Local, CopiesInv, AppliesInv, Kept, Absent, NoVerdict
  <2>3. QED BY <1>0, <2>1, <2>2, NothingTypes DEF Local, Absent
<1>3. QED BY <1>1, <1>2 DEF AllLocal

\* The other steps change nothing that is spoken of.
LEMMA IdleStep ==
    ASSUME AllLocal, UNCHANGED <<object, cache, fresh, owned, pc, copy, verdict>>
    PROVE  AllLocal'
<1>1. Shapes' /\ \A d \in Owners : Elsewhere(d) /\ Local(d)
  BY DEF AllLocal, Shapes, Elsewhere, IsFresh
<1>2. QED BY <1>1, ElsewhereStep DEF AllLocal

-----------------------------------------------------------------------------
(* The invariant.                                                          *)

LEMMA InitHolds == Init => AllLocal /\ Rest
<1> SUFFICES ASSUME Init PROVE AllLocal /\ Rest
  OBVIOUS
<1>1. Shapes
  BY NothingTypes DEF Init, Shapes, FabricPCs
<1>2. ASSUME NEW o \in Owners PROVE Local(o)
  <2>1. /\ object[o] = Absent /\ cache[o] = Absent /\ copy[o] = Absent /\ owned[o] = {}
        /\ pc[o] = "idle" /\ verdict[o] = NoVerdict /\ ~IsFresh(o)
    BY DEF Init, IsFresh
  <2>2. CopiesInv(o) /\ AppliesInv(o)
    BY <2>1 DEF CopiesInv, AppliesInv, Absent, NoVerdict
  <2>3. QED BY <2>1, <2>2, NothingTypes DEF Local, Absent
<1>3. Rest
  BY FabricAssumption DEF Init, Rest
<1>4. QED BY <1>1, <1>2, <1>3 DEF AllLocal

LEMMA RestStep ==
    ASSUME Rest, [Next]_vars
    PROVE  Rest'
<1>1. \A o \in Owners : Watchers(o) \subseteq Owners
  BY DEF Watchers, Owners
<1>2. ASSUME NEW o \in Owners, Controller(o)
      PROVE  queue' \subseteq Owners /\ events' = events
  BY <1>2 DEF Rest, Controller, Take, AddFinalizer, Apply, Delete, RemoveFinalizer, Report,
     TopologyGate, DesignGate, Undo, Goto, Conclude, Return
<1>3. ASSUME Informers
      PROVE  queue' \subseteq Owners /\ events' = events
  BY <1>1, <1>3 DEF Rest, Informers, SyncObject, SyncOwned
<1>4. ASSUME Cluster
      PROVE  queue' \subseteq Owners /\ (events' = events \/ \E k \in EventKinds : Event(k))
  BY <1>4 DEF Rest, Cluster, Create, ChangeSpec, DeleteObject, ApplyFails, RequestFails,
     CollectGarbage, Outage, OutageEnds, Restart, UserWrites, Conclude, Return, work, Event
<1>5. \A k : Event(k) => events' = events + 1 /\ events < MaxEvents
  BY DEF Event
<1>6. MaxEvents \in Nat /\ events \in 0 .. MaxEvents
  BY FabricAssumption DEF Rest
<1>7. CASE UNCHANGED vars
  BY <1>7 DEF vars, Rest
<1>8. QED BY <1>2, <1>3, <1>4, <1>5, <1>6, <1>7 DEF Next, Rest

LEMMA AllLocalStep ==
    ASSUME AllLocal, [Next]_vars
    PROVE  AllLocal'
<1>1. ASSUME NEW o \in Owners, Controller(o) PROVE AllLocal'
  BY <1>1, TakeStep, AddFinalizerStep, ApplyStep, ReleaseStep, RemoveFinalizerStep, ReportStep,
     GateStep DEF Controller
<1>2. CASE Informers
  <2>1. ASSUME NEW o \in Owners, SyncOwned(o) PROVE AllLocal'
    BY <2>1, IdleStep DEF SyncOwned
  <2>2. QED BY <1>2, <2>1, SyncObjectStep DEF Informers
<1>3. CASE Cluster
  <2>1. CASE OutageEnds \/ \E o \in Owners : Outage(o)
    BY <2>1, IdleStep DEF OutageEnds, Outage, work
  <2>2. QED BY <1>3, <2>1, UserStep, ApplyFailsStep, RequestFailsStep, CollectStep, RestartStep
            DEF Cluster
<1>4. CASE UNCHANGED vars
  BY <1>4, IdleStep DEF vars
<1>5. QED BY <1>1, <1>2, <1>3, <1>4 DEF Next

\* Whatever users, failures and restarts do, all of it holds always.
THEOREM FabricCorrect == Spec => [](AllLocal /\ Rest)
<1>1. AllLocal /\ Rest /\ [Next]_vars => (AllLocal /\ Rest)'
  BY AllLocalStep, RestStep
<1>2. QED BY <1>1, InitHolds, PTL DEF Spec

\* The invariant the run checks follows, types included.
THEOREM FabricInvariants == Spec => []FabricInvariant
<1>1. AllLocal /\ Rest => FabricInvariant
  BY LocalParts DEF AllLocal
<1>2. QED BY <1>1, FabricCorrect, PTL

\* Nothing is owned without the finalizer that will release it.
THEOREM FinalizersFirst == Spec => []OwnersHoldFinalizer
<1>1. FabricInvariant => OwnersHoldFinalizer
  BY DEF FabricInvariant
<1>2. QED BY <1>1, FabricInvariants, PTL

-----------------------------------------------------------------------------
(* What a step may never do.                                               *)

\* The steps that write an object, and the ones that reach owned objects.
Writes(o) ==
    \/ AddFinalizer(o) \/ RemoveFinalizer(o) \/ Report(o)
    \/ Create(o) \/ ChangeSpec(o) \/ DeleteObject(o)

Reaches(o) ==
    \/ Apply(o) \/ Delete(o) \/ (o = "design" /\ Undo)
    \/ ApplyFails(o) \/ RequestFails(o) \/ CollectGarbage(o)

LEMMA OthersKeep ==
    ASSUME Shapes, [Next]_vars, NEW o \in Owners
    PROVE  /\ object'[o] = object[o] \/ Writes(o)
           /\ owned'[o] = owned[o] \/ Reaches(o)
<1>1. ASSUME NEW d \in Owners, d # o, Controller(d)
      PROVE  object'[o] = object[o] /\ owned'[o] = owned[o]
  BY <1>1 DEF Shapes, Controller, Take, AddFinalizer, Apply, Delete, RemoveFinalizer, Report,
     TopologyGate, DesignGate, Undo, Store, Reach
<1>2. ASSUME NEW d \in Owners, d # o,
             \/ Create(d) \/ ChangeSpec(d) \/ DeleteObject(d)
             \/ ApplyFails(d) \/ RequestFails(d) \/ CollectGarbage(d) \/ Outage(d)
      PROVE  object'[o] = object[o] /\ owned'[o] = owned[o]
  BY <1>2 DEF Shapes, Create, ChangeSpec, DeleteObject, UserWrites, Store, ApplyFails, RequestFails,
     Reach, CollectGarbage, Outage
<1>3. ASSUME Controller(o)
      PROVE  /\ object'[o] = object[o] \/ Writes(o)
             /\ owned'[o] = owned[o] \/ Reaches(o)
  BY <1>3 DEF Controller, Writes, Reaches, Take, AddFinalizer, Apply, Delete, RemoveFinalizer,
     Report, TopologyGate, DesignGate, Undo
<1>4. ASSUME \/ Create(o) \/ ChangeSpec(o) \/ DeleteObject(o)
             \/ ApplyFails(o) \/ RequestFails(o) \/ CollectGarbage(o) \/ Outage(o)
      PROVE  /\ object'[o] = object[o] \/ Writes(o)
             /\ owned'[o] = owned[o] \/ Reaches(o)
  BY <1>4 DEF Writes, Reaches, Create, ChangeSpec, DeleteObject, UserWrites, ApplyFails,
     RequestFails, CollectGarbage, Outage
<1>5. CASE Informers \/ OutageEnds \/ Restart \/ UNCHANGED vars
  BY <1>5 DEF Informers, SyncObject, SyncOwned, OutageEnds, Restart, vars
<1>6. QED BY <1>1, <1>2, <1>3, <1>4, <1>5 DEF Next, Cluster

\* Ready is stored by the report of an apply that reached all, from a copy
\* that is still the stored object, for any specs and any failures.
LEMMA ReadyStep ==
    ASSUME AllLocal, [Next]_vars, NEW o \in Owners,
           object'[o].phase = "live", object'[o].cond = "Ready", object[o].cond # "Ready"
    PROVE  Wanted(o, object'[o].spec) \subseteq owned[o]
<1>0. Shapes /\ Local(o) /\ object[o] \in FabricObject
  BY DEF AllLocal, Shapes
<1>1. Writes(o)
  BY <1>0, OthersKeep
<1>2. CASE AddFinalizer(o) \/ RemoveFinalizer(o)
  <2>1. \/ object'[o] = object[o]
        \/ object'[o] = [object[o] EXCEPT !.fin = TRUE]
        \/ object'[o] = [object[o] EXCEPT !.fin = FALSE, !.phase = "gone"]
    BY <1>0, <1>2 DEF AddFinalizer, RemoveFinalizer, Store, Shapes
  <2>2. QED BY <1>0, <2>1 DEF FabricObject
<1>3. CASE ChangeSpec(o) \/ DeleteObject(o)
  <2>1. PICK new : UserWrites(o, new) /\ new.cond = object[o].cond
    <3>1. CASE ChangeSpec(o)
      <4>1. PICK s \in object[o].spec + 1 .. Len(Specs(o)) : UserWrites(o, [object[o] EXCEPT !.spec = s])
        BY <3>1 DEF ChangeSpec
      <4>2. QED BY <1>0, <4>1 DEF FabricObject
    <3>2. CASE DeleteObject(o)
      <4>1. PICK to : UserWrites(o, [object[o] EXCEPT !.phase = to])
        BY <3>2 DEF DeleteObject
      <4>2. QED BY <1>0, <4>1 DEF FabricObject
    <3>3. QED BY <1>3, <3>1, <3>2
  <2>2. object'[o] = new
    BY <1>0, <2>1 DEF UserWrites, Store, Shapes
  <2>3. QED BY <2>1, <2>2
<1>4. CASE Create(o)
  BY <1>0, <1>4 DEF Create, UserWrites, Store, Shapes, Absent
<1>5. CASE Report(o)
  <2>1. IsFresh(o) /\ object' = [object EXCEPT ![o] = [@ EXCEPT !.cond = verdict[o].cond]]
    BY <1>5 DEF Report, Store
  <2>2. object'[o].cond = verdict[o].cond /\ object'[o].spec = object[o].spec
    BY <1>0, <2>1 DEF Shapes, FabricObject
  <2>3. QED BY <1>0, <1>5, <2>1, <2>2 DEF Report, Local, AppliesInv
<1>6. QED BY <1>1, <1>2, <1>3, <1>4, <1>5 DEF Writes

THEOREM ReadyAfterApply == Spec => ReadyMeansApplied
<1>1. AllLocal /\ [Next]_vars =>
         [\A o \in Owners :
             object'[o].phase = "live" /\ object'[o].cond = "Ready" /\ object[o].cond # "Ready" =>
                Wanted(o, object'[o].spec) \subseteq owned[o]]_vars
  BY ReadyStep
<1>2. QED BY <1>1, FabricCorrect, PTL DEF Spec, ReadyMeansApplied

\* A reconcile that knows the stored spec spares what it asks for, unless it
\* undoes a failed apply.
LEMMA ReleaseSpares ==
    ASSUME AllLocal, [Next]_vars, NEW o \in Owners, Live(o), IsFresh(o)
    PROVE  \/ Wanted(o, object[o].spec) \cap owned[o] \subseteq owned'[o]
           \/ o = "design" /\ verdict'[o].cond = "RequestError"
<1>0. /\ Shapes /\ Local(o) /\ copy[o] = object[o] /\ copy[o].spec \in 1 .. Len(Specs(o))
      /\ object[o].phase = "live"
  BY DEF AllLocal, Local, Live
<1>1. CASE owned'[o] = owned[o]
  BY <1>1
<1>2. CASE Apply(o)
  <2>1. owned'[o] = (owned[o] \ Obsolete(o)) \cup New(o)
    BY <1>0, <1>2 DEF Apply, Reach, Shapes
  <2>2. QED BY <1>0, <2>1, ApplyFacts
<1>3. CASE ApplyFails(o)
  <2>1. \E D, S : D \subseteq Obsolete(o) /\ owned'[o] = (owned[o] \ D) \cup S
    BY <1>0, <1>3 DEF ApplyFails, Reach, Shapes
  <2>2. QED BY <1>0, <2>1, ApplyFacts
<1>4. CASE Delete(o) \/ CollectGarbage(o)
  BY <1>0, <1>4 DEF Delete, CollectGarbage, Local, CopiesInv
<1>5. CASE o = "design" /\ Undo
  <2>1. verdict'[o] = verdict[o] /\ pc[o] = "undo"
    BY <1>5 DEF Undo
  <2>2. QED BY <1>0, <1>5, <2>1 DEF Local, AppliesInv
<1>6. CASE RequestFails(o)
  <2>1. \/ owned'[o] = owned[o]
        \/ /\ pc[o] \in {"delete", "undo"}
           /\ verdict' = [verdict EXCEPT ![o] = [cond |-> "RequestError", again |-> TRUE]]
    BY <1>6 DEF RequestFails, Conclude
  <2>2. CASE pc[o] = "delete"
    BY <1>0, <2>2 DEF Local, CopiesInv
  <2>3. CASE pc[o] # "delete" /\ owned'[o] # owned[o]
    <3>1. verdict'[o].cond = "RequestError"
      BY <1>0, <2>1, <2>3 DEF Shapes
    <3>2. o = "design"
      BY <1>0, <2>1, <2>3 DEF Local, AppliesInv
    <3>3. QED BY <3>1, <3>2
  <2>4. QED BY <1>1, <2>2, <2>3
<1>7. QED BY <1>0, <1>1, <1>2, <1>3, <1>4, <1>5, <1>6, OthersKeep DEF Reaches

THEOREM ClaimsAreSpared == Spec => NothingNeededIsReleased
<1>1. AllLocal /\ [Next]_vars =>
         [\A o \in Owners : Live(o) /\ IsFresh(o) =>
             \/ Wanted(o, object[o].spec) \cap owned[o] \subseteq owned'[o]
             \/ o = "design" /\ verdict'[o].cond = "RequestError"]_vars
  BY ReleaseSpares
<1>2. QED BY <1>1, FabricCorrect, PTL DEF Spec, NothingNeededIsReleased
=============================================================================
