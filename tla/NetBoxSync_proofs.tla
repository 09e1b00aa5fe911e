-------------------------- MODULE NetBoxSync_proofs --------------------------
(***************************************************************************)
(* The synchronisation of NetBox, for any laboratory, any number of        *)
(* operators and of runs.  First the boundary: no script makes a device    *)
(* managed that is not, however old the spec or the device object it has   *)
(* in hand.  Then what the scripts promise: when one that runs alone comes *)
(* to its end, what it was to put into NetBox is there.  The invariant of  *)
(* that, Realising, says what is still ahead of a script and in which      *)
(* order (PlanInv), what addresses and specs are like (Sound), that what   *)
(* a lone script has read is what NetBox has (Current), and that what is   *)
(* not yet in NetBox is ahead (Progress).  Last, what a lone script does   *)
(* not undo, and that what its calls rest on is there (Footing).           *)
(***************************************************************************)
EXTENDS NetBoxSync, FiniteSetTheorems, SequenceTheorems, TLAPS

\* A context that does not widen the boundary when it is put on device d.
Safe(ctx, d) == "boundary" \in DOMAIN ctx /\ (ctx.boundary = "managed" => d \in Managed)

SafeNetBox(nb) ==
    /\ {"ctx", "devices"} \subseteq DOMAIN nb
    /\ nb.devices \subseteq Devices
    /\ DOMAIN nb.ctx = Devices
    /\ \A d \in Devices : Safe(nb.ctx[d], d)
SafeSpec(k) == "managed" \in DOMAIN k /\ k.managed \subseteq Managed
SafeObject(o) == {"dev", "ctx", "primary"} \subseteq DOMAIN o /\ Safe(o.ctx, o.dev)

Inv ==
    /\ SafeNetBox(netbox)
    /\ SafeSpec(spec)
    /\ DOMAIN copy = Operators /\ \A p \in Operators : SafeSpec(copy[p])
    /\ DOMAIN seen = Operators /\ \A p \in Operators : SafeObject(seen[p])

-----------------------------------------------------------------------------
(* What is written.                                                        *)

LEMMA NothingInHand == SafeObject(NoDevice)
BY DEF NoDevice, SafeObject, Safe, NoContext

LEMMA LabSpecSafe == SafeSpec(LabSpec)
BY InventoryAssumption DEF LabSpec, SafeSpec

LEMMA FreshSafe ==
  ASSUME NEW k, SafeSpec(k), NEW d
  PROVE  Safe(Fresh(k, d), d)
BY DEF SafeSpec, Safe, Fresh, Boundary

LEMMA MergedSafe ==
  ASSUME NEW s, NEW k, SafeSpec(k), NEW d, NEW ctx, Safe(ctx, d)
  PROVE  Safe(Merged(s, k, d, ctx), d)
<1>1. CASE s = "contexts"
  BY <1>1 DEF SafeSpec, Safe, Merged, Boundary
<1>2. CASE s = "enrich"
  BY <1>2 DEF Safe, Merged
<1>3. CASE s \notin {"contexts", "enrich"}
  BY <1>3 DEF Safe, Merged
<1> QED
  BY <1>1, <1>2, <1>3

LEMMA ContextPut ==
  ASSUME NEW nb, SafeNetBox(nb), NEW d, NEW ctx, Safe(ctx, d)
  PROVE  SafeNetBox([nb EXCEPT !.ctx[d] = ctx])
BY DEF SafeNetBox

LEMMA OtherFieldPut ==
  ASSUME NEW nb, SafeNetBox(nb), NEW f, f \notin {"ctx", "devices"}, NEW v
  PROVE  SafeNetBox([nb EXCEPT ![f] = v])
BY DEF SafeNetBox

LEMMA RecordSafe ==
  ASSUME SafeNetBox(netbox), NEW d \in Devices
  PROVE  SafeObject(Record(d))
BY DEF SafeNetBox, SafeObject, Record

LEMMA InventorySafe ==
  ASSUME SafeNetBox(netbox)
  PROVE  SafeSpec(Inventory(netbox))
BY DEF SafeNetBox, Safe, SafeSpec, Inventory

LEMMA InitSafe == Init => Inv
<1> SUFFICES ASSUME Init PROVE Inv
  OBVIOUS
<1>1. SafeNetBox(EmptyNetBox)
  BY DEF EmptyNetBox, NoContext, SafeNetBox, Safe
<1>2. SafeNetBox(SeededNetBox)
  BY InventoryAssumption
  DEF EmptyNetBox, SeededNetBox, NoContext, SafeNetBox, Safe, Boundary, LabSpec, Devices
<1> QED
  BY <1>1, <1>2, LabSpecSafe, NothingInHand DEF Init, Inv

-----------------------------------------------------------------------------
(* The scripts, call by call.                                              *)

LEMMA StartSafe ==
  ASSUME Inv, NEW p \in Operators, NEW s, Start(p, s)
  PROVE  Inv'
BY DEF Inv, Start

LEMMA StopSafe ==
  ASSUME Inv, NEW p \in Operators, Stop(p)
  PROVE  Inv'
BY NothingInHand, LabSpecSafe DEF Inv, Stop

LEMMA NetBoxSafe ==
  ASSUME Inv, SafeNetBox(netbox)', UNCHANGED <<spec, copy, seen>>
  PROVE  Inv'
BY DEF Inv

LEMMA PutSafe ==
  ASSUME Inv, NEW p \in Operators, NEW nb, SafeNetBox(nb), Put(p, nb)
  PROVE  Inv'
BY NetBoxSafe DEF Put, Done

LEMMA PassOverSafe ==
  ASSUME Inv, NEW p \in Operators, PassOver(p)
  PROVE  Inv'
BY DEF Inv, PassOver

LEMMA CreateSafe ==
  ASSUME Inv, NEW p \in Operators, Create(p)
  PROVE  Inv'
<1>1. PICK d \in Devices :
         /\ netbox' = [netbox EXCEPT !.devices = @ \cup {d}]
         /\ seen' = [seen EXCEPT ![p] = Record(d)]
         /\ UNCHANGED <<spec, copy>>
  BY DEF Create
<1>2. SafeNetBox(netbox)'
  BY <1>1 DEF Inv, SafeNetBox
<1>3. SafeObject(Record(d))
  BY RecordSafe DEF Inv
<1> QED
  BY <1>1, <1>2, <1>3 DEF Inv

LEMMA FetchSafe ==
  ASSUME Inv, NEW p \in Operators, Fetch(p)
  PROVE  Inv'
<1>1. PICK d \in Devices :
         /\ seen' \in {seen, [seen EXCEPT ![p] = Record(d)]}
         /\ UNCHANGED <<netbox, spec, copy>>
  BY DEF Fetch
<1>2. SafeObject(Record(d))
  BY RecordSafe DEF Inv
<1> QED
  BY <1>1, <1>2 DEF Inv

LEMMA PortSafe ==
  ASSUME Inv, NEW p \in Operators, Port(p)
  PROVE  Inv'
<1>1. PICK i \in Ports :
         /\ netbox' = [netbox EXCEPT !.ports = @ \cup {i}]
         /\ UNCHANGED <<spec, copy, seen>>
  BY DEF Port
<1> QED
  BY <1>1, OtherFieldPut, NetBoxSafe DEF Inv

LEMMA AttachSafe ==
  ASSUME Inv, NEW p \in Operators, Attach(p)
  PROVE  Inv'
<1>1. PICK i \in netbox.ports :
         /\ netbox' = [netbox EXCEPT !.at[AddressOf(i)] = i]
         /\ seen' = [seen EXCEPT ![p].primary = IF Exists(AddressOf(i)) THEN @ ELSE None]
         /\ UNCHANGED <<spec, copy>>
  BY DEF Attach, Done
<1>2. SafeNetBox(netbox)'
  BY <1>1 DEF Inv, SafeNetBox
<1>3. \A q \in Operators : SafeObject(seen'[q])
  BY <1>1 DEF Inv, SafeObject, Safe
<1> QED
  BY <1>1, <1>2, <1>3 DEF Inv

LEMMA PrimarySafe ==
  ASSUME Inv, NEW p \in Operators, Primary(p)
  PROVE  Inv'
<1>1. PICK d \in Lab : netbox' \in {netbox, [netbox EXCEPT !.primary[d] = Mgmt(d)]}
                       /\ UNCHANGED <<spec, copy, seen>>
  BY DEF Primary, Put, Done
<1>2. SafeNetBox(netbox)'
  BY <1>1 DEF Inv, SafeNetBox
<1> QED
  BY <1>1, <1>2, NetBoxSafe

LEMMA SaveSafe ==
  ASSUME Inv, NEW p \in Operators, NEW ctx, Safe(ctx, seen[p].dev), Save(p, ctx)
  PROVE  Inv'
<1>1. SafeNetBox(netbox)'
  BY ContextPut DEF Inv, Save
<1>2. SafeObject([NoDevice EXCEPT !.dev = seen[p].dev])
  BY DEF NoDevice, NoContext, SafeObject, Safe
<1> QED
  BY <1>1, <1>2 DEF Inv, Save, Done

LEMMA ReplaceSafe ==
  ASSUME Inv, NEW p \in Operators, Replace(p)
  PROVE  Inv'
BY SaveSafe, FreshSafe DEF Replace, Inv

LEMMA MergeSafe ==
  ASSUME Inv, NEW p \in Operators, Merge(p)
  PROVE  Inv'
<1>1. Safe(seen[p].ctx, seen[p].dev) /\ SafeSpec(copy[p])
  BY DEF Inv, SafeObject
<1> QED
  BY <1>1, SaveSafe, MergedSafe DEF Merge

LEMMA FreedSafe ==
  ASSUME SafeNetBox(netbox), NEW i
  PROVE  SafeNetBox(Freed(i))
BY DEF SafeNetBox, Freed

LEMMA DroppedSafe ==
  ASSUME SafeNetBox(netbox), NEW i
  PROVE  SafeNetBox([Freed(i) EXCEPT !.ports = @ \ {i}, !.cables = {c \in @ : i \notin c}])
BY FreedSafe DEF SafeNetBox

LEMMA MadeSafe ==
  ASSUME SafeNetBox(netbox), NEW o
  PROVE  SafeNetBox(Made(o))
BY DEF SafeNetBox, Made

LEMMA LabelledSafe ==
  ASSUME SafeNetBox(netbox), NEW d, NEW label
  PROVE  SafeNetBox(Labelled(d, label))
BY DEF SafeNetBox, Labelled

\* The calls that change NetBox outside contexts and devices.
ElsewhereCall(p) ==
    \/ Find(p) \/ Address(p) \/ Cable(p) \/ Free(p) \/ Drop(p)
    \/ Catalogue(p) \/ Tenancy(p) \/ AsnRegistry(p) \/ CloudSite(p) \/ Vlans(p)
    \/ Rack(p) \/ Tag(p) \/ Asns(p) \/ Session(p)

LEMMA ElsewhereSafe ==
  ASSUME Inv, NEW p \in Operators, ElsewhereCall(p)
  PROVE  Inv'
<1>0. SafeNetBox(netbox)
  BY DEF Inv
<1>1. CASE Find(p) \/ Asns(p)
  BY <1>0, <1>1, PutSafe DEF Find, Asns
<1>2. CASE Address(p)
  <2>1. PICK i \in Ports :
           Put(p, IF Exists(AddressOf(i)) THEN netbox ELSE [netbox EXCEPT !.at[AddressOf(i)] = i])
    BY <1>2 DEF Address
  <2>2. SafeNetBox([netbox EXCEPT !.at[AddressOf(i)] = i])
    BY <1>0 DEF SafeNetBox
  <2> QED
    BY <1>0, <2>1, <2>2, PutSafe
<1>3. CASE Cable(p)
  <2>1. PICK l \in Links \cup {Tunnel} :
           \/ Put(p, netbox)
           \/ Put(p, [netbox EXCEPT !.cables = @ \cup {l}])
    BY <1>3 DEF Cable
  <2>2. SafeNetBox([netbox EXCEPT !.cables = @ \cup {l}])
    BY <1>0 DEF SafeNetBox
  <2> QED
    BY <1>0, <2>1, <2>2, PutSafe
<1>4. CASE Free(p)
  <2>1. PICK i \in Ports : netbox' = Freed(i) /\ UNCHANGED <<spec, copy, seen>>
    BY <1>4 DEF Free
  <2> QED
    BY <1>0, <2>1, FreedSafe, NetBoxSafe
<1>5. CASE Drop(p)
  BY <1>0, <1>5, DroppedSafe, PutSafe DEF Drop
<1>6. CASE Catalogue(p) \/ Tenancy(p) \/ AsnRegistry(p) \/ CloudSite(p) \/ Vlans(p)
  BY <1>0, <1>6, MadeSafe, PutSafe DEF Catalogue, Tenancy, AsnRegistry, CloudSite, Vlans, Make
<1>7. CASE Rack(p) \/ Tag(p)
  BY <1>0, <1>7, LabelledSafe, PutSafe DEF Rack, Tag
<1>8. CASE Session(p)
  <2>1. PICK l \in Sessions : Put(p, [netbox EXCEPT !.sessions = @ \cup {l}])
    BY <1>8 DEF Session
  <2>2. SafeNetBox([netbox EXCEPT !.sessions = @ \cup {l}])
    BY <1>0 DEF SafeNetBox
  <2> QED
    BY <2>1, <2>2, PutSafe
<1> QED
  BY <1>1, <1>2, <1>3, <1>4, <1>5, <1>6, <1>7, <1>8 DEF ElsewhereCall

\* The calls that only look NetBox up and plan further calls.
LEMMA PlanningSafe ==
  ASSUME Inv, NEW p \in Operators, Orphans(p) \/ Peers(p)
  PROVE  Inv'
BY DEF Inv, Orphans, Peers

-----------------------------------------------------------------------------
(* The generator.                                                          *)

LEMMA ReadSafe ==
  ASSUME Inv, NEW p \in Operators, NEW op, NEW k, SafeSpec(k), Read(p, op, k)
  PROVE  Inv'
BY DEF Inv, Read

LEMMA GeneratorSafe ==
  ASSUME Inv, NEW p \in Operators,
         \/ ReadDevices(p) \/ ReadInterfaces(p) \/ ReadAddresses(p) \/ ReadCables(p)
         \/ Write(p)
  PROVE  Inv'
<1>0. SafeSpec(copy[p]) /\ SafeNetBox(netbox)
  BY DEF Inv
<1>1. CASE ReadDevices(p)
  BY <1>0, <1>1, InventorySafe, ReadSafe DEF ReadDevices
<1>2. CASE ReadInterfaces(p)
  <2>1. ASSUME NEW S PROVE SafeSpec([copy[p] EXCEPT !.ports = S])
    BY <1>0 DEF SafeSpec
  <2> QED
    BY <1>2, <2>1, ReadSafe DEF ReadInterfaces
<1>3. CASE ReadAddresses(p)
  <2>1. ASSUME NEW S PROVE SafeSpec([copy[p] EXCEPT !.addressed = S])
    BY <1>0 DEF SafeSpec
  <2> QED
    BY <1>3, <2>1, ReadSafe DEF ReadAddresses
<1>4. CASE ReadCables(p)
  <2>1. ASSUME NEW S, NEW T PROVE SafeSpec([copy[p] EXCEPT !.ports = S, !.links = T])
    BY <1>0 DEF SafeSpec
  <2> QED
    BY <1>4, <2>1, ReadSafe DEF ReadCables
<1>5. CASE Write(p)
  BY <1>0, <1>5 DEF Inv, Write
<1> QED
  BY <1>1, <1>2, <1>3, <1>4, <1>5

-----------------------------------------------------------------------------
LEMMA StepSafe == Inv /\ [Next]_vars => Inv'
<1> SUFFICES ASSUME Inv, [Next]_vars PROVE Inv'
  OBVIOUS
<1>1. CASE UNCHANGED vars
  BY <1>1 DEF Inv, vars
<1>2. ASSUME NEW p \in Operators, Call(p) PROVE Inv'
  BY <1>2, CreateSafe, FetchSafe, PortSafe, AttachSafe, PrimarySafe, ReplaceSafe, MergeSafe,
     ElsewhereSafe, PlanningSafe, GeneratorSafe
  DEF Call, ElsewhereCall
<1> QED
  BY <1>1, <1>2, StartSafe, StopSafe, PassOverSafe DEF Next

\* The agent boundary never widens: whatever the scripts do to NetBox and
\* the generator makes of it, in any order and side by side, for any
\* laboratory, any number of operators and of runs (populate_netbox.py:307-324,
\* populate_netbox_contexts.py:84-87, netbox_to_spec.py:361-370).
THEOREM BoundaryKept == Spec => []BoundaryHolds
<1>1. Inv => BoundaryHolds
  BY DEF Inv, BoundaryHolds, SafeNetBox, SafeSpec, Safe
<1> QED
  BY <1>1, InitSafe, StepSafe, PTL DEF Spec

-----------------------------------------------------------------------------
(* What is left to do, as a set.                                           *)

Ops == {"make", "create", "port", "address", "replace", "cable", "fetch", "merge",
        "attach", "primary", "orphans", "free", "drop", "find",
        "rack", "tag", "vlans", "asns", "peers", "session",
        "devices", "interfaces", "addresses", "cables", "write"}
Things == Devices \cup Ports \cup Sessions \cup {Tunnel, None}
            \cup {"catalogue", "tenancy", "asns", "cloud"}
Steps == [op : Ops, on : Things]

LEMMA StepType ==
  ASSUME NEW op \in Ops, NEW on \in Things
  PROVE  Step(op, on) \in Steps /\ Step(op, on).op = op /\ Step(op, on).on = on
BY DEF Step, Steps

LEMMA AheadOfHead ==
  ASSUME NEW q \in Seq(Steps), q # <<>>
  PROVE  ToSet(q) = {Head(q)} \cup ToSet(Tail(q))
<1>1. Tail(q) \in Seq(Steps) /\ Len(Tail(q)) = Len(q) - 1 /\ Len(q) \in Nat \ {0}
      /\ \A n \in 1..Len(Tail(q)) : Tail(q)[n] = q[n + 1]
  BY HeadTailProperties, EmptySeq
<1>2. DOMAIN q = 1..Len(q) /\ DOMAIN Tail(q) = 1..(Len(q) - 1)
  BY <1>1, LenProperties
<1>3. Head(q) = q[1]
  BY <1>1
<1>4. ASSUME NEW n \in 1..Len(q) PROVE q[n] \in {Head(q)} \cup ToSet(Tail(q))
  <2>1. CASE n = 1
    BY <2>1, <1>3
  <2>2. CASE n # 1
    <3>1. n - 1 \in 1..(Len(q) - 1) /\ (n - 1) + 1 = n
      BY <1>1, <1>4, <2>2
    <3>2. Tail(q)[n - 1] = q[n]
      BY <1>1, <3>1
    <3> QED
      BY <1>2, <3>1, <3>2 DEF ToSet
  <2> QED
    BY <2>1, <2>2
<1>5. ASSUME NEW n \in 1..(Len(q) - 1) PROVE Tail(q)[n] \in ToSet(q)
  <2>1. n + 1 \in 1..Len(q)
    BY <1>1, <1>5
  <2> QED
    BY <1>1, <1>2, <2>1 DEF ToSet
<1>6. q[1] \in ToSet(q)
  BY <1>1, <1>2 DEF ToSet
<1> QED
  BY <1>2, <1>3, <1>4, <1>5, <1>6 DEF ToSet

LEMMA AheadOfBoth ==
  ASSUME NEW a \in Seq(Steps), NEW b \in Seq(Steps)
  PROVE  a \o b \in Seq(Steps) /\ ToSet(a \o b) = ToSet(a) \cup ToSet(b)
<1>1. a \o b \in Seq(Steps) /\ Len(a \o b) = Len(a) + Len(b)
      /\ \A n \in 1..(Len(a) + Len(b)) : (a \o b)[n] = IF n <= Len(a) THEN a[n] ELSE b[n - Len(a)]
  BY ConcatProperties
<1>2. /\ Len(a) \in Nat /\ Len(b) \in Nat
      /\ DOMAIN a = 1..Len(a) /\ DOMAIN b = 1..Len(b) /\ DOMAIN (a \o b) = 1..(Len(a) + Len(b))
  BY <1>1, LenProperties
<1>3. ASSUME NEW n \in 1..(Len(a) + Len(b)) PROVE (a \o b)[n] \in ToSet(a) \cup ToSet(b)
  <2>1. CASE n <= Len(a)
    <3>1. n \in 1..Len(a)
      BY <1>2, <1>3, <2>1
    <3> QED
      BY <1>1, <1>2, <2>1, <3>1 DEF ToSet
  <2>2. CASE ~(n <= Len(a))
    <3>1. n - Len(a) \in 1..Len(b)
      BY <1>2, <1>3, <2>2
    <3> QED
      BY <1>1, <1>2, <2>2, <3>1 DEF ToSet
  <2> QED
    BY <2>1, <2>2
<1>4. ASSUME NEW n \in 1..Len(a) PROVE a[n] \in ToSet(a \o b)
  <2>1. n \in 1..(Len(a) + Len(b)) /\ n <= Len(a)
    BY <1>2, <1>4
  <2> QED
    BY <1>1, <1>2, <2>1 DEF ToSet
<1>5. ASSUME NEW n \in 1..Len(b) PROVE b[n] \in ToSet(a \o b)
  <2>1. n + Len(a) \in 1..(Len(a) + Len(b)) /\ ~(n + Len(a) <= Len(a)) /\ (n + Len(a)) - Len(a) = n
    BY <1>2, <1>5
  <2>2. (a \o b)[n + Len(a)] = b[n]
    BY <1>1, <2>1
  <2> QED
    BY <1>2, <2>1, <2>2 DEF ToSet
<1>6. ToSet(a \o b) \subseteq ToSet(a) \cup ToSet(b)
  BY <1>2, <1>3 DEF ToSet
<1>7. ToSet(a) \subseteq ToSet(a \o b)
  BY <1>2, <1>4 DEF ToSet
<1>8. ToSet(b) \subseteq ToSet(a \o b)
  BY <1>2, <1>5 DEF ToSet
<1> QED
  BY <1>1, <1>6, <1>7, <1>8

LEMMA NothingAhead == <<>> \in Seq(Steps) /\ ToSet(<<>>) = {}
BY EmptySeq, LenProperties DEF ToSet

LEMMA OneAhead ==
  ASSUME NEW st \in Steps
  PROVE  <<st>> \in Seq(Steps) /\ ToSet(<<st>>) = {st}
BY DEF ToSet

LEMMA EachAhead ==
  ASSUME NEW op \in Ops, NEW S, S \subseteq Things, IsFiniteSet(S)
  PROVE  Each(op, S) \in Seq(Steps) /\ ToSet(Each(op, S)) = {Step(op, x) : x \in S}
<1> DEFINE N == Cardinality(S)
           order == SetToSeq(S)
<1>1. N \in Nat /\ ExistsBijection(1..N, S)
  BY FS_CardinalityType
<1>2. \E f \in [1..N -> S] : IsInjective(f)
  BY <1>1 DEF ExistsBijection, Bijection, Injection
<1>3. order \in [1..N -> S] /\ IsInjective(order)
  BY <1>2 DEF SetToSeq
<1>4. Cardinality(1..N) = N
  BY <1>1, FS_Interval
<1>5. order \in Surjection(1..N, S)
  <2>1. order \in Injection(1..N, S)
    BY <1>3 DEF Injection
  <2> QED
    BY <2>1, <1>4, FS_Injection
<1>6. Each(op, S) = [n \in 1..N |-> Step(op, order[n])]
  BY DEF Each
<1>7. \A n \in 1..N : Step(op, order[n]) \in Steps
  BY <1>3, StepType
<1>8. Each(op, S) \in Seq(Steps) /\ DOMAIN Each(op, S) = 1..N
  BY <1>1, <1>6, <1>7
<1>9. \A x \in S : \E n \in 1..N : order[n] = x
  BY <1>5 DEF Surjection
<1> QED
  BY <1>3, <1>6, <1>8, <1>9 DEF ToSet
-----------------------------------------------------------------------------
(* Types.                                                                  *)

NetBoxType ==
    [objects : SUBSET {"catalogue", "tenancy", "asns", "cloud", "vlans"},
     labels : SUBSET ({"rack", "tag"} \X Devices),
     devices : SUBSET Devices, ports : SUBSET Ports,
     cables : SUBSET (Links \cup {Tunnel}), sessions : SUBSET Sessions,
     at : [Addresses -> Ports \cup {None}],
     primary : [Devices -> Addresses \cup {None}],
     ctx : [Devices -> ContextType]]
ObjectType == [dev : Devices \cup {None}, ctx : ContextType, primary : Addresses \cup {None}]

Typed ==
    /\ netbox \in NetBoxType /\ spec \in SpecType
    /\ script \in [Operators -> Scripts \cup {"none"}]
    /\ copy \in [Operators -> SpecType]
    /\ seen \in [Operators -> ObjectType]
    /\ runs \in 0..MaxRuns
    /\ alone \subseteq Operators /\ clean \subseteq Operators

LEMMA TypedOK == Typed => TypeOK
BY DEF Typed, TypeOK, NetBoxType, ObjectType

LEMMA NoContextType == NoContext \in ContextType
BY DEF NoContext, ContextType

LEMMA NoDeviceType == NoDevice \in ObjectType
BY NoContextType DEF NoDevice, ObjectType

LEMMA TunnelPorts == Tunnel0 \in Ports /\ Tun0 \in Ports /\ Ce \in Devices /\ Vpn \in Devices
BY InventoryAssumption DEF Ports, Tunnel, Devices

LEMMA LabSpecType == LabSpec \in SpecType
BY InventoryAssumption DEF LabSpec, SpecType, Devices, Ports, DataPorts

LEMMA FactsForType ==
  ASSUME NEW k \in SpecType, NEW d
  PROVE  AsnFacts(k, d) \subseteq FactsFor(k, d) /\ FactsFor(k, d) \subseteq k.facts
         /\ k.facts \subseteq Facts
BY DEF FactsFor, AsnFacts, SpecType

LEMMA FreshType ==
  ASSUME NEW k \in SpecType, NEW d
  PROVE  Fresh(k, d) \in ContextType
<1>1. AsnFacts(k, d) \in SUBSET (Facts \cup {"enriched", "tunnels"})
  BY FactsForType
<1> QED
  BY <1>1 DEF Fresh, Boundary, ContextType

LEMMA MergedType ==
  ASSUME NEW s, NEW k \in SpecType, NEW d, NEW ctx \in ContextType
  PROVE  Merged(s, k, d, ctx) \in ContextType
<1>1. CASE s = "contexts"
  <2>1. Observes(k, d) \subseteq Ports
    BY DEF Observes, PortsOf, SpecType
  <2>2. FactsFor(k, d) \subseteq Facts
    BY FactsForType
  <2>3. Boundary(k, d) \in {"none", "managed", "excluded"}
    BY DEF Boundary
  <2> QED
    BY <1>1, <2>1, <2>2, <2>3 DEF Merged, ContextType
<1>2. CASE s = "enrich"
  BY <1>2 DEF Merged, ContextType
<1>3. CASE s \notin {"contexts", "enrich"}
  BY <1>3, TunnelPorts DEF Merged, ContextType
<1> QED
  BY <1>1, <1>2, <1>3

LEMMA InventoryType ==
  ASSUME netbox \in NetBoxType
  PROVE  Inventory(netbox) \in SpecType
<1>1. \A d \in netbox.devices : netbox.ctx[d] \in ContextType
  BY DEF NetBoxType
<1>2. UNION {netbox.ctx[d].observed : d \in netbox.devices} \subseteq Ports
  BY <1>1 DEF ContextType
<1> QED
  BY <1>2 DEF NetBoxType, Inventory, SpecType

LEMMA FreedType ==
  ASSUME netbox \in NetBoxType, NEW i
  PROVE  Freed(i) \in NetBoxType
BY DEF NetBoxType, Freed

LEMMA InitTyped == Init => Typed
<1> SUFFICES ASSUME Init PROVE Typed
  OBVIOUS
<1>1. EmptyNetBox \in NetBoxType
  BY NoContextType DEF EmptyNetBox, NetBoxType
<1>2. SeededNetBox \in NetBoxType
  <2>1. ASSUME NEW d \in Lab
        PROVE  [boundary |-> Boundary(LabSpec, d), facts |-> FactsFor(LabSpec, d),
                observed |-> PortsOf(d, Observed)] \in ContextType
    <3>1. FactsFor(LabSpec, d) \subseteq Facts
      BY LabSpecType, FactsForType
    <3>2. PortsOf(d, Observed) \subseteq Ports
      BY InventoryAssumption DEF PortsOf
    <3> QED
      BY <3>1, <3>2 DEF Boundary, ContextType
  <2>2. [d \in Devices |->
            IF d = Vpn THEN NoContext
            ELSE [boundary |-> Boundary(LabSpec, d), facts |-> FactsFor(LabSpec, d),
                  observed |-> PortsOf(d, Observed)]] \in [Devices -> ContextType]
    BY <2>1, NoContextType DEF Devices
  <2>3. [a \in Addresses |-> IF a \in DataPorts THEN a ELSE None] \in [Addresses -> Ports \cup {None}]
    BY DEF Ports
  <2>4. Lab \subseteq Devices /\ DataPorts \subseteq Ports
    BY DEF Devices, Ports
  <2> QED
    BY <1>1, <2>2, <2>3, <2>4 DEF SeededNetBox, EmptyNetBox, NetBoxType
<1>3. runs \in 0..MaxRuns
  BY MaxRunsAssumption DEF Init
<1> QED
  BY <1>1, <1>2, <1>3, LabSpecType, NoDeviceType DEF Init, Typed

LEMMA NetBoxTyped ==
  ASSUME Typed, netbox' \in NetBoxType, seen' \in [Operators -> ObjectType],
         clean' \subseteq Operators,
         UNCHANGED <<spec, copy, script, runs, alone>>
  PROVE  Typed'
BY DEF Typed

LEMMA PutTyped ==
  ASSUME Typed, NEW p \in Operators, NEW nb \in NetBoxType, Put(p, nb)
  PROVE  Typed'
BY DEF Put, Done, Continue, ledgers, Typed

LEMMA StartTyped ==
  ASSUME Typed, NEW p \in Operators, NEW s \in Scripts, Start(p, s)
  PROVE  Typed'
BY MaxRunsAssumption DEF Typed, Start

LEMMA StopTyped ==
  ASSUME Typed, NEW p \in Operators, Stop(p)
  PROVE  Typed'
BY NoDeviceType, LabSpecType DEF Typed, Stop

LEMMA PassOverTyped ==
  ASSUME Typed, NEW p \in Operators, PassOver(p)
  PROVE  Typed'
BY DEF Typed, PassOver, Continue, ledgers

LEMMA RecordType ==
  ASSUME Typed, NEW d \in Devices
  PROVE  Record(d) \in ObjectType
BY DEF Typed, NetBoxType, Record, ObjectType

LEMMA CreateTyped ==
  ASSUME Typed, NEW p \in Operators, Create(p)
  PROVE  Typed'
<1>1. PICK d \in Devices :
         /\ netbox' = [netbox EXCEPT !.devices = @ \cup {d}]
         /\ seen' = [seen EXCEPT ![p] = Record(d)]
         /\ UNCHANGED <<spec, copy, clean, script, runs, alone>>
  BY DEF Create, Continue, ledgers
<1>2. netbox' \in NetBoxType
  BY <1>1 DEF Typed, NetBoxType
<1> QED
  BY <1>1, <1>2, RecordType DEF Typed

LEMMA FetchTyped ==
  ASSUME Typed, NEW p \in Operators, Fetch(p)
  PROVE  Typed'
<1>1. PICK d \in Devices :
         /\ seen' \in {seen, [seen EXCEPT ![p] = Record(d)]}
         /\ UNCHANGED <<netbox, spec, copy, clean, script, runs, alone>>
  BY DEF Fetch, Continue, ledgers
<1> QED
  BY <1>1, RecordType DEF Typed

LEMMA PortTyped ==
  ASSUME Typed, NEW p \in Operators, Port(p)
  PROVE  Typed'
<1>1. PICK i \in Ports :
         /\ netbox' = [netbox EXCEPT !.ports = @ \cup {i}]
         /\ UNCHANGED <<spec, copy, seen, clean, script, runs, alone>>
  BY DEF Port, Continue, ledgers
<1>2. netbox' \in NetBoxType
  BY <1>1 DEF Typed, NetBoxType
<1> QED
  BY <1>1, <1>2 DEF Typed

LEMMA AttachTyped ==
  ASSUME Typed, NEW p \in Operators, Attach(p)
  PROVE  Typed'
<1>1. PICK i \in netbox.ports :
         /\ netbox' = [netbox EXCEPT !.at[AddressOf(i)] = i]
         /\ seen' = [seen EXCEPT ![p].primary = IF Exists(AddressOf(i)) THEN @ ELSE None]
         /\ UNCHANGED <<spec, copy, clean, script, runs, alone>>
  BY DEF Attach, Done, Continue, ledgers
<1>2. netbox' \in NetBoxType
  BY <1>1 DEF Typed, NetBoxType
<1>3. seen' \in [Operators -> ObjectType]
  BY <1>1 DEF Typed, ObjectType
<1> QED
  BY <1>1, <1>2, <1>3 DEF Typed

LEMMA SaveTyped ==
  ASSUME Typed, NEW p \in Operators, NEW ctx \in ContextType, Save(p, ctx)
  PROVE  Typed'
<1>1. netbox' \in NetBoxType
  BY DEF Typed, NetBoxType, Save
<1>2. [NoDevice EXCEPT !.dev = seen[p].dev] \in ObjectType
  BY NoDeviceType DEF Typed, ObjectType
<1> QED
  BY <1>1, <1>2 DEF Typed, Save, Done, Continue, ledgers

LEMMA ContextTyped ==
  ASSUME Typed, NEW p \in Operators, Replace(p) \/ Merge(p)
  PROVE  Typed'
<1>1. copy[p] \in SpecType /\ seen[p].ctx \in ContextType
  BY DEF Typed, ObjectType
<1> QED
  BY <1>1, FreshType, MergedType, SaveTyped DEF Replace, Merge

LEMMA ElsewhereTyped ==
  ASSUME Typed, NEW p \in Operators, ElsewhereCall(p) \/ Primary(p)
  PROVE  Typed'
<1>0. netbox \in NetBoxType
  BY DEF Typed
<1>1. CASE Find(p) \/ Asns(p)
  BY <1>0, <1>1, PutTyped DEF Find, Asns
<1>2. CASE Address(p)
  <2>1. PICK i \in Ports :
           Put(p, IF Exists(AddressOf(i)) THEN netbox ELSE [netbox EXCEPT !.at[AddressOf(i)] = i])
    BY <1>2 DEF Address
  <2>2. [netbox EXCEPT !.at[AddressOf(i)] = i] \in NetBoxType
    BY <1>0 DEF NetBoxType
  <2> QED
    BY <1>0, <2>1, <2>2, PutTyped
<1>3. CASE Cable(p)
  <2>1. PICK l \in Links \cup {Tunnel} :
           \/ Put(p, netbox)
           \/ Put(p, [netbox EXCEPT !.cables = @ \cup {l}])
    BY <1>3 DEF Cable
  <2>2. [netbox EXCEPT !.cables = @ \cup {l}] \in NetBoxType
    BY <1>0 DEF NetBoxType
  <2> QED
    BY <1>0, <2>1, <2>2, PutTyped
<1>4. CASE Free(p)
  BY <1>0, <1>4, FreedType DEF Free, Continue, ledgers, Typed
<1>5. CASE Drop(p)
  <2>1. PICK i \in Ports :
           Put(p, [Freed(i) EXCEPT !.ports = @ \ {i}, !.cables = {c \in @ : i \notin c}])
    BY <1>5 DEF Drop
  <2>2. [Freed(i) EXCEPT !.ports = @ \ {i}, !.cables = {c \in @ : i \notin c}] \in NetBoxType
    BY <1>0, FreedType DEF NetBoxType
  <2> QED
    BY <2>1, <2>2, PutTyped
<1>6. CASE Catalogue(p) \/ Tenancy(p) \/ AsnRegistry(p) \/ CloudSite(p) \/ Vlans(p)
  <2>1. ASSUME NEW o \in {"catalogue", "tenancy", "asns", "cloud", "vlans"}
        PROVE  Made(o) \in NetBoxType
    BY <1>0, <2>1 DEF NetBoxType, Made
  <2> QED
    BY <1>6, <2>1, PutTyped DEF Catalogue, Tenancy, AsnRegistry, CloudSite, Vlans, Make
<1>7. CASE Rack(p) \/ Tag(p)
  <2>1. ASSUME NEW d \in Placed, NEW label \in {"rack", "tag"}
        PROVE  Labelled(d, label) \in NetBoxType
    <3>1. <<label, d>> \in {"rack", "tag"} \X Devices
      BY InventoryAssumption DEF Devices
    <3> QED
      BY <1>0, <3>1 DEF NetBoxType, Labelled
  <2> QED
    BY <1>7, <2>1, PutTyped DEF Rack, Tag
<1>8. CASE Session(p)
  <2>1. PICK l \in Sessions : Put(p, [netbox EXCEPT !.sessions = @ \cup {l}])
    BY <1>8 DEF Session
  <2>2. [netbox EXCEPT !.sessions = @ \cup {l}] \in NetBoxType
    BY <1>0 DEF NetBoxType
  <2> QED
    BY <2>1, <2>2, PutTyped
<1>9. CASE Primary(p)
  <2>1. PICK d \in Lab : Put(p, netbox) \/ Put(p, [netbox EXCEPT !.primary[d] = Mgmt(d)])
    BY <1>9 DEF Primary
  <2>2. [netbox EXCEPT !.primary[d] = Mgmt(d)] \in NetBoxType
    BY <1>0 DEF NetBoxType, Addresses
  <2> QED
    BY <1>0, <2>1, <2>2, PutTyped
<1> QED
  BY <1>1, <1>2, <1>3, <1>4, <1>5, <1>6, <1>7, <1>8, <1>9 DEF ElsewhereCall

LEMMA PlanningTyped ==
  ASSUME Typed, NEW p \in Operators, Orphans(p) \/ Peers(p)
  PROVE  Typed'
BY DEF Typed, Orphans, Peers, Continue, ledgers

LEMMA ReadTyped ==
  ASSUME Typed, NEW p \in Operators, NEW op, NEW k \in SpecType, Read(p, op, k)
  PROVE  Typed'
BY DEF Typed, Read, Continue, ledgers

LEMMA GeneratorTyped ==
  ASSUME Typed, NEW p \in Operators,
         \/ ReadDevices(p) \/ ReadInterfaces(p) \/ ReadAddresses(p) \/ ReadCables(p)
         \/ Write(p)
  PROVE  Typed'
<1>0. copy[p] \in SpecType /\ netbox \in NetBoxType
  BY DEF Typed
<1>1. CASE ReadDevices(p)
  BY <1>0, <1>1, InventoryType, ReadTyped DEF ReadDevices
<1>2. CASE ReadInterfaces(p)
  <2>1. [copy[p] EXCEPT !.ports = {i \in netbox.ports : i[1] \in copy[p].devices}] \in SpecType
    BY <1>0 DEF SpecType, NetBoxType
  <2> QED
    BY <1>2, <2>1, ReadTyped DEF ReadInterfaces
<1>3. CASE ReadAddresses(p)
  <2>1. [copy[p] EXCEPT !.addressed = {i \in copy[p].ports : AddressesOn(i) # {}}] \in SpecType
    BY <1>0 DEF SpecType
  <2> QED
    BY <1>3, <2>1, ReadTyped DEF ReadAddresses
<1>4. CASE ReadCables(p)
  <2> DEFINE peers == copy[p].ports \cap UNION netbox.cables
  <2>1. [copy[p] EXCEPT !.ports = copy[p].addressed \cup peers,
                        !.links = {c \in netbox.cables : c \cap peers # {}}] \in SpecType
    BY <1>0 DEF SpecType, NetBoxType
  <2> QED
    BY <1>4, <2>1, ReadTyped DEF ReadCables
<1>5. CASE Write(p)
  BY <1>0, <1>5 DEF Typed, Write, Continue, ledgers
<1> QED
  BY <1>1, <1>2, <1>3, <1>4, <1>5

LEMMA StepTyped == Typed /\ [Next]_vars => Typed'
<1> SUFFICES ASSUME Typed, [Next]_vars PROVE Typed'
  OBVIOUS
<1>1. CASE UNCHANGED vars
  BY <1>1 DEF Typed, vars, ledgers
<1>2. ASSUME NEW p \in Operators, Call(p) PROVE Typed'
  BY <1>2, CreateTyped, FetchTyped, PortTyped, AttachTyped, ContextTyped,
     ElsewhereTyped, PlanningTyped, GeneratorTyped
  DEF Call, ElsewhereCall
<1> QED
  BY <1>1, <1>2, StartTyped, StopTyped, PassOverTyped DEF Next

\* Whatever the scripts leave in NetBox and the generator makes of it is
\* inventory of the laboratory: the types of the whole state.
THEOREM TypeCorrect == Spec => []TypeOK
BY InitTyped, StepTyped, TypedOK, PTL DEF Spec
-----------------------------------------------------------------------------
(* What a script with spec k in hand may have ahead while it is at device  *)
(* d, and in which order.                                                  *)

Managing(i) == {Step("port", i), Step("attach", i), Step("primary", None)}
Wants(s, k, d) ==
    CASE s = "populate" ->
            {Step("make", "catalogue"), Step("replace", None)}
                \cup {Step("create", x) : x \in k.devices \ {Vpn}}
                \cup {Step("port", i) : i \in k.ports}
                \cup {Step("address", i) : i \in k.addressed}
                \cup {Step("cable", l) : l \in k.links}
      [] s = "enterprise" ->
            {Step("make", "tenancy"), Step("make", "asns"), Step("vlans", None)}
                \cup {Step("rack", x) : x \in Placed} \cup {Step("tag", x) : x \in Placed}
      [] s = "contexts" -> {Step("fetch", x) : x \in k.devices} \cup {Step("merge", None)}
      [] s = "sync" ->
            {Step("fetch", x) : x \in Lab} \cup (IF d \in Lab THEN Managing(SyncPort(d)) ELSE {})
      [] s = "enrich" ->
            {Step("fetch", x) : x \in k.devices} \cup {Step("merge", None), Step("orphans", None)}
                \cup (IF d \in Lab THEN Managing(EnrichPort(d)) ELSE {})
                \cup {Step("free", i) : i \in {j \in Ports \ k.ports : j # EnrichPort(j[1])}}
                \cup {Step("drop", i) : i \in {j \in Ports \ k.ports : j # EnrichPort(j[1])}}
      [] s = "bgp" ->
            {Step("asns", None), Step("peers", None)} \cup {Step("session", l) : l \in Sessions}
      [] s = "seed" ->
            {Step("make", "cloud"), Step("create", Vpn), Step("port", Tun0), Step("find", Ce),
             Step("port", Tunnel0), Step("cable", Tunnel), Step("fetch", Ce), Step("fetch", Vpn)}
                \cup (IF d \in {Ce, Vpn} THEN {Step("merge", None)} ELSE {})
      [] s = "generate" ->
            {Step("devices", None), Step("interfaces", None), Step("addresses", None),
             Step("cables", None), Step("write", None)}
      [] OTHER -> {}

\* The steps that may follow op.
Later(s, op) ==
    CASE s = "populate" ->
            IF op \in {"port", "address"} THEN {"port", "address", "replace", "create", "cable"}
            ELSE IF op = "cable" THEN {"cable"} ELSE {"create", "cable"}
      [] s = "sync" ->
            IF op = "port" THEN {"attach", "primary", "fetch"}
            ELSE IF op = "attach" THEN {"primary", "fetch"} ELSE {"fetch"}
      [] s = "enrich" ->
            IF op = "port" THEN {"attach", "primary", "merge", "orphans", "fetch"}
            ELSE IF op = "attach" THEN {"primary", "merge", "orphans", "fetch"}
            ELSE IF op = "primary" THEN {"merge", "orphans", "fetch"}
            ELSE IF op = "merge" THEN {"orphans", "fetch"}
            ELSE IF op \in {"free", "drop"} THEN {"free", "fetch"} ELSE {"fetch"}
      [] s = "contexts" -> {"fetch"}
      [] s = "seed" ->
            IF op \in {"cable", "fetch", "merge"} THEN {"fetch"} ELSE Ops \ {"merge"}
      [] s = "generate" ->
            IF op = "devices" THEN {"interfaces", "addresses", "cables", "write"}
            ELSE IF op = "interfaces" THEN {"addresses", "cables", "write"}
            ELSE IF op = "addresses" THEN {"cables", "write"}
            ELSE IF op = "cables" THEN {"write"} ELSE {}
      [] OTHER -> Ops

InOrder(s, q) == \A m, n \in 1..Len(q) : m < n => q[n].op \in Later(s, q[m].op)

PlanInv ==
    /\ todo \in [Operators -> Seq(Steps)]
    /\ \A p \in Operators :
        /\ Idle(p) => todo[p] = <<>>
        /\ ToSet(todo[p]) \subseteq Wants(script[p], copy[p], seen[p].dev)
        /\ InOrder(script[p], todo[p])

LEMMA TailInOrder ==
  ASSUME NEW s, NEW q \in Seq(Steps), q # <<>>, InOrder(s, q)
  PROVE  /\ Tail(q) \in Seq(Steps) /\ InOrder(s, Tail(q))
         /\ \A st \in ToSet(Tail(q)) : st.op \in Later(s, Head(q).op)
<1>1. Tail(q) \in Seq(Steps) /\ Len(Tail(q)) = Len(q) - 1 /\ Len(q) \in Nat \ {0}
      /\ \A n \in 1..Len(Tail(q)) : Tail(q)[n] = q[n + 1]
  BY HeadTailProperties, EmptySeq
<1>2. ASSUME NEW m \in 1..Len(Tail(q)), NEW n \in 1..Len(Tail(q)), m < n
      PROVE  Tail(q)[n].op \in Later(s, Tail(q)[m].op)
  <2>1. m + 1 \in 1..Len(q) /\ n + 1 \in 1..Len(q) /\ m + 1 < n + 1
    BY <1>1, <1>2
  <2> QED
    BY <1>1, <2>1 DEF InOrder
<1>3. ASSUME NEW n \in 1..Len(Tail(q)) PROVE Tail(q)[n].op \in Later(s, q[1].op)
  <2>1. 1 \in 1..Len(q) /\ n + 1 \in 1..Len(q) /\ 1 < n + 1
    BY <1>1, <1>3
  <2> QED
    BY <1>1, <2>1 DEF InOrder
<1>4. DOMAIN Tail(q) = 1..Len(Tail(q)) /\ Head(q) = q[1]
  BY <1>1, LenProperties
<1> QED
  BY <1>1, <1>2, <1>3, <1>4 DEF InOrder, ToSet

LEMMA BothInOrder ==
  ASSUME NEW s, NEW a \in Seq(Steps), NEW b \in Seq(Steps), InOrder(s, a), InOrder(s, b),
         \A x \in ToSet(a), y \in ToSet(b) : y.op \in Later(s, x.op)
  PROVE  InOrder(s, a \o b)
<1>1. a \o b \in Seq(Steps) /\ Len(a \o b) = Len(a) + Len(b)
      /\ \A n \in 1..(Len(a) + Len(b)) : (a \o b)[n] = IF n <= Len(a) THEN a[n] ELSE b[n - Len(a)]
  BY ConcatProperties
<1>2. Len(a) \in Nat /\ Len(b) \in Nat /\ DOMAIN a = 1..Len(a) /\ DOMAIN b = 1..Len(b)
  BY LenProperties
<1> SUFFICES ASSUME NEW m \in 1..(Len(a) + Len(b)), NEW n \in 1..(Len(a) + Len(b)), m < n
             PROVE  (a \o b)[n].op \in Later(s, (a \o b)[m].op)
  BY <1>1 DEF InOrder
<1>3. CASE n <= Len(a)
  <2>1. m \in 1..Len(a) /\ n \in 1..Len(a) /\ m <= Len(a)
    BY <1>2, <1>3
  <2> QED
    BY <1>1, <1>3, <2>1 DEF InOrder
<1>4. CASE m <= Len(a) /\ ~(n <= Len(a))
  <2>1. m \in 1..Len(a) /\ n - Len(a) \in 1..Len(b)
    BY <1>2, <1>4
  <2>2. a[m] \in ToSet(a) /\ b[n - Len(a)] \in ToSet(b)
    BY <1>2, <2>1 DEF ToSet
  <2> QED
    BY <1>1, <1>4, <2>2
<1>5. CASE ~(m <= Len(a))
  <2>1. /\ m - Len(a) \in 1..Len(b) /\ n - Len(a) \in 1..Len(b)
        /\ m - Len(a) < n - Len(a) /\ ~(n <= Len(a))
    BY <1>2, <1>5
  <2> QED
    BY <1>1, <1>5, <2>1 DEF InOrder
<1> QED
  BY <1>2, <1>3, <1>4, <1>5

LEMMA NothingInOrder == \A s : InOrder(s, <<>>)
BY EmptySeq DEF InOrder

LEMMA OneInOrder == \A s : \A st \in Steps : InOrder(s, <<st>>)
BY DEF InOrder

\* Steps of one kind that may follow one another.
LEMMA LikeInOrder ==
  ASSUME NEW s, NEW q \in Seq(Steps),
         \A x, y \in ToSet(q) : y.op \in Later(s, x.op)
  PROVE  InOrder(s, q)
<1>1. Len(q) \in Nat /\ DOMAIN q = 1..Len(q)
  BY LenProperties
<1> QED
  BY <1>1 DEF InOrder, ToSet

LEMMA EachInOrder ==
  ASSUME NEW s, NEW op \in Ops, op \in Later(s, op), NEW S, S \subseteq Things, IsFiniteSet(S)
  PROVE  InOrder(s, Each(op, S))
<1>1. Each(op, S) \in Seq(Steps) /\ ToSet(Each(op, S)) = {Step(op, x) : x \in S}
  BY EachAhead
<1>2. \A x \in S : Step(op, x).op = op
  BY DEF Step
<1> QED
  BY <1>1, <1>2, LikeInOrder

-----------------------------------------------------------------------------
(* There are finitely many things.                                         *)

LEMMA FiniteThings ==
  /\ IsFiniteSet(Devices) /\ IsFiniteSet(Placed) /\ IsFiniteSet(Ports)
  /\ IsFiniteSet(Sessions \cup {Tunnel})
<1>1. IsFiniteSet(Devices)
  BY FiniteAssumption, FS_AddElement DEF Devices
<1>2. IsFiniteSet(Placed)
  BY FiniteAssumption, InventoryAssumption, FS_Subset
<1>3. IsFiniteSet(UNION Links)
  <2>1. ASSUME NEW l \in Links PROVE IsFiniteSet(l)
    <3>1. PICK i \in l, j \in l : l = {i, j}
      BY LinksAssumption
    <3>2. IsFiniteSet({i}) /\ IsFiniteSet({i} \cup {j}) /\ {i} \cup {j} = {i, j}
      BY FS_Singleton, FS_AddElement
    <3> QED
      BY <3>1, <3>2
  <2> QED
    BY <2>1, FiniteAssumption, FS_UNION
<1>5. ASSUME NEW T, NEW f \in [Lab -> T], \A t \in T : \E d \in Lab : f[d] = t
      PROVE  IsFiniteSet(T)
  <2>1. f \in Surjection(Lab, T)
    BY <1>5 DEF Surjection
  <2> QED
    BY <2>1, FiniteAssumption, FS_Surjection
<1>6. IsFiniteSet({SyncPort(d) : d \in Lab})
  BY <1>5, [d \in Lab |-> SyncPort(d)] \in [Lab -> {SyncPort(d) : d \in Lab}]
<1>7. IsFiniteSet({EnrichPort(d) : d \in Lab})
  BY <1>5, [d \in Lab |-> EnrichPort(d)] \in [Lab -> {EnrichPort(d) : d \in Lab}]
<1>4. IsFiniteSet(DataPorts) /\ IsFiniteSet(Loopbacks)
  <2>1. IsFiniteSet({Loopback(d) : d \in Lab})
    BY <1>5, [d \in Lab |-> Loopback(d)] \in [Lab -> {Loopback(d) : d \in Lab}]
  <2>2. Loopbacks \subseteq {Loopback(d) : d \in Lab}
    BY OverlayAssumption DEF Loopbacks
  <2>3. IsFiniteSet(Loopbacks)
    BY <2>1, <2>2, FS_Subset
  <2>4. IsFiniteSet((UNION Links) \cup Loopbacks)
    BY <1>3, <2>3, FS_Union
  <2> QED
    BY <2>3, <2>4 DEF DataPorts
<1>11. IsFiniteSet(Sessions \cup {Tunnel})
  <2>1. IsFiniteSet(SUBSET Loopbacks)
    BY <1>4, FS_SUBSET
  <2>2. IsFiniteSet(Overlay)
    BY <2>1, OverlayAssumption, FS_Subset
  <2>3. IsFiniteSet(Sessions)
    BY <2>2, FiniteAssumption, FS_Union DEF Sessions
  <2> QED
    BY <2>3, FS_AddElement
<1>8. IsFiniteSet(MgmtPorts)
  BY <1>6, <1>7, FS_Union DEF MgmtPorts
<1>9. IsFiniteSet(Tunnel)
  <2>1. IsFiniteSet({Tunnel0}) /\ IsFiniteSet({Tunnel0} \cup {Tun0})
        /\ {Tunnel0} \cup {Tun0} = {Tunnel0, Tun0}
    BY FS_Singleton, FS_AddElement
  <2> QED
    BY <2>1 DEF Tunnel
<1>10. IsFiniteSet(Ports)
  <2>1. IsFiniteSet(DataPorts \cup MgmtPorts)
    BY <1>4, <1>8, FS_Union
  <2> QED
    BY <1>9, <2>1, FS_Union DEF Ports
<1> QED
  BY <1>1, <1>2, <1>10, <1>11

LEMMA FiniteParts ==
  ASSUME NEW S, \/ S \subseteq Devices \/ S \subseteq Ports \/ S \subseteq Links \cup {Tunnel}
                \/ S \subseteq Sessions
  PROVE  IsFiniteSet(S) /\ S \subseteq Things
BY FiniteThings, FS_Subset DEF Things, Sessions
-----------------------------------------------------------------------------
(* The plans.                                                              *)

LEMMA PopulatePlan ==
  ASSUME NEW k \in SpecType
  PROVE  LET q == Plan("populate", k)
         IN  /\ q \in Seq(Steps) /\ InOrder("populate", q)
             /\ ToSet(q) = {Step("make", "catalogue")} \cup {Step("create", x) : x \in k.devices \ {Vpn}}
                              \cup {Step("cable", l) : l \in k.links}
<1> DEFINE a == <<Step("make", "catalogue")>>
           b == Each("create", k.devices \ {Vpn})
           c == Each("cable", k.links)
<1>0. Plan("populate", k) = a \o b \o c
  BY DEF Plan
<1>1. Step("make", "catalogue") \in Steps
  BY StepType DEF Ops, Things
<1>2. a \in Seq(Steps) /\ ToSet(a) = {Step("make", "catalogue")} /\ InOrder("populate", a)
  BY <1>1, OneAhead, OneInOrder
<1>3. /\ b \in Seq(Steps) /\ ToSet(b) = {Step("create", x) : x \in k.devices \ {Vpn}}
      /\ InOrder("populate", b)
  <2>1. "create" \in Ops /\ "create" \in Later("populate", "create")
    BY DEF Ops, Later
  <2>2. IsFiniteSet(k.devices \ {Vpn}) /\ k.devices \ {Vpn} \subseteq Things
    BY FiniteParts DEF SpecType
  <2> QED
    BY <2>1, <2>2, EachAhead, EachInOrder
<1>4. /\ c \in Seq(Steps) /\ ToSet(c) = {Step("cable", l) : l \in k.links}
      /\ InOrder("populate", c)
  <2>1. "cable" \in Ops /\ "cable" \in Later("populate", "cable")
    BY DEF Ops, Later
  <2>2. IsFiniteSet(k.links) /\ k.links \subseteq Things
    BY FiniteParts DEF SpecType
  <2> QED
    BY <2>1, <2>2, EachAhead, EachInOrder
<1>5. "create" \in Later("populate", "make") /\ "cable" \in Later("populate", "make")
      /\ "cable" \in Later("populate", "create")
  BY DEF Later
<1>6. \A op, on : Step(op, on).op = op
  BY DEF Step
<1>7. /\ a \o b \in Seq(Steps) /\ ToSet(a \o b) = ToSet(a) \cup ToSet(b)
      /\ InOrder("populate", a \o b)
  <2>1. \A x \in ToSet(a), y \in ToSet(b) : y.op \in Later("populate", x.op)
    BY <1>2, <1>3, <1>5, <1>6
  <2> HIDE DEF a, b
  <2> QED
    BY <1>2, <1>3, <2>1, AheadOfBoth, BothInOrder
<1>8. /\ a \o b \o c \in Seq(Steps) /\ ToSet(a \o b \o c) = ToSet(a \o b) \cup ToSet(c)
      /\ InOrder("populate", a \o b \o c)
  <2>1. \A x \in ToSet(a \o b), y \in ToSet(c) : y.op \in Later("populate", x.op)
    BY <1>2, <1>3, <1>4, <1>5, <1>6, <1>7
  <2> HIDE DEF a, b, c
  <2> QED
    BY <1>4, <1>7, <2>1, AheadOfBoth, BothInOrder
<1> QED
  BY <1>0, <1>2, <1>3, <1>4, <1>7, <1>8

LEMMA EnterprisePlan ==
  ASSUME NEW k \in SpecType
  PROVE  LET q == Plan("enterprise", k)
         IN  /\ q \in Seq(Steps) /\ InOrder("enterprise", q)
             /\ ToSet(q) = {Step("make", "tenancy"), Step("make", "asns"), Step("vlans", None)}
                    \cup {Step("rack", x) : x \in Placed} \cup {Step("tag", x) : x \in Placed}
<1> DEFINE a == <<Step("make", "tenancy")>>
           b == Each("rack", Placed)
           c == <<Step("make", "asns"), Step("vlans", None)>>
           d == Each("tag", Placed)
<1>0. Plan("enterprise", k) = a \o b \o c \o d
  BY DEF Plan
<1>1. Step("make", "tenancy") \in Steps /\ Step("make", "asns") \in Steps /\ Step("vlans", None) \in Steps
  BY StepType DEF Ops, Things
<1>2. a \in Seq(Steps) /\ ToSet(a) = {Step("make", "tenancy")}
  BY <1>1, OneAhead
<1>3. IsFiniteSet(Placed) /\ Placed \subseteq Things /\ "rack" \in Ops /\ "tag" \in Ops
  BY FiniteThings, InventoryAssumption DEF Things, Devices, Ops
<1>4. b \in Seq(Steps) /\ ToSet(b) = {Step("rack", x) : x \in Placed}
  BY <1>3, EachAhead
<1>5. c \in Seq(Steps) /\ ToSet(c) = {Step("make", "asns"), Step("vlans", None)}
  BY <1>1 DEF ToSet
<1>6. d \in Seq(Steps) /\ ToSet(d) = {Step("tag", x) : x \in Placed}
  BY <1>3, EachAhead
<1>7. a \o b \in Seq(Steps) /\ ToSet(a \o b) = ToSet(a) \cup ToSet(b)
  BY <1>2, <1>4, AheadOfBoth
<1>8. a \o b \o c \in Seq(Steps) /\ ToSet(a \o b \o c) = ToSet(a \o b) \cup ToSet(c)
  BY <1>5, <1>7, AheadOfBoth
<1>9. a \o b \o c \o d \in Seq(Steps) /\ ToSet(a \o b \o c \o d) = ToSet(a \o b \o c) \cup ToSet(d)
  BY <1>6, <1>8, AheadOfBoth
<1>10. InOrder("enterprise", a \o b \o c \o d)
  <2>1. \A x \in Steps : x.op \in Ops
    BY DEF Steps
  <2>2. ToSet(a \o b \o c \o d) \subseteq Steps
    BY <1>9, LenProperties DEF ToSet
  <2>3. \A op \in Ops : Later("enterprise", op) = Ops
    BY DEF Later
  <2> QED
    BY <1>9, <2>1, <2>2, <2>3, LikeInOrder
<1> QED
  BY <1>0, <1>2, <1>4, <1>5, <1>6, <1>7, <1>8, <1>9, <1>10

LEMMA FetchPlan ==
  ASSUME NEW k \in SpecType, NEW s \in {"contexts", "enrich", "sync"}
  PROVE  LET q == Plan(s, k)
             S == IF s = "sync" THEN Lab ELSE k.devices
         IN  q \in Seq(Steps) /\ InOrder(s, q) /\ ToSet(q) = {Step("fetch", x) : x \in S}
<1> DEFINE S == IF s = "sync" THEN Lab ELSE k.devices
<1>1. Plan(s, k) = Each("fetch", S)
  BY DEF Plan
<1>2. IsFiniteSet(S) /\ S \subseteq Things
  BY FiniteParts DEF SpecType, Devices
<1>3. "fetch" \in Ops /\ "fetch" \in Later(s, "fetch")
  BY DEF Ops, Later
<1> QED
  BY <1>1, <1>2, <1>3, EachAhead, EachInOrder

LEMMA BgpPlan ==
  ASSUME NEW k
  PROVE  LET q == Plan("bgp", k)
         IN  /\ q \in Seq(Steps) /\ InOrder("bgp", q)
             /\ ToSet(q) = {Step("asns", None), Step("peers", None)}
<1>1. Step("asns", None) \in Steps /\ Step("peers", None) \in Steps
  BY StepType DEF Ops, Things
<1>2. Plan("bgp", k) = <<Step("asns", None), Step("peers", None)>>
  BY DEF Plan
<1>3. \A op \in Ops : Later("bgp", op) = Ops
  BY DEF Later
<1>4. \A x \in Steps : x.op \in Ops
  BY DEF Steps
<1> DEFINE a == <<Step("asns", None), Step("peers", None)>>
<1>5. a \in Seq(Steps) /\ ToSet(a) = {Step("asns", None), Step("peers", None)}
  <2>1. a \in Seq(Steps) /\ DOMAIN a = 1..2
    BY <1>1
  <2>2. \A n \in 1..2 : n \in {1, 2}
    OBVIOUS
  <2> QED
    BY <2>1, <2>2 DEF ToSet
<1>6. InOrder("bgp", a)
  BY <1>1, <1>3, <1>4, <1>5, LikeInOrder
<1> QED
  BY <1>2, <1>5, <1>6

LEMMA SeedPlan ==
  ASSUME NEW k
  PROVE  LET q == Plan("seed", k)
         IN  /\ q \in Seq(Steps) /\ InOrder("seed", q)
             /\ ToSet(q) = {Step("make", "cloud"), Step("create", Vpn), Step("port", Tun0),
                            Step("find", Ce), Step("port", Tunnel0), Step("cable", Tunnel),
                            Step("fetch", Ce), Step("fetch", Vpn)}
<1> DEFINE a == <<Step("make", "cloud"), Step("create", Vpn), Step("port", Tun0), Step("find", Ce),
                  Step("port", Tunnel0), Step("cable", Tunnel), Step("fetch", Ce), Step("fetch", Vpn)>>
<1>0. Plan("seed", k) = a
  BY DEF Plan
<1>1. /\ Step("make", "cloud") \in Steps /\ Step("create", Vpn) \in Steps
      /\ Step("port", Tun0) \in Steps /\ Step("find", Ce) \in Steps
      /\ Step("port", Tunnel0) \in Steps /\ Step("cable", Tunnel) \in Steps
      /\ Step("fetch", Ce) \in Steps /\ Step("fetch", Vpn) \in Steps
  BY StepType, TunnelPorts DEF Ops, Things
<1>2. a \in Seq(Steps) /\ Len(a) = 8 /\ DOMAIN a = 1..8
  BY <1>1
<1>3. ToSet(a) = {a[n] : n \in 1..8}
  BY <1>2 DEF ToSet
<1>4. \A n \in 1..8 : n \in {1, 2, 3, 4, 5, 6, 7, 8}
  OBVIOUS
<1>5. ToSet(a) = {a[1], a[2], a[3], a[4], a[5], a[6], a[7], a[8]}
  BY <1>3, <1>4
<1>6. ASSUME NEW m \in 1..8, NEW n \in 1..8, m < n PROVE a[n].op \in Later("seed", a[m].op)
  <2>1. m \in 1..5 \/ (m \in {6, 7} /\ n \in {7, 8})
    BY <1>6
  <2>2. \A j \in 1..8 : a[j].op \in Ops \ {"merge"}
    BY <1>4 DEF Step, Ops
  <2>3. \A j \in 1..5 : a[j].op \notin {"cable", "fetch", "merge"}
    BY <1>4 DEF Step
  <2>4. CASE m \in 1..5
    BY <2>2, <2>3, <2>4 DEF Later
  <2>5. CASE m \in {6, 7} /\ n \in {7, 8}
    BY <2>5 DEF Later, Step
  <2> QED
    BY <2>1, <2>4, <2>5
<1> QED
  BY <1>0, <1>2, <1>5, <1>6 DEF InOrder

LEMMA GeneratePlan ==
  ASSUME NEW k
  PROVE  LET q == Plan("generate", k)
         IN  /\ q \in Seq(Steps) /\ InOrder("generate", q)
             /\ ToSet(q) = {Step("devices", None), Step("interfaces", None),
                            Step("addresses", None), Step("cables", None), Step("write", None)}
<1> DEFINE a == <<Step("devices", None), Step("interfaces", None), Step("addresses", None),
                  Step("cables", None), Step("write", None)>>
<1>0. Plan("generate", k) = a
  BY DEF Plan
<1>1. /\ Step("devices", None) \in Steps /\ Step("interfaces", None) \in Steps
      /\ Step("addresses", None) \in Steps /\ Step("cables", None) \in Steps
      /\ Step("write", None) \in Steps
  BY StepType DEF Ops, Things
<1>2. a \in Seq(Steps) /\ Len(a) = 5 /\ DOMAIN a = 1..5
  BY <1>1
<1>3. \A n \in 1..5 : n \in {1, 2, 3, 4, 5}
  OBVIOUS
<1>4. ToSet(a) = {a[1], a[2], a[3], a[4], a[5]}
  BY <1>2, <1>3 DEF ToSet
<1>5. ASSUME NEW m \in 1..5, NEW n \in 1..5, m < n PROVE a[n].op \in Later("generate", a[m].op)
  <2>1. \/ (m = 1 /\ n \in {2, 3, 4, 5}) \/ (m = 2 /\ n \in {3, 4, 5})
        \/ (m = 3 /\ n \in {4, 5}) \/ (m = 4 /\ n = 5)
    <3> HIDE DEF a
    <3> QED
      BY <1>3, <1>5
  <2> QED
    BY <2>1 DEF Later, Step
<1> QED
  BY <1>0, <1>2, <1>4, <1>5 DEF InOrder

\* Every script begins with steps it may have, in their order.
LEMMA PlanFits ==
  ASSUME NEW s \in Scripts, NEW k \in SpecType, NEW d
  PROVE  /\ Plan(s, k) \in Seq(Steps) /\ InOrder(s, Plan(s, k))
         /\ ToSet(Plan(s, k)) \subseteq Wants(s, k, d)
<1>1. CASE s = "populate"
  BY <1>1, PopulatePlan DEF Wants
<1>2. CASE s = "enterprise"
  BY <1>2, EnterprisePlan DEF Wants
<1>3. CASE s \in {"contexts", "enrich", "sync"}
  BY <1>3, FetchPlan DEF Wants
<1>4. CASE s = "bgp"
  BY <1>4, BgpPlan DEF Wants
<1>5. CASE s = "seed"
  BY <1>5, SeedPlan DEF Wants
<1>6. CASE s = "generate"
  BY <1>6, GeneratePlan DEF Wants
<1> QED
  BY <1>1, <1>2, <1>3, <1>4, <1>5, <1>6 DEF Scripts
-----------------------------------------------------------------------------
(* What a script adds to its plan as it goes.                              *)

\* What is added once the device object is in hand.
AtDevice(s, k, d) ==
    CASE s = "populate" -> {Step("port", i) : i \in PortsOf(d, k.ports)} \cup {Step("replace", None)}
      [] s = "sync" -> Managing(SyncPort(d))
      [] s = "enrich" -> (IF d \in Lab THEN Managing(EnrichPort(d)) ELSE {})
                            \cup {Step("merge", None), Step("orphans", None)}
      [] OTHER -> {Step("merge", None)}

LEMMA ManageFits ==
  ASSUME NEW s \in {"sync", "enrich"}, NEW i \in Ports
  PROVE  Manage(i) \in Seq(Steps) /\ ToSet(Manage(i)) = Managing(i) /\ InOrder(s, Manage(i))
<1> DEFINE a == <<Step("port", i), Step("attach", i), Step("primary", None)>>
<1>0. Manage(i) = a
  BY DEF Manage
<1>1. Step("port", i) \in Steps /\ Step("attach", i) \in Steps /\ Step("primary", None) \in Steps
  BY StepType DEF Ops, Things
<1>2. a \in Seq(Steps) /\ DOMAIN a = 1..3 /\ Len(a) = 3
  BY <1>1
<1>3. \A n \in 1..3 : n \in {1, 2, 3}
  OBVIOUS
<1>4. ToSet(a) = {a[1], a[2], a[3]}
  BY <1>2, <1>3 DEF ToSet
<1>5. ASSUME NEW m \in 1..3, NEW n \in 1..3, m < n PROVE a[n].op \in Later(s, a[m].op)
  <2>1. (m = 1 /\ n \in {2, 3}) \/ (m = 2 /\ n = 3)
    <3> HIDE DEF a
    <3> QED
      BY <1>3, <1>5
  <2> QED
    BY <2>1 DEF Later, Step
<1> QED
  BY <1>0, <1>2, <1>4, <1>5 DEF Managing, InOrder

LEMMA DeviceStepsFit ==
  ASSUME NEW s \in {"populate", "sync", "enrich", "contexts", "seed"}, NEW k \in SpecType,
         NEW d \in Devices, s = "sync" => d \in Lab, s = "seed" => d \in {Ce, Vpn}
  PROVE  /\ DeviceSteps(s, k, d) \in Seq(Steps) /\ InOrder(s, DeviceSteps(s, k, d))
         /\ ToSet(DeviceSteps(s, k, d)) = AtDevice(s, k, d)
         /\ AtDevice(s, k, d) \subseteq Wants(s, k, d)
<1>0. /\ Step("replace", None) \in Steps /\ Step("merge", None) \in Steps /\ Step("orphans", None) \in Steps
      /\ \A op, on : Step(op, on).op = op
  BY StepType DEF Ops, Things, Step
<1>1. CASE s = "populate"
  <2> DEFINE a == Each("port", PortsOf(d, k.ports))
             b == <<Step("replace", None)>>
  <2>1. DeviceSteps(s, k, d) = a \o b
    BY <1>1 DEF DeviceSteps
  <2>2. PortsOf(d, k.ports) \subseteq k.ports /\ k.ports \subseteq Ports
    BY DEF PortsOf, SpecType
  <2>3. IsFiniteSet(PortsOf(d, k.ports)) /\ PortsOf(d, k.ports) \subseteq Things
    BY <2>2, FiniteParts
  <2>4. "port" \in Ops /\ "port" \in Later(s, "port") /\ "replace" \in Later(s, "port")
    BY <1>1 DEF Ops, Later
  <2>5. a \in Seq(Steps) /\ ToSet(a) = {Step("port", i) : i \in PortsOf(d, k.ports)} /\ InOrder(s, a)
    BY <2>3, <2>4, EachAhead, EachInOrder
  <2>6. b \in Seq(Steps) /\ ToSet(b) = {Step("replace", None)} /\ InOrder(s, b)
    BY <1>0, OneAhead, OneInOrder
  <2>7. \A x \in ToSet(a), y \in ToSet(b) : y.op \in Later(s, x.op)
    BY <1>0, <2>4, <2>5, <2>6
  <2>8. a \o b \in Seq(Steps) /\ ToSet(a \o b) = ToSet(a) \cup ToSet(b) /\ InOrder(s, a \o b)
    <3> HIDE DEF a, b
    <3> QED
      BY <2>5, <2>6, <2>7, AheadOfBoth, BothInOrder
  <2> QED
    BY <1>1, <2>1, <2>2, <2>5, <2>6, <2>8 DEF AtDevice, Wants
<1>2. CASE s = "sync"
  <2>1. SyncPort(d) \in Ports
    BY <1>2 DEF Ports, MgmtPorts
  <2> QED
    BY <1>2, <2>1, ManageFits DEF DeviceSteps, AtDevice, Wants
<1>3. CASE s = "enrich"
  <2> DEFINE a == IF d \in Lab THEN Manage(EnrichPort(d)) ELSE <<>>
             b == <<Step("merge", None), Step("orphans", None)>>
  <2>1. DeviceSteps(s, k, d) = a \o b
    BY <1>3 DEF DeviceSteps
  <2>2. /\ a \in Seq(Steps) /\ ToSet(a) = (IF d \in Lab THEN Managing(EnrichPort(d)) ELSE {})
        /\ InOrder(s, a)
    <3>1. CASE d \in Lab
      <4>1. EnrichPort(d) \in Ports
        BY <3>1 DEF Ports, MgmtPorts
      <4> QED
        BY <1>3, <3>1, <4>1, ManageFits
    <3>2. CASE d \notin Lab
      BY <3>2, NothingAhead, NothingInOrder
    <3> QED
      BY <3>1, <3>2
  <2>3. b \in Seq(Steps) /\ DOMAIN b = 1..2 /\ Len(b) = 2
    BY <1>0
  <2>4. \A n \in 1..2 : n \in {1, 2}
    OBVIOUS
  <2>5. ToSet(b) = {b[1], b[2]}
    BY <2>3, <2>4 DEF ToSet
  <2>6. InOrder(s, b)
    <3> SUFFICES ASSUME NEW m \in 1..2, NEW n \in 1..2, m < n PROVE b[n].op \in Later(s, b[m].op)
      BY <2>3 DEF InOrder
    <3>1. m = 1 /\ n = 2
      OBVIOUS
    <3> QED
      BY <1>3, <3>1 DEF Later, Step
  <2>7. \A x \in ToSet(a), y \in ToSet(b) : y.op \in Later(s, x.op)
    BY <1>0, <1>3, <2>2, <2>5 DEF Managing, Later
  <2>8. a \o b \in Seq(Steps) /\ ToSet(a \o b) = ToSet(a) \cup ToSet(b) /\ InOrder(s, a \o b)
    <3> HIDE DEF a, b
    <3> QED
      BY <2>2, <2>3, <2>6, <2>7, AheadOfBoth, BothInOrder
  <2> QED
    BY <1>3, <2>1, <2>2, <2>5, <2>8 DEF AtDevice, Wants
<1>4. CASE s \in {"contexts", "seed"}
  <2>1. DeviceSteps(s, k, d) = <<Step("merge", None)>>
    BY <1>4 DEF DeviceSteps
  <2>2. AtDevice(s, k, d) = {Step("merge", None)}
    BY <1>4 DEF AtDevice
  <2>3. Step("merge", None) \in Wants(s, k, d)
    BY <1>4 DEF Wants
  <2> QED
    BY <1>0, <2>1, <2>2, <2>3, OneAhead, OneInOrder
<1> QED
  BY <1>1, <1>2, <1>3, <1>4

-----------------------------------------------------------------------------
(* A call is one of the script that makes it.                              *)

LEMMA Wanted ==
  ASSUME NEW s, NEW k, NEW d, NEW st \in Wants(s, k, d)
  PROVE  /\ st.op = "create" => \/ s = "populate" /\ st.on \in k.devices \ {Vpn}
                                \/ s = "seed" /\ st.on = Vpn
         /\ st.op = "port" => \/ s = "populate" /\ st.on \in k.ports
                              \/ s = "seed" /\ st.on \in Tunnel
                              \/ s = "sync" /\ d \in Lab /\ st.on = SyncPort(d)
                              \/ s = "enrich" /\ d \in Lab /\ st.on = EnrichPort(d)
         /\ st.op = "address" => s = "populate" /\ st.on \in k.addressed
         /\ st.op = "replace" => s = "populate"
         /\ st.op = "cable" => \/ s = "populate" /\ st.on \in k.links
                               \/ s = "seed" /\ st.on = Tunnel
         /\ st.op = "fetch" => \/ s \in {"contexts", "enrich"} /\ st.on \in k.devices
                               \/ s = "sync" /\ st.on \in Lab
                               \/ s = "seed" /\ st.on \in {Ce, Vpn}
         /\ st.op = "merge" => \/ s \in {"contexts", "enrich"}
                               \/ s = "seed" /\ d \in {Ce, Vpn}
         /\ st.op = "attach" => \/ s = "sync" /\ d \in Lab /\ st.on = SyncPort(d)
                                \/ s = "enrich" /\ d \in Lab /\ st.on = EnrichPort(d)
         /\ st.op = "primary" => s \in {"sync", "enrich"} /\ d \in Lab
         /\ st.op = "orphans" => s = "enrich"
         /\ st.op \in {"free", "drop"} =>
                s = "enrich" /\ st.on \in Ports \ k.ports /\ st.on # EnrichPort(st.on[1])
         /\ st.op = "find" => s = "seed" /\ st.on = Ce
         /\ st.op = "make" => \/ s = "populate" /\ st.on = "catalogue"
                              \/ s = "enterprise" /\ st.on \in {"tenancy", "asns"}
                              \/ s = "seed" /\ st.on = "cloud"
         /\ st.op \in {"rack", "tag"} => s = "enterprise" /\ st.on \in Placed
         /\ st.op = "vlans" => s = "enterprise"
         /\ st.op \in {"asns", "peers", "session"} => s = "bgp"
         /\ st.op \in {"devices", "interfaces", "addresses", "cables", "write"} => s = "generate"
<1>1. CASE s = "populate"
  BY <1>1 DEF Wants, Step
<1>2. CASE s = "enterprise"
  BY <1>2 DEF Wants, Step
<1>3. CASE s = "contexts"
  BY <1>3 DEF Wants, Step
<1>4. CASE s = "sync"
  BY <1>4 DEF Wants, Step, Managing
<1>5. CASE s = "enrich"
  BY <1>5 DEF Wants, Step, Managing
<1>6. CASE s = "bgp"
  BY <1>6 DEF Wants, Step
<1>7. CASE s = "seed"
  BY <1>7 DEF Wants, Step, Tunnel
<1>8. CASE s = "generate"
  BY <1>8 DEF Wants, Step
<1>9. CASE s \notin Scripts
  BY <1>9 DEF Wants, Scripts
<1> QED
  BY <1>1, <1>2, <1>3, <1>4, <1>5, <1>6, <1>7, <1>8, <1>9 DEF Scripts

\* The step a call makes, and what is ahead after it.
LEMMA AtHead ==
  ASSUME PlanInv, NEW p \in Operators, todo[p] # <<>>
  PROVE  /\ Head(todo[p]) \in Wants(script[p], copy[p], seen[p].dev)
         /\ Head(todo[p]) \in ToSet(todo[p])
         /\ ToSet(todo[p]) = {Head(todo[p])} \cup ToSet(Tail(todo[p]))
         /\ \A st \in ToSet(Tail(todo[p])) : st.op \in Later(script[p], Head(todo[p]).op)
BY AheadOfHead, TailInOrder DEF PlanInv

LEMMA ContinueFits ==
  ASSUME PlanInv, NEW p \in Operators, todo[p] # <<>>,
         NEW steps \in Seq(Steps), InOrder(script[p], steps), Continue(p, steps),
         \A x \in ToSet(steps) : \A y \in ToSet(Tail(todo[p])) : y.op \in Later(script[p], x.op),
         ToSet(steps) \cup ToSet(Tail(todo[p])) \subseteq Wants(script[p], copy'[p], seen'[p].dev),
         \A q \in Operators \ {p} : copy'[q] = copy[q] /\ seen'[q].dev = seen[q].dev
  PROVE  PlanInv' /\ ToSet(todo'[p]) = ToSet(steps) \cup ToSet(Tail(todo[p]))
<1>1. todo[p] \in Seq(Steps) /\ InOrder(script[p], todo[p]) /\ ~Idle(p)
  BY DEF PlanInv
<1>2. Tail(todo[p]) \in Seq(Steps) /\ InOrder(script[p], Tail(todo[p]))
  BY <1>1, TailInOrder
<1>3. todo' = [todo EXCEPT ![p] = steps \o Tail(todo[p])] /\ script' = script
  BY DEF Continue
<1>4. steps \o Tail(todo[p]) \in Seq(Steps) /\ InOrder(script[p], steps \o Tail(todo[p]))
      /\ ToSet(steps \o Tail(todo[p])) = ToSet(steps) \cup ToSet(Tail(todo[p]))
  BY <1>2, AheadOfBoth, BothInOrder
<1>5. todo' \in [Operators -> Seq(Steps)] /\ todo'[p] = steps \o Tail(todo[p])
      /\ \A q \in Operators \ {p} : todo'[q] = todo[q]
  BY <1>3, <1>4 DEF PlanInv
<1> QED
  BY <1>1, <1>3, <1>4, <1>5 DEF PlanInv, Idle

\* The step is over, the device and the spec are the same.
LEMMA DoneFits ==
  ASSUME PlanInv, NEW p \in Operators, todo[p] # <<>>, Continue(p, <<>>),
         \A q \in Operators : seen'[q].dev = seen[q].dev,
         copy' = copy \/ (script[p] = "generate" /\ \A q \in Operators \ {p} : copy'[q] = copy[q])
  PROVE  PlanInv' /\ ToSet(todo'[p]) = ToSet(Tail(todo[p]))
<1>1. ToSet(Tail(todo[p])) \subseteq Wants(script[p], copy[p], seen[p].dev)
  BY AtHead DEF PlanInv
<1>2. Wants(script[p], copy'[p], seen'[p].dev) = Wants(script[p], copy[p], seen[p].dev)
  BY DEF Wants
<1>3. <<>> \in Seq(Steps) /\ ToSet(<<>>) = {} /\ InOrder(script[p], <<>>)
  BY NothingAhead, NothingInOrder
<1> QED
  BY <1>1, <1>2, <1>3, ContinueFits
-----------------------------------------------------------------------------
(* PlanInv is an invariant.                                                *)

LEMMA InitFits == Init => PlanInv
BY NothingAhead, NothingInOrder DEF Init, PlanInv

LEMMA StartFits ==
  ASSUME Typed, PlanInv, NEW p \in Operators, NEW s \in Scripts, Start(p, s)
  PROVE  PlanInv'
<1>1. spec \in SpecType /\ s # "none"
  BY DEF Typed, Scripts
<1>2. /\ Plan(s, spec) \in Seq(Steps) /\ InOrder(s, Plan(s, spec))
      /\ ToSet(Plan(s, spec)) \subseteq Wants(s, spec, seen[p].dev)
  BY <1>1, PlanFits
<1>3. /\ script' = [script EXCEPT ![p] = s] /\ copy' = [copy EXCEPT ![p] = spec]
      /\ todo' = [todo EXCEPT ![p] = Plan(s, spec)] /\ seen' = seen
  BY DEF Start
<1>4. DOMAIN script = Operators /\ DOMAIN copy = Operators
  BY DEF Typed
<1> QED
  BY <1>1, <1>2, <1>3, <1>4 DEF PlanInv, Idle

LEMMA StopFits ==
  ASSUME Typed, PlanInv, NEW p \in Operators, Stop(p)
  PROVE  PlanInv'
<1>1. /\ script' = [script EXCEPT ![p] = "none"] /\ copy' = [copy EXCEPT ![p] = LabSpec]
      /\ todo' = [todo EXCEPT ![p] = <<>>] /\ seen' = [seen EXCEPT ![p] = NoDevice]
  BY DEF Stop
<1>2. DOMAIN script = Operators /\ DOMAIN copy = Operators /\ DOMAIN seen = Operators
  BY DEF Typed
<1> QED
  BY <1>1, <1>2, NothingAhead, NothingInOrder DEF PlanInv, Idle

LEMMA PassOverFits ==
  ASSUME PlanInv, NEW p \in Operators, PassOver(p)
  PROVE  /\ todo[p] # <<>> /\ PlanInv'
         /\ ToSet(todo'[p]) = ToSet(Tail(todo[p]))
BY DoneFits DEF PassOver, Caught, AtStep

LEMMA PutFits ==
  ASSUME PlanInv, NEW p \in Operators, todo[p] # <<>>, NEW nb, Put(p, nb)
  PROVE  PlanInv' /\ ToSet(todo'[p]) = ToSet(Tail(todo[p]))
BY DoneFits DEF Put, Done

LEMMA SaveFits ==
  ASSUME Typed, PlanInv, NEW p \in Operators, todo[p] # <<>>, NEW ctx, Save(p, ctx)
  PROVE  /\ PlanInv' /\ ToSet(todo'[p]) = ToSet(Tail(todo[p]))
         /\ seen'[p].dev = seen[p].dev
<1>1. seen' = [seen EXCEPT ![p] = [NoDevice EXCEPT !.dev = seen[p].dev]] /\ copy' = copy
      /\ Continue(p, <<>>)
  BY DEF Save, Done
<1>2. \A q \in Operators : seen'[q].dev = seen[q].dev
  BY <1>1 DEF Typed, NoDevice
<1> QED
  BY <1>1, <1>2, DoneFits

LEMMA AttachFits ==
  ASSUME Typed, PlanInv, NEW p \in Operators, Attach(p)
  PROVE  /\ PlanInv' /\ ToSet(todo'[p]) = ToSet(Tail(todo[p]))
         /\ seen'[p].dev = seen[p].dev /\ seen'[p].ctx = seen[p].ctx
<1>1. /\ todo[p] # <<>> /\ Continue(p, <<>>) /\ copy' = copy
      /\ \E v : seen' = [seen EXCEPT ![p].primary = v]
  BY DEF Attach, Done, Doing, AtStep
<1>2. \A q \in Operators : seen'[q].dev = seen[q].dev /\ seen'[q].ctx = seen[q].ctx
  BY <1>1 DEF Typed, ObjectType
<1> QED
  BY <1>1, <1>2, DoneFits

LEMMA CreateFits ==
  ASSUME Typed, PlanInv, NEW p \in Operators, NEW d \in Devices, Doing(p, "create", d), Create(p)
  PROVE  /\ script[p] \in {"populate", "seed"}
         /\ PlanInv'
         /\ seen' = [seen EXCEPT ![p] = Record(d)]
         /\ ToSet(todo'[p]) = ToSet(Tail(todo[p]))
                \cup (IF script[p] = "populate" THEN AtDevice("populate", copy[p], d) ELSE {})
<1>1. /\ todo[p] # <<>> /\ Head(todo[p]).op = "create" /\ Head(todo[p]).on = d
      /\ seen' = [seen EXCEPT ![p] = Record(d)] /\ copy' = copy
      /\ Continue(p, IF script[p] = "populate" THEN DeviceSteps("populate", copy[p], d) ELSE <<>>)
  BY DEF Create, Doing, AtStep
<1>2. script[p] \in {"populate", "seed"}
  BY <1>1, AtHead, Wanted
<1>3. copy[p] \in SpecType /\ DOMAIN seen = Operators /\ seen'[p].dev = d
  BY <1>1 DEF Typed, Record
<1>4. ToSet(Tail(todo[p])) \subseteq Wants(script[p], copy[p], seen[p].dev)
  BY <1>1, AtHead DEF PlanInv
<1>5. CASE script[p] = "populate"
  <2> DEFINE steps == DeviceSteps("populate", copy[p], d)
  <2>1. /\ steps \in Seq(Steps) /\ InOrder("populate", steps)
        /\ ToSet(steps) = AtDevice("populate", copy[p], d)
        /\ AtDevice("populate", copy[p], d) \subseteq Wants("populate", copy[p], d)
    BY <1>3, DeviceStepsFit
  <2>2. \A y \in ToSet(Tail(todo[p])) : y.op \in {"create", "cable"}
    BY <1>1, <1>5, AtHead DEF Later
  <2>3. \A x \in ToSet(steps) : Later("populate", x.op) \in SUBSET Ops /\ {"create", "cable"} \subseteq Later("populate", x.op)
    BY <2>1 DEF AtDevice, Later, Step, Ops
  <2>4. ToSet(Tail(todo[p])) \subseteq Wants("populate", copy'[p], seen'[p].dev)
    BY <1>1, <1>4, <1>5 DEF Wants
  <2> HIDE DEF steps
  <2>5. Continue(p, steps)
    BY <1>1, <1>5 DEF steps
  <2> QED
    BY <1>1, <1>3, <1>5, <2>1, <2>2, <2>3, <2>4, <2>5, ContinueFits
<1>6. CASE script[p] = "seed"
  <2>1. \A y \in ToSet(Tail(todo[p])) : y.op # "merge"
    BY <1>1, <1>6, AtHead DEF Later
  <2>2. ToSet(Tail(todo[p])) \subseteq Wants("seed", copy'[p], seen'[p].dev)
    BY <1>1, <1>4, <1>6, <2>1 DEF Wants, Step
  <2>3. <<>> \in Seq(Steps) /\ ToSet(<<>>) = {} /\ InOrder(script[p], <<>>)
    BY NothingAhead, NothingInOrder
  <2> QED
    BY <1>1, <1>3, <1>6, <2>2, <2>3, ContinueFits
<1> QED
  BY <1>2, <1>5, <1>6

LEMMA FetchFits ==
  ASSUME Typed, PlanInv, NEW p \in Operators, NEW d \in Devices, Doing(p, "fetch", d), Fetch(p)
  PROVE  /\ script[p] \in {"contexts", "enrich", "sync", "seed"}
         /\ PlanInv' /\ \A y \in ToSet(Tail(todo[p])) : y.op = "fetch"
         /\ IF d \in netbox.devices
            THEN /\ seen' = [seen EXCEPT ![p] = Record(d)]
                 /\ ToSet(todo'[p]) = ToSet(Tail(todo[p])) \cup AtDevice(script[p], copy[p], d)
            ELSE seen' = seen /\ ToSet(todo'[p]) = ToSet(Tail(todo[p]))
<1>1. /\ todo[p] # <<>> /\ Head(todo[p]).op = "fetch" /\ Head(todo[p]).on = d /\ copy' = copy
      /\ IF d \in netbox.devices
         THEN seen' = [seen EXCEPT ![p] = Record(d)] /\ Continue(p, DeviceSteps(script[p], copy[p], d))
         ELSE seen' = seen /\ Continue(p, <<>>)
  BY DEF Fetch, Doing, AtStep
<1>2. /\ script[p] \in {"contexts", "enrich", "sync", "seed"}
      /\ script[p] = "sync" => d \in Lab
      /\ script[p] = "seed" => d \in {Ce, Vpn}
  BY <1>1, AtHead, Wanted
<1>3. copy[p] \in SpecType /\ DOMAIN seen = Operators
  BY <1>1 DEF Typed
<1>4. ToSet(Tail(todo[p])) \subseteq Wants(script[p], copy[p], seen[p].dev)
  BY <1>1, AtHead DEF PlanInv
<1>5. \A y \in ToSet(Tail(todo[p])) : y.op = "fetch"
  <2>1. Later(script[p], "fetch") = {"fetch"}
    BY <1>2 DEF Later
  <2> QED
    BY <1>1, <2>1, AtHead
<1>6. CASE d \notin netbox.devices
  BY <1>1, <1>2, <1>5, <1>6, DoneFits
<1>7. CASE d \in netbox.devices
  <2> DEFINE steps == DeviceSteps(script[p], copy[p], d)
  <2>1. /\ steps \in Seq(Steps) /\ InOrder(script[p], steps)
        /\ ToSet(steps) = AtDevice(script[p], copy[p], d)
        /\ AtDevice(script[p], copy[p], d) \subseteq Wants(script[p], copy[p], d)
    BY <1>2, <1>3, DeviceStepsFit
  <2>2. seen' = [seen EXCEPT ![p] = Record(d)] /\ seen'[p].dev = d
    BY <1>1, <1>3, <1>7 DEF Record
  <2>3. \A st \in Wants(script[p], copy[p], seen[p].dev) :
           st.op = "fetch" => st \in Wants(script[p], copy[p], d)
    BY <1>2 DEF Wants, Step, Managing
  <2>4. \A x \in ToSet(steps) : "fetch" \in Later(script[p], x.op)
    BY <1>2, <2>1 DEF AtDevice, Managing, Later, Step
  <2> HIDE DEF steps
  <2>5. Continue(p, steps)
    BY <1>1, <1>7 DEF steps
  <2>6. PlanInv' /\ ToSet(todo'[p]) = ToSet(steps) \cup ToSet(Tail(todo[p]))
    BY <1>1, <1>4, <1>5, <2>1, <2>2, <2>3, <2>4, <2>5, ContinueFits
  <2> QED
    BY <1>2, <1>5, <1>7, <2>1, <2>2, <2>6
<1> QED
  BY <1>6, <1>7
-----------------------------------------------------------------------------
(* PlanInv is an invariant: the calls that look before they write.         *)

LEMMA PortFits ==
  ASSUME Typed, PlanInv, NEW p \in Operators, NEW i \in Ports, Doing(p, "port", i), Port(p)
  PROVE  /\ PlanInv'
         /\ ToSet(todo'[p]) = ToSet(Tail(todo[p]))
                \cup (IF script[p] = "populate" /\ i \in copy[p].addressed
                      THEN {Step("address", i)} ELSE {})
<1>1. /\ todo[p] # <<>> /\ Head(todo[p]).op = "port" /\ Head(todo[p]).on = i
      /\ UNCHANGED <<copy, seen>>
      /\ Continue(p, IF script[p] = "populate" /\ i \in copy[p].addressed
                     THEN <<Step("address", i)>> ELSE <<>>)
  BY DEF Port, Doing, AtStep
<1>2. CASE script[p] = "populate" /\ i \in copy[p].addressed
  <2> DEFINE steps == <<Step("address", i)>>
  <2>1. Step("address", i) \in Steps
    BY StepType DEF Ops, Things
  <2>2. steps \in Seq(Steps) /\ ToSet(steps) = {Step("address", i)} /\ InOrder(script[p], steps)
    BY <2>1, OneAhead, OneInOrder
  <2>3. Step("address", i) \in Wants(script[p], copy[p], seen[p].dev)
    BY <1>2 DEF Wants
  <2>4. ToSet(Tail(todo[p])) \subseteq Wants(script[p], copy[p], seen[p].dev)
    BY <1>1, AtHead DEF PlanInv
  <2>5. Later("populate", "address") = Later("populate", "port") /\ Step("address", i).op = "address"
    BY DEF Later, Step
  <2>6. \A y \in ToSet(Tail(todo[p])) : y.op \in Later(script[p], "port")
    BY <1>1, AtHead
  <2> HIDE DEF steps
  <2>7. Continue(p, steps)
    BY <1>1, <1>2 DEF steps
  <2> QED
    BY <1>1, <1>2, <2>2, <2>3, <2>4, <2>5, <2>6, <2>7, ContinueFits
<1>3. CASE ~(script[p] = "populate" /\ i \in copy[p].addressed)
  BY <1>1, <1>3, DoneFits
<1> QED
  BY <1>2, <1>3

LEMMA OrphansFits ==
  ASSUME Typed, PlanInv, NEW p \in Operators, NEW d \in Devices,
         seen[p].dev = d, Orphans(p)
  PROVE  /\ PlanInv' /\ UNCHANGED <<netbox, copy, seen, script>>
         /\ ToSet(todo'[p]) = ToSet(Tail(todo[p]))
                \cup {Step("free", i) :
                        i \in PortsOf(d, netbox.ports) \ (copy[p].ports \cup {EnrichPort(d)})}
<1> DEFINE orphans == PortsOf(d, netbox.ports) \ (copy[p].ports \cup {EnrichPort(d)})
           steps == Each("free", orphans)
<1>1. /\ todo[p] # <<>> /\ Head(todo[p]).op = "orphans" /\ UNCHANGED <<netbox, copy, seen, script>>
      /\ Continue(p, steps)
  BY DEF Orphans, AtStep, Continue
<1>2. script[p] = "enrich"
  BY <1>1, AtHead, Wanted
<1>3. orphans \subseteq Ports /\ orphans \cap copy[p].ports = {}
      /\ \A i \in orphans : i[1] = d /\ i # EnrichPort(d)
  BY DEF Typed, NetBoxType, PortsOf
<1> HIDE DEF orphans
<1>4. IsFiniteSet(orphans) /\ orphans \subseteq Things
  BY <1>3, FiniteParts
<1>5. "free" \in Ops /\ "free" \in Later(script[p], "free") /\ "fetch" \in Later(script[p], "free")
  BY <1>2 DEF Ops, Later
<1>6. /\ steps \in Seq(Steps) /\ ToSet(steps) = {Step("free", i) : i \in orphans}
      /\ InOrder(script[p], steps)
  BY <1>4, <1>5, EachAhead, EachInOrder
<1>7. \A y \in ToSet(Tail(todo[p])) : y.op = "fetch"
  <2>1. Later(script[p], "orphans") = {"fetch"}
    BY <1>2 DEF Later
  <2> QED
    BY <1>1, <2>1, AtHead
<1>8. \A x \in ToSet(steps), y \in ToSet(Tail(todo[p])) : y.op \in Later(script[p], x.op)
  BY <1>5, <1>6, <1>7 DEF Step
<1>9. ToSet(steps) \subseteq Wants(script[p], copy[p], seen[p].dev)
  BY <1>2, <1>3, <1>6 DEF Wants
<1>10. ToSet(Tail(todo[p])) \subseteq Wants(script[p], copy[p], seen[p].dev)
  BY <1>1, AtHead DEF PlanInv
<1> HIDE DEF steps
<1>11. PlanInv' /\ ToSet(todo'[p]) = ToSet(steps) \cup ToSet(Tail(todo[p]))
  BY <1>1, <1>6, <1>8, <1>9, <1>10, ContinueFits
<1> QED
  BY <1>1, <1>6, <1>11 DEF orphans

LEMMA FreeFits ==
  ASSUME Typed, PlanInv, NEW p \in Operators, NEW i \in Ports, Doing(p, "free", i), Free(p)
  PROVE  /\ PlanInv' /\ netbox' = Freed(i) /\ UNCHANGED <<copy, seen, script>>
         /\ script[p] = "enrich" /\ i \notin copy[p].ports /\ i # EnrichPort(i[1])
         /\ ToSet(todo'[p]) = ToSet(Tail(todo[p])) \cup {Step("drop", i)}
<1> DEFINE steps == <<Step("drop", i)>>
<1>1. /\ todo[p] # <<>> /\ Head(todo[p]).op = "free" /\ Head(todo[p]).on = i
      /\ netbox' = Freed(i) /\ UNCHANGED <<copy, seen, script>>
      /\ Continue(p, steps)
  BY DEF Free, Doing, AtStep, Continue
<1>2. script[p] = "enrich" /\ i \notin copy[p].ports /\ i # EnrichPort(i[1])
  BY <1>1, AtHead, Wanted
<1>3. Step("drop", i) \in Steps /\ Step("drop", i).op = "drop"
  BY StepType DEF Ops, Things
<1>4. steps \in Seq(Steps) /\ ToSet(steps) = {Step("drop", i)} /\ InOrder(script[p], steps)
  BY <1>3, OneAhead, OneInOrder
<1>5. Step("drop", i) \in Wants(script[p], copy[p], seen[p].dev)
  BY <1>2 DEF Wants
<1>6. ToSet(Tail(todo[p])) \subseteq Wants(script[p], copy[p], seen[p].dev)
  BY <1>1, AtHead DEF PlanInv
<1>7. Later(script[p], "drop") = Later(script[p], "free")
  BY <1>2 DEF Later
<1>8. \A y \in ToSet(Tail(todo[p])) : y.op \in Later(script[p], "free")
  BY <1>1, AtHead
<1> HIDE DEF steps
<1> QED
  BY <1>1, <1>2, <1>3, <1>4, <1>5, <1>6, <1>7, <1>8, ContinueFits

LEMMA PeersFits ==
  ASSUME Typed, PlanInv, NEW p \in Operators, Peers(p)
  PROVE  /\ PlanInv' /\ UNCHANGED <<netbox, copy, seen, script>>
         /\ ToSet(todo'[p]) = ToSet(Tail(todo[p]))
                \cup {Step("session", l) : l \in Peerings(copy[p])}
<1> DEFINE steps == Each("session", Peerings(copy[p]))
<1>1. /\ todo[p] # <<>> /\ Head(todo[p]).op = "peers" /\ UNCHANGED <<netbox, copy, seen, script>>
      /\ Continue(p, steps)
  BY DEF Peers, AtStep, Continue
<1>2. script[p] = "bgp"
  BY <1>1, AtHead, Wanted
<1>3. Peerings(copy[p]) \subseteq Sessions
  <2>1. copy[p] \in SpecType
    BY DEF Typed
  <2>2. ASSUME NEW l \in Underlay(copy[p]) PROVE l # Tunnel
    <3>1. \A i \in l : Speaks(copy[p], i[1])
      BY DEF Underlay
    <3>2. ~Speaks(copy[p], Vpn)
      BY InventoryAssumption DEF Speaks, AsnFacts
    <3>3. Tun0[1] = Vpn /\ Tun0 \in Tunnel
      BY DEF Tun0, Tunnel
    <3> QED
      BY <3>1, <3>2, <3>3
  <2> QED
    BY <2>1, <2>2 DEF Peerings, Underlay, OverlayOf, Sessions, SpecType
<1>4. IsFiniteSet(Peerings(copy[p])) /\ Peerings(copy[p]) \subseteq Things
  BY <1>3, FiniteParts
<1>5. "session" \in Ops /\ \A op \in Ops : Later(script[p], op) = Ops
  BY <1>2 DEF Ops, Later
<1>6. /\ steps \in Seq(Steps) /\ ToSet(steps) = {Step("session", l) : l \in Peerings(copy[p])}
      /\ InOrder(script[p], steps)
  BY <1>4, <1>5, EachAhead, EachInOrder
<1>7. \A x \in ToSet(steps), y \in ToSet(Tail(todo[p])) : y.op \in Later(script[p], x.op)
  <2>1. \A y \in ToSet(Tail(todo[p])) : y.op \in Ops
    <3>1. Head(todo[p]).op \in Ops
      BY <1>1 DEF Ops
    <3> QED
      BY <1>1, <1>5, <3>1, AtHead
  <2>2. \A x \in ToSet(steps) : x.op = "session"
    BY <1>6 DEF Step
  <2> QED
    BY <1>5, <2>1, <2>2
<1>8. ToSet(steps) \subseteq Wants(script[p], copy[p], seen[p].dev)
  BY <1>2, <1>3, <1>6 DEF Wants
<1>9. ToSet(Tail(todo[p])) \subseteq Wants(script[p], copy[p], seen[p].dev)
  BY <1>1, AtHead DEF PlanInv
<1> HIDE DEF steps
<1>10. PlanInv' /\ ToSet(todo'[p]) = ToSet(steps) \cup ToSet(Tail(todo[p]))
  BY <1>1, <1>6, <1>7, <1>8, <1>9, ContinueFits
<1> QED
  BY <1>1, <1>6, <1>10

LEMMA ReadFits ==
  ASSUME Typed, PlanInv, NEW p \in Operators, NEW k,
         NEW op \in {"devices", "interfaces", "addresses", "cables"}, Read(p, op, k)
  PROVE  /\ PlanInv' /\ script[p] = "generate" /\ copy'[p] = k
         /\ ToSet(todo'[p]) = ToSet(Tail(todo[p]))
<1>1. /\ todo[p] # <<>> /\ Head(todo[p]).op = op /\ Continue(p, <<>>)
      /\ copy' = [copy EXCEPT ![p] = k] /\ seen' = seen
  BY DEF Read, AtStep
<1>2. script[p] = "generate"
  BY <1>1, AtHead, Wanted
<1> QED
  BY <1>1, <1>2, DoneFits DEF Typed

PlainCall(p) ==
    \/ Find(p) \/ Address(p) \/ Primary(p) \/ Cable(p) \/ Drop(p)
    \/ Catalogue(p) \/ Tenancy(p) \/ AsnRegistry(p) \/ CloudSite(p) \/ Vlans(p)
    \/ Rack(p) \/ Tag(p) \/ Asns(p) \/ Session(p)

\* The calls that change NetBox and nothing else but what is ahead.
LEMMA PlainFits ==
  ASSUME PlanInv, NEW p \in Operators, PlainCall(p)
  PROVE  PlanInv' /\ ToSet(todo'[p]) = ToSet(Tail(todo[p])) /\ UNCHANGED <<copy, seen, script>>
<1>1. todo[p] # <<>> /\ \E nb : Put(p, nb)
  <2>1. CASE Find(p) \/ Address(p) \/ Session(p) \/ Drop(p)
    BY <2>1 DEF Find, Address, Session, Drop, Doing, AtStep
  <2>2. CASE Cable(p)
    BY <2>2 DEF Cable, Doing, AtStep
  <2>3. CASE Primary(p)
    BY <2>3 DEF Primary, Doing, AtStep
  <2>4. CASE Catalogue(p) \/ Tenancy(p) \/ AsnRegistry(p) \/ CloudSite(p) \/ Vlans(p)
    BY <2>4 DEF Catalogue, Tenancy, AsnRegistry, CloudSite, Vlans, Make, Doing, AtStep
  <2>5. CASE Rack(p) \/ Tag(p) \/ Asns(p)
    BY <2>5 DEF Rack, Tag, Asns, Doing, AtStep
  <2> QED
    BY <2>1, <2>2, <2>3, <2>4, <2>5 DEF PlainCall
<1> QED
  BY <1>1, PutFits DEF Put, Done, Continue

LEMMA WriteFits ==
  ASSUME PlanInv, NEW p \in Operators, Write(p)
  PROVE  PlanInv' /\ ToSet(todo'[p]) = ToSet(Tail(todo[p])) /\ UNCHANGED <<netbox, copy, seen, script>>
<1>1. todo[p] # <<>> /\ Continue(p, <<>>) /\ UNCHANGED <<netbox, copy, seen, script>>
  BY DEF Write, AtStep, Continue
<1> QED
  BY <1>1, DoneFits

LEMMA StepFits == Typed /\ PlanInv /\ [Next]_vars => PlanInv'
<1> SUFFICES ASSUME Typed, PlanInv, [Next]_vars PROVE PlanInv'
  OBVIOUS
<1>1. CASE UNCHANGED vars
  BY <1>1 DEF PlanInv, Idle, vars
<1>2. ASSUME NEW p \in Operators, Call(p) PROVE PlanInv'
  <2>1. CASE PlainCall(p)
    BY <2>1, PlainFits
  <2>2. CASE Create(p)
    BY <2>2, CreateFits DEF Create
  <2>3. CASE Fetch(p)
    BY <2>3, FetchFits DEF Fetch
  <2>4. CASE Port(p)
    BY <2>4, PortFits DEF Port
  <2>5. CASE Attach(p)
    BY <2>5, AttachFits
  <2>6. CASE Replace(p) \/ Merge(p)
    BY <2>6, SaveFits DEF Replace, Merge, AtStep
  <2>7. CASE Orphans(p)
    BY <2>7, OrphansFits DEF Orphans
  <2>8. CASE Free(p)
    BY <2>8, FreeFits DEF Free
  <2>9. CASE Peers(p)
    BY <2>9, PeersFits
  <2>10. CASE ReadDevices(p) \/ ReadInterfaces(p) \/ ReadAddresses(p) \/ ReadCables(p)
    BY <2>10, ReadFits DEF ReadDevices, ReadInterfaces, ReadAddresses, ReadCables
  <2>11. CASE Write(p)
    BY <2>11, WriteFits
  <2> QED
    BY <1>2, <2>1, <2>2, <2>3, <2>4, <2>5, <2>6, <2>7, <2>8, <2>9, <2>10, <2>11 DEF Call, PlainCall
<1> QED
  BY <1>1, <1>2, StartFits, StopFits, PassOverFits DEF Next
-----------------------------------------------------------------------------
(* An address is on an interface that goes by it, a primary address is the *)
(* management address of its device, and a spec is about its own devices.  *)

SoundNetBox(nb) ==
    /\ \A a \in Addresses : nb.at[a] # None => AddressOf(nb.at[a]) = a
    /\ \A d \in Devices : nb.primary[d] # None => d \in Lab /\ nb.primary[d] = Mgmt(d)
WellFormed(k) ==
    /\ \A i \in k.ports : i[1] \in k.devices
    /\ k.addressed \subseteq k.ports
    /\ \A i \in k.addressed : AddressOf(i) \in Addresses
Sound ==
    /\ SoundNetBox(netbox)
    /\ WellFormed(spec)
    /\ \A p \in Operators :
        /\ WellFormed(copy[p])
        /\ Step("interfaces", None) \in ToSet(todo[p]) /\ Step("devices", None) \notin ToSet(todo[p])
            => copy[p].addressed = {}

LEMMA DataAddress ==
  ASSUME NEW i \in DataPorts
  PROVE  AddressOf(i) = i /\ i \in Addresses /\ i \in Ports
BY LinksAssumption DEF AddressOf, Addresses, Ports

LEMMA MgmtAddress ==
  ASSUME NEW d \in Lab, NEW i \in {SyncPort(d), EnrichPort(d)}
  PROVE  /\ AddressOf(i) = Mgmt(d) /\ Mgmt(d) \in Addresses /\ Mgmt(d) \notin DataPorts
         /\ i \in Ports /\ i \notin DataPorts /\ i[1] = d
<1>1. i \in MgmtPorts /\ i[1] = d
  BY DEF MgmtPorts, SyncPort, EnrichPort
<1>2. Mgmt(d) \notin DataPorts /\ i \notin DataPorts
  BY <1>1, LinksAssumption
<1> QED
  BY <1>1, <1>2 DEF AddressOf, Addresses, Ports

LEMMA LabSpecWellFormed == WellFormed(LabSpec)
BY DataAddress, LinksAssumption DEF WellFormed, LabSpec

LEMMA InitSound == Init => Sound
<1> SUFFICES ASSUME Init PROVE Sound
  OBVIOUS
<1>1. SoundNetBox(EmptyNetBox)
  BY DEF SoundNetBox, EmptyNetBox
<1>2. SoundNetBox(SeededNetBox)
  BY DataAddress DEF SoundNetBox, SeededNetBox, EmptyNetBox
<1> QED
  BY <1>1, <1>2, LabSpecWellFormed, NothingAhead DEF Init, Sound

LEMMA FreedSound ==
  ASSUME SoundNetBox(netbox), Typed, NEW i
  PROVE  SoundNetBox(Freed(i))
BY DEF SoundNetBox, Freed, Typed, NetBoxType

LEMMA PlainSound ==
  ASSUME Typed, SoundNetBox(netbox), NEW p \in Operators, PlainCall(p)
  PROVE  SoundNetBox(netbox)'
<1>0. netbox \in NetBoxType
  BY DEF Typed
<1>1. CASE Find(p) \/ Asns(p)
  BY <1>1 DEF Find, Asns, Put, SoundNetBox
<1>2. CASE Address(p)
  <2>1. PICK i \in Ports :
           netbox' = IF Exists(AddressOf(i)) THEN netbox ELSE [netbox EXCEPT !.at[AddressOf(i)] = i]
    BY <1>2 DEF Address, Put
  <2> QED
    BY <1>0, <2>1 DEF SoundNetBox, NetBoxType
<1>3. CASE Cable(p)
  <2>1. PICK l : netbox' \in {netbox, [netbox EXCEPT !.cables = @ \cup {l}]}
    BY <1>3 DEF Cable, Put
  <2> QED
    BY <1>0, <2>1 DEF SoundNetBox, NetBoxType
<1>4. CASE Drop(p)
  <2>1. PICK i : netbox' = [Freed(i) EXCEPT !.ports = @ \ {i}, !.cables = {c \in @ : i \notin c}]
    BY <1>4 DEF Drop, Put
  <2>2. Freed(i) \in NetBoxType /\ SoundNetBox(Freed(i))
    BY <1>0, FreedType, FreedSound
  <2> QED
    BY <2>1, <2>2 DEF SoundNetBox, NetBoxType
<1>5. CASE Catalogue(p) \/ Tenancy(p) \/ AsnRegistry(p) \/ CloudSite(p) \/ Vlans(p)
  <2>1. PICK o : netbox' = Made(o)
    BY <1>5 DEF Catalogue, Tenancy, AsnRegistry, CloudSite, Vlans, Make, Put
  <2> QED
    BY <1>0, <2>1 DEF SoundNetBox, NetBoxType, Made
<1>6. CASE Rack(p) \/ Tag(p)
  <2>1. PICK d, label : netbox' = Labelled(d, label)
    BY <1>6 DEF Rack, Tag, Put
  <2> QED
    BY <1>0, <2>1 DEF SoundNetBox, NetBoxType, Labelled
<1>7. CASE Session(p)
  <2>1. PICK l : netbox' = [netbox EXCEPT !.sessions = @ \cup {l}]
    BY <1>7 DEF Session, Put
  <2> QED
    BY <1>0, <2>1 DEF SoundNetBox, NetBoxType
<1>8. CASE Primary(p)
  <2>1. PICK d \in Lab : netbox' \in {netbox, [netbox EXCEPT !.primary[d] = Mgmt(d)]}
    BY <1>8 DEF Primary, Put
  <2> QED
    BY <1>0, <2>1 DEF SoundNetBox, NetBoxType
<1> QED
  BY <1>1, <1>2, <1>3, <1>4, <1>5, <1>6, <1>7, <1>8 DEF PlainCall

LEMMA NetBoxStaysSound ==
  ASSUME Typed, SoundNetBox(netbox), NEW p \in Operators, Call(p)
  PROVE  SoundNetBox(netbox)'
<1>0. netbox \in NetBoxType
  BY DEF Typed
<1>1. CASE PlainCall(p)
  BY <1>1, PlainSound
<1>2. CASE UNCHANGED netbox
  BY <1>2 DEF SoundNetBox
<1>3. CASE Create(p)
  BY <1>0, <1>3 DEF Create, SoundNetBox, NetBoxType
<1>4. CASE Port(p)
  BY <1>0, <1>4 DEF Port, SoundNetBox, NetBoxType
<1>5. CASE Attach(p)
  <2>1. PICK i \in netbox.ports : netbox' = [netbox EXCEPT !.at[AddressOf(i)] = i]
    BY <1>5 DEF Attach
  <2> QED
    BY <1>0, <2>1 DEF SoundNetBox, NetBoxType
<1>6. CASE Replace(p) \/ Merge(p)
  <2>1. PICK d, ctx : netbox' \in {netbox, [netbox EXCEPT !.ctx[d] = ctx]}
    BY <1>6 DEF Replace, Merge, Save
  <2> QED
    BY <1>0, <2>1 DEF SoundNetBox, NetBoxType
<1>7. CASE Free(p)
  BY <1>7, FreedSound DEF Free
<1> QED
  BY <1>1, <1>2, <1>3, <1>4, <1>5, <1>6, <1>7
  DEF Call, PlainCall, Fetch, Orphans, Peers, Read, ReadDevices, ReadInterfaces, ReadAddresses, ReadCables, Write

LEMMA ReadSound ==
  ASSUME Typed, PlanInv, Sound, NEW p \in Operators,
         ReadDevices(p) \/ ReadInterfaces(p) \/ ReadAddresses(p) \/ ReadCables(p)
  PROVE  /\ WellFormed(copy'[p])
         /\ Step("interfaces", None) \in ToSet(todo'[p]) /\ Step("devices", None) \notin ToSet(todo'[p])
                => copy'[p].addressed = {}
<1>0. copy[p] \in SpecType /\ netbox \in NetBoxType /\ WellFormed(copy[p])
      /\ Step("interfaces", None).op = "interfaces" /\ Step("devices", None).op = "devices"
  BY DEF Typed, Sound, Step
<1>1. CASE ReadDevices(p)
  <2>1. copy'[p] = Inventory(netbox)
    BY <1>1, ReadFits DEF ReadDevices
  <2> QED
    BY <2>1 DEF Inventory, WellFormed
<1>2. CASE ReadInterfaces(p)
  <2>1. /\ copy'[p] = [copy[p] EXCEPT !.ports = {i \in netbox.ports : i[1] \in copy[p].devices}]
        /\ script[p] = "generate" /\ ToSet(todo'[p]) = ToSet(Tail(todo[p]))
        /\ todo[p] # <<>> /\ Head(todo[p]).op = "interfaces"
    BY <1>2, ReadFits DEF ReadInterfaces, Read, AtStep
  <2>2. Head(todo[p]) = Step("interfaces", None)
    <3>1. Head(todo[p]) \in Wants("generate", copy[p], seen[p].dev)
      BY <2>1, AtHead
    <3> QED
      BY <2>1, <3>1 DEF Wants, Step
  <2>3. \A st \in ToSet(Tail(todo[p])) : st.op \in {"addresses", "cables", "write"}
    BY <2>1, AtHead DEF Later
  <2>4. Step("interfaces", None) \in ToSet(todo[p]) /\ Step("devices", None) \notin ToSet(todo[p])
    BY <1>0, <2>1, <2>2, <2>3, AtHead
  <2>5. copy[p].addressed = {}
    BY <2>4 DEF Sound
  <2> QED
    BY <1>0, <2>1, <2>5 DEF WellFormed, SpecType
<1>3. CASE ReadAddresses(p)
  <2>1. /\ copy'[p] = [copy[p] EXCEPT !.addressed = {i \in copy[p].ports : AddressesOn(i) # {}}]
        /\ script[p] = "generate" /\ ToSet(todo'[p]) = ToSet(Tail(todo[p]))
        /\ todo[p] # <<>> /\ Head(todo[p]).op = "addresses"
    BY <1>3, ReadFits DEF ReadAddresses, Read, AtStep
  <2>2. \A st \in ToSet(Tail(todo[p])) : st.op \in {"cables", "write"}
    BY <2>1, AtHead DEF Later
  <2>3. \A i \in copy[p].ports : AddressesOn(i) # {} => AddressOf(i) \in Addresses
    <3> SUFFICES ASSUME NEW i \in copy[p].ports, NEW a \in AddressesOn(i) PROVE AddressOf(i) \in Addresses
      OBVIOUS
    <3>1. a \in Addresses /\ netbox.at[a] = i /\ i \in Ports
      BY <1>0 DEF AddressesOn, SpecType
    <3>2. i # None
      BY <3>1, InventoryAssumption
    <3> QED
      BY <3>1, <3>2 DEF Sound, SoundNetBox
  <2> QED
    BY <1>0, <2>1, <2>2, <2>3 DEF WellFormed, SpecType
<1>4. CASE ReadCables(p)
  <2> DEFINE peers == copy[p].ports \cap UNION netbox.cables
  <2>1. /\ copy'[p] = [copy[p] EXCEPT !.ports = copy[p].addressed \cup peers,
                                      !.links = {c \in netbox.cables : c \cap peers # {}}]
        /\ script[p] = "generate" /\ ToSet(todo'[p]) = ToSet(Tail(todo[p]))
        /\ todo[p] # <<>> /\ Head(todo[p]).op = "cables"
    BY <1>4, ReadFits DEF ReadCables, Read, AtStep
  <2>2. \A st \in ToSet(Tail(todo[p])) : st.op \in {"write"}
    BY <2>1, AtHead DEF Later
  <2> QED
    BY <1>0, <2>1, <2>2 DEF WellFormed, SpecType
<1> QED
  BY <1>1, <1>2, <1>3, <1>4
-----------------------------------------------------------------------------
(* A call is one of these, and leaves the rest alone.                      *)

\* What a call leaves alone.
LEMMA CallFrame ==
  ASSUME Typed, PlanInv, NEW p \in Operators, Call(p)
  PROVE  /\ todo[p] # <<>> /\ ~Idle(p)
         /\ UNCHANGED <<script, runs, alone, clean>>
         /\ \A q \in Operators \ {p} :
                todo'[q] = todo[q] /\ copy'[q] = copy[q] /\ seen'[q] = seen[q]
<1>1. /\ todo[p] # <<>>
      /\ \E steps : Continue(p, steps)
      /\ clean' = clean
      /\ copy' = copy \/ \E k : copy' = [copy EXCEPT ![p] = k]
      /\ \/ seen' = seen
         \/ \E o : seen' = [seen EXCEPT ![p] = o]
         \/ \E v : seen' = [seen EXCEPT ![p].primary = v]
  <2>1. CASE PlainCall(p)
    <3>1. todo[p] # <<>> /\ \E nb : Put(p, nb)
      <4>1. CASE Find(p) \/ Address(p) \/ Session(p) \/ Drop(p)
        BY <4>1 DEF Find, Address, Session, Drop, Doing, AtStep
      <4>2. CASE Cable(p) \/ Primary(p)
        BY <4>2 DEF Cable, Primary, Doing, AtStep
      <4>3. CASE Catalogue(p) \/ Tenancy(p) \/ AsnRegistry(p) \/ CloudSite(p) \/ Vlans(p)
        BY <4>3 DEF Catalogue, Tenancy, AsnRegistry, CloudSite, Vlans, Make, Doing, AtStep
      <4>4. CASE Rack(p) \/ Tag(p) \/ Asns(p)
        BY <4>4 DEF Rack, Tag, Asns, Doing, AtStep
      <4> QED
        BY <2>1, <4>1, <4>2, <4>3, <4>4 DEF PlainCall
    <3> QED
      BY <3>1 DEF Put, Done
  <2>2. CASE Create(p) \/ Fetch(p) \/ Port(p)
    <3>1. CASE Create(p)
      BY <3>1 DEF Create, Doing, AtStep
    <3>2. CASE Fetch(p)
      BY <3>2 DEF Fetch, Doing, AtStep
    <3>3. CASE Port(p)
      BY <3>3 DEF Port, Doing, AtStep
    <3> QED
      BY <2>2, <3>1, <3>2, <3>3
  <2>3. CASE Attach(p)
    BY <2>3 DEF Attach, Done, Doing, AtStep
  <2>4. CASE Replace(p) \/ Merge(p)
    BY <2>4 DEF Replace, Merge, Save, Done, AtStep
  <2>5. CASE Orphans(p) \/ Free(p) \/ Peers(p) \/ Write(p)
    BY <2>5 DEF Orphans, Free, Peers, Write, Doing, AtStep
  <2>6. CASE ReadDevices(p) \/ ReadInterfaces(p) \/ ReadAddresses(p) \/ ReadCables(p)
    BY <2>6 DEF ReadDevices, ReadInterfaces, ReadAddresses, ReadCables, Read, AtStep
  <2> QED
    BY <2>1, <2>2, <2>3, <2>4, <2>5, <2>6 DEF Call, PlainCall
<1>2. ~Idle(p)
  BY <1>1 DEF PlanInv
<1> QED
  BY <1>1, <1>2 DEF Typed, PlanInv, Continue, ledgers

\* Which scripts make which calls.
LEMMA CallOf ==
  ASSUME PlanInv, NEW p \in Operators
  PROVE  /\ Create(p) => script[p] \in {"populate", "seed"}
         /\ Fetch(p) => script[p] \in {"contexts", "enrich", "sync", "seed"}
         /\ Find(p) \/ CloudSite(p) => script[p] = "seed"
         /\ Port(p) => script[p] \in {"populate", "seed", "sync", "enrich"}
         /\ Address(p) \/ Replace(p) \/ Catalogue(p) => script[p] = "populate"
         /\ Attach(p) \/ Primary(p) => script[p] \in {"sync", "enrich"}
         /\ Cable(p) => script[p] \in {"populate", "seed"}
         /\ Merge(p) => script[p] \in {"contexts", "enrich", "seed"}
         /\ Orphans(p) \/ Free(p) \/ Drop(p) => script[p] = "enrich"
         /\ Tenancy(p) \/ AsnRegistry(p) \/ Vlans(p) \/ Rack(p) \/ Tag(p) => script[p] = "enterprise"
         /\ Asns(p) \/ Peers(p) \/ Session(p) => script[p] = "bgp"
         /\ ReadDevices(p) \/ ReadInterfaces(p) \/ ReadAddresses(p) \/ ReadCables(p) \/ Write(p)
                => script[p] = "generate"
<1> DEFINE h == Head(todo[p])
<1>1. todo[p] # <<>> => h \in Wants(script[p], copy[p], seen[p].dev)
  BY AtHead
<1>2. /\ Create(p) => todo[p] # <<>> /\ h.op = "create"
      /\ Fetch(p) => todo[p] # <<>> /\ h.op = "fetch"
      /\ Port(p) => todo[p] # <<>> /\ h.op = "port"
      /\ Find(p) => todo[p] # <<>> /\ h.op = "find"
      /\ Cable(p) => todo[p] # <<>> /\ h.op = "cable"
  BY DEF Create, Fetch, Port, Find, Cable, Doing, AtStep
<1>3. /\ Address(p) => todo[p] # <<>> /\ h.op = "address"
      /\ Replace(p) => todo[p] # <<>> /\ h.op = "replace"
      /\ Attach(p) => todo[p] # <<>> /\ h.op = "attach"
      /\ Primary(p) => todo[p] # <<>> /\ h.op = "primary"
      /\ Merge(p) => todo[p] # <<>> /\ h.op = "merge"
  BY DEF Address, Replace, Attach, Primary, Merge, Doing, AtStep
<1>4. /\ Orphans(p) => todo[p] # <<>> /\ h.op = "orphans"
      /\ Free(p) => todo[p] # <<>> /\ h.op = "free"
      /\ Drop(p) => todo[p] # <<>> /\ h.op = "drop"
      /\ Rack(p) => todo[p] # <<>> /\ h.op = "rack"
      /\ Tag(p) => todo[p] # <<>> /\ h.op = "tag"
      /\ Vlans(p) => todo[p] # <<>> /\ h.op = "vlans"
  BY DEF Orphans, Free, Drop, Rack, Tag, Vlans, Doing, AtStep
<1>5. /\ Catalogue(p) => todo[p] # <<>> /\ h.op = "make" /\ h.on = "catalogue"
      /\ Tenancy(p) => todo[p] # <<>> /\ h.op = "make" /\ h.on = "tenancy"
      /\ AsnRegistry(p) => todo[p] # <<>> /\ h.op = "make" /\ h.on = "asns"
      /\ CloudSite(p) => todo[p] # <<>> /\ h.op = "make" /\ h.on = "cloud"
  BY DEF Catalogue, Tenancy, AsnRegistry, CloudSite, Make, Doing, AtStep
<1>6. /\ Asns(p) => todo[p] # <<>> /\ h.op = "asns"
      /\ Peers(p) => todo[p] # <<>> /\ h.op = "peers"
      /\ Session(p) => todo[p] # <<>> /\ h.op = "session"
  BY DEF Asns, Peers, Session, Doing, AtStep
<1>7. /\ ReadDevices(p) => todo[p] # <<>> /\ h.op = "devices"
      /\ ReadInterfaces(p) => todo[p] # <<>> /\ h.op = "interfaces"
      /\ ReadAddresses(p) => todo[p] # <<>> /\ h.op = "addresses"
      /\ ReadCables(p) => todo[p] # <<>> /\ h.op = "cables"
      /\ Write(p) => todo[p] # <<>> /\ h.op = "write"
  BY DEF ReadDevices, ReadInterfaces, ReadAddresses, ReadCables, Write, Read, Doing, AtStep
<1> HIDE DEF h
<1>8. todo[p] # <<>> =>
      /\ h.op = "create" => script[p] \in {"populate", "seed"}
      /\ h.op = "fetch" => script[p] \in {"contexts", "enrich", "sync", "seed"}
      /\ h.op = "find" => script[p] = "seed"
      /\ h.op = "make" /\ h.on = "cloud" => script[p] = "seed"
      /\ h.op = "port" => script[p] \in {"populate", "seed", "sync", "enrich"}
      /\ h.op \in {"address", "replace"} => script[p] = "populate"
      /\ h.op = "make" /\ h.on = "catalogue" => script[p] = "populate"
      /\ h.op \in {"attach", "primary"} => script[p] \in {"sync", "enrich"}
      /\ h.op = "cable" => script[p] \in {"populate", "seed"}
      /\ h.op = "merge" => script[p] \in {"contexts", "enrich", "seed"}
      /\ h.op \in {"orphans", "free", "drop"} => script[p] = "enrich"
      /\ h.op = "make" /\ h.on \in {"tenancy", "asns"} => script[p] = "enterprise"
      /\ h.op \in {"vlans", "rack", "tag"} => script[p] = "enterprise"
      /\ h.op \in {"asns", "peers", "session"} => script[p] = "bgp"
      /\ h.op \in {"devices", "interfaces", "addresses", "cables", "write"} => script[p] = "generate"
  BY <1>1, Wanted
<1> QED
  BY <1>2, <1>3, <1>4, <1>5, <1>6, <1>7, <1>8

\* Only the generator changes a spec.
LEMMA CopyStays ==
  ASSUME PlanInv, NEW p \in Operators, Call(p), script[p] # "generate"
  PROVE  copy' = copy /\ spec' = spec
<1>1. ~(ReadDevices(p) \/ ReadInterfaces(p) \/ ReadAddresses(p) \/ ReadCables(p) \/ Write(p))
  BY CallOf
<1>2. CASE PlainCall(p)
  <2>1. CASE Find(p) \/ Address(p) \/ Session(p) \/ Drop(p) \/ Cable(p) \/ Primary(p)
    BY <2>1 DEF Find, Address, Session, Drop, Cable, Primary, Put, Done
  <2>2. CASE \/ Catalogue(p) \/ Tenancy(p) \/ AsnRegistry(p) \/ CloudSite(p) \/ Vlans(p)
             \/ Rack(p) \/ Tag(p) \/ Asns(p)
    BY <2>2 DEF Catalogue, Tenancy, AsnRegistry, CloudSite, Vlans, Make, Rack, Tag, Asns, Put, Done
  <2> QED
    BY <1>2, <2>1, <2>2 DEF PlainCall
<1>3. CASE \/ Create(p) \/ Fetch(p) \/ Port(p) \/ Attach(p) \/ Replace(p) \/ Merge(p)
           \/ Orphans(p) \/ Free(p) \/ Peers(p)
  BY <1>3 DEF Create, Fetch, Port, Attach, Replace, Merge, Save, Orphans, Free, Peers, Done
<1> QED
  BY <1>1, <1>2, <1>3 DEF Call, PlainCall
LEMMA StepSound == Typed /\ PlanInv /\ Sound /\ [Next]_vars => Sound'
<1> SUFFICES ASSUME Typed, PlanInv, Sound, [Next]_vars PROVE Sound'
  OBVIOUS
<1> DEFINE I == Step("interfaces", None)
           D == Step("devices", None)
           Good(p) == /\ WellFormed(copy[p])
                      /\ I \in ToSet(todo[p]) /\ D \notin ToSet(todo[p]) => copy[p].addressed = {}
<1>0. \A p \in Operators : Good(p)
  BY DEF Sound
<1>1. CASE UNCHANGED vars
  BY <1>1 DEF Sound, vars
<1>2. ASSUME NEW p \in Operators, NEW s \in Scripts, Start(p, s) PROVE Sound'
  <2>1. /\ copy' = [copy EXCEPT ![p] = spec] /\ todo' = [todo EXCEPT ![p] = Plan(s, spec)]
        /\ UNCHANGED <<netbox, spec>> /\ spec \in SpecType
    BY <1>2 DEF Start, Typed
  <2>2. I \in ToSet(Plan(s, spec)) => D \in ToSet(Plan(s, spec))
    <3>1. CASE s = "generate"
      BY <3>1, GeneratePlan
    <3>2. CASE s # "generate"
      <4>1. ToSet(Plan(s, spec)) \subseteq Wants(s, spec, None)
        BY <2>1, PlanFits
      <4>2. I.op = "interfaces"
        BY DEF Step
      <4> QED
        BY <3>2, <4>1, <4>2, Wanted
    <3> QED
      BY <3>1, <3>2
  <2>3. WellFormed(copy'[p]) /\ ToSet(todo'[p]) = ToSet(Plan(s, spec))
    BY <2>1 DEF Sound, Typed, PlanInv
  <2>4. \A q \in Operators \ {p} : copy'[q] = copy[q] /\ todo'[q] = todo[q]
    BY <2>1 DEF Typed, PlanInv
  <2> HIDE DEF I, D
  <2>5. \A q \in Operators : Good(q)'
    BY <1>0, <2>2, <2>3, <2>4
  <2> QED
    BY <2>1, <2>5 DEF Sound, I, D
<1>3. ASSUME NEW p \in Operators, Stop(p) PROVE Sound'
  <2>1. /\ copy' = [copy EXCEPT ![p] = LabSpec] /\ todo' = [todo EXCEPT ![p] = <<>>]
        /\ UNCHANGED <<netbox, spec>>
    BY <1>3 DEF Stop
  <2>2. copy'[p] = LabSpec /\ ToSet(todo'[p]) = {}
    BY <2>1, NothingAhead DEF Typed, PlanInv
  <2>3. \A q \in Operators \ {p} : copy'[q] = copy[q] /\ todo'[q] = todo[q]
    BY <2>1 DEF Typed, PlanInv
  <2> HIDE DEF I, D
  <2>4. \A q \in Operators : Good(q)'
    BY <1>0, <2>2, <2>3, LabSpecWellFormed
  <2> QED
    BY <2>1, <2>4 DEF Sound, I, D
<1>4. ASSUME PlanInv', NEW q \in Operators, I \in ToSet(todo'[q]) PROVE script'[q] = "generate"
  <2>1. I \in Wants(script'[q], copy'[q], seen'[q].dev) /\ I.op = "interfaces"
    BY <1>4 DEF PlanInv, Step
  <2> QED
    BY <2>1, Wanted
<1>5. ASSUME NEW p \in Operators, PassOver(p) PROVE Sound'
  <2>1. /\ PlanInv' /\ UNCHANGED <<netbox, spec, copy, script>> /\ todo[p] # <<>>
        /\ \A q \in Operators \ {p} : todo'[q] = todo[q]
    BY <1>5, PassOverFits DEF PassOver, PlanInv, Continue
  <2>2. script[p] # "generate"
    <3>1. Head(todo[p]).op \in {"drop", "rack", "tag", "session"} \/ script[p] = "populate"
      BY <1>5 DEF PassOver, Caught, AtStep
    <3>2. Head(todo[p]) \in Wants(script[p], copy[p], seen[p].dev)
      BY <2>1, AtHead
    <3> QED
      BY <3>1, <3>2, Wanted
  <2>3. I \notin ToSet(todo'[p])
    BY <1>4, <2>1, <2>2
  <2> HIDE DEF I, D
  <2>4. \A q \in Operators : Good(q)'
    BY <1>0, <2>1, <2>3
  <2> QED
    BY <2>1, <2>4 DEF Sound, I, D
<1>6. ASSUME NEW p \in Operators, Call(p) PROVE Sound'
  <2>1. PlanInv' /\ SoundNetBox(netbox)' /\ script' = script
    BY <1>6, NetBoxStaysSound, StepFits, CallFrame DEF Sound, Next
  <2>2. \A q \in Operators \ {p} : copy'[q] = copy[q] /\ todo'[q] = todo[q]
    BY <1>6, CallFrame
  <2>3. CASE ReadDevices(p) \/ ReadInterfaces(p) \/ ReadAddresses(p) \/ ReadCables(p)
    <3>1. spec' = spec
      BY <2>3 DEF ReadDevices, ReadInterfaces, ReadAddresses, ReadCables, Read
    <3>2. Good(p)'
      BY <2>3, ReadSound
    <3> HIDE DEF I, D
    <3>3. \A q \in Operators : Good(q)'
      BY <1>0, <2>2, <3>2
    <3> QED
      BY <2>1, <3>1, <3>3 DEF Sound, I, D
  <2>4. CASE Write(p)
    <3>1. spec' = copy[p] /\ copy' = copy /\ todo[p] # <<>> /\ Head(todo[p]).op = "write"
          /\ ToSet(todo'[p]) = ToSet(Tail(todo[p])) /\ script[p] = "generate"
      BY <2>4, WriteFits, CallOf DEF Write, AtStep
    <3>2. \A y \in ToSet(Tail(todo[p])) : y.op \in {}
      BY <3>1, AtHead DEF Later
    <3>3. I \notin ToSet(todo'[p])
      BY <3>1, <3>2
    <3>4. WellFormed(spec') /\ WellFormed(copy'[p])
      BY <1>0, <3>1
    <3> HIDE DEF I, D
    <3>5. \A q \in Operators : Good(q)'
      BY <1>0, <2>2, <3>3, <3>4
    <3> QED
      BY <2>1, <3>4, <3>5 DEF Sound, I, D
  <2>5. CASE script[p] # "generate"
    <3>1. copy' = copy /\ spec' = spec
      BY <1>6, <2>5, CopyStays
    <3>2. I \notin ToSet(todo'[p])
      BY <1>4, <2>1, <2>5
    <3> HIDE DEF I, D
    <3>3. \A q \in Operators : Good(q)'
      BY <1>0, <2>2, <3>1, <3>2
    <3> QED
      BY <2>1, <3>1, <3>3 DEF Sound, I, D
  <2>6. CASE script[p] = "generate"
    <3>1. ReadDevices(p) \/ ReadInterfaces(p) \/ ReadAddresses(p) \/ ReadCables(p) \/ Write(p)
      BY <1>6, <2>6, CallOf DEF Call
    <3> QED
      BY <2>3, <2>4, <3>1
  <2> QED
    BY <2>5, <2>6
<1> QED
  BY <1>1, <1>2, <1>3, <1>5, <1>6 DEF Next
-----------------------------------------------------------------------------
(* A script with no other beside it finds NetBox as it was when it read it *)
(* last, but for what it has done itself.                                  *)

Ahead(p) == ToSet(todo[p])
Attached(d) == netbox.at[Mgmt(d)] = EnrichPort(d)
CurrentOn(p) ==
    LET A == Ahead(p)
        o == seen[p]
    IN  /\ {Step("merge", None), Step("replace", None)} \cap A # {} =>
                o.dev \in Devices /\ o.ctx = netbox.ctx[o.dev]
        /\ Step("primary", None) \in A /\ o.primary = Mgmt(o.dev) =>
                netbox.primary[o.dev] = Mgmt(o.dev)
        /\ Step("orphans", None) \in A /\ o.dev \in Lab =>
                Step("attach", EnrichPort(o.dev)) \in A \/ Attached(o.dev)
        /\ \A i \in Ports : Step("free", i) \in A \/ Step("drop", i) \in A =>
                (i[1] \in Lab => Attached(i[1]))

\* No other operator runs a script, and this one knows what it holds.
Current == \A p \in alone :
    /\ ~Idle(p) /\ \A q \in Operators \ {p} : Idle(q)
    /\ CurrentOn(p)
-----------------------------------------------------------------------------
(* Who is alone, and what the others may do.                               *)

LEMMA PlanBare ==
  ASSUME NEW s \in Scripts, NEW k \in SpecType, NEW st \in ToSet(Plan(s, k))
  PROVE  st.op \notin {"merge", "replace", "address", "primary", "attach", "orphans", "free", "drop"}
<1>0. \A op, on : Step(op, on).op = op
  BY DEF Step
<1>1. CASE s = "populate"
  BY <1>0, <1>1, PopulatePlan
<1>2. CASE s = "enterprise"
  BY <1>0, <1>2, EnterprisePlan
<1>3. CASE s \in {"contexts", "enrich", "sync"}
  BY <1>0, <1>3, FetchPlan
<1>4. CASE s = "bgp"
  BY <1>0, <1>4, BgpPlan
<1>5. CASE s = "seed"
  BY <1>0, <1>5, SeedPlan
<1>6. CASE s = "generate"
  BY <1>0, <1>6, GeneratePlan
<1> QED
  BY <1>1, <1>2, <1>3, <1>4, <1>5, <1>6 DEF Scripts

\* While an operator is alone, only it makes a step.
LEMMA WhoIsAlone ==
  ASSUME Typed, PlanInv, Current, Next, NEW p \in alone'
  PROVE  /\ p \in Operators
         /\ \/ \E s \in Scripts : Start(p, s) /\ \A q \in Operators : Idle(q)
            \/ p \in alone /\ Call(p)
            \/ p \in alone /\ PassOver(p)
         /\ ~Idle(p)' /\ \A q \in Operators \ {p} : Idle(q)'
<1>0. alone \subseteq Operators /\ DOMAIN script = Operators
  BY DEF Typed
<1>1. PICK q \in Operators : (\E s \in Scripts : Start(q, s)) \/ Call(q) \/ PassOver(q) \/ Stop(q)
  BY DEF Next
<1>2. CASE \E s \in Scripts : Start(q, s)
  <2>1. PICK s \in Scripts : Start(q, s)
    BY <1>2
  <2>2. p = q /\ script' = [script EXCEPT ![q] = s] /\ \A r \in Operators : Idle(r)
    BY <2>1 DEF Start
  <2> QED
    BY <1>0, <2>1, <2>2 DEF Idle, Scripts
<1>3. CASE Call(q) \/ PassOver(q)
  <2>1. alone' = alone /\ script' = script /\ ~Idle(q)
    <3>1. CASE Call(q)
      BY <3>1, CallFrame
    <3>2. CASE PassOver(q)
      BY <3>2, PassOverFits DEF PassOver, Continue, ledgers, PlanInv
    <3> QED
      BY <1>3, <3>1, <3>2
  <2>2. p = q
    BY <1>0, <2>1 DEF Current
  <2> QED
    BY <1>3, <2>1, <2>2 DEF Current, Idle
<1>4. CASE Stop(q)
  <2>1. p \in alone /\ p # q /\ ~Idle(q)
    BY <1>4 DEF Stop
  <2> QED
    BY <1>0, <2>1 DEF Current
<1> QED
  BY <1>1, <1>2, <1>3, <1>4

LEMMA StartCurrent ==
  ASSUME Typed, PlanInv, NEW p \in Operators, NEW s \in Scripts, Start(p, s)
  PROVE  CurrentOn(p)'
<1>1. todo'[p] = Plan(s, spec) /\ spec \in SpecType
  BY DEF Start, PlanInv, Typed
<1>2. \A st \in ToSet(todo'[p]) :
         st.op \notin {"merge", "replace", "primary", "attach", "orphans", "free", "drop"}
  BY <1>1, PlanBare
<1>3. \A op, on : Step(op, on).op = op
  BY DEF Step
<1> QED
  BY <1>2, <1>3 DEF CurrentOn, Ahead

\* Less is ahead, and nothing that matters has changed.
LEMMA LessCurrent ==
  ASSUME NEW p \in Operators, CurrentOn(p),
         \A st \in ToSet(todo'[p]) :
            st.op \in {"merge", "replace", "primary", "orphans", "free", "drop"} => st \in ToSet(todo[p]),
         seen'[p] = seen[p], UNCHANGED <<netbox.ctx, netbox.primary, netbox.at>>,
         Step("attach", EnrichPort(seen[p].dev)) \in ToSet(todo[p]) =>
            Step("attach", EnrichPort(seen[p].dev)) \in ToSet(todo'[p])
  PROVE  CurrentOn(p)'
<1>1. \A op, on : Step(op, on).op = op
  BY DEF Step
<1> QED
  BY <1>1 DEF CurrentOn, Ahead, Attached

LEMMA PassOverCurrent ==
  ASSUME PlanInv, NEW p \in Operators, CurrentOn(p), PassOver(p)
  PROVE  CurrentOn(p)'
<1>1. /\ todo[p] # <<>> /\ ToSet(todo'[p]) = ToSet(Tail(todo[p])) /\ UNCHANGED <<netbox, seen>>
  BY PassOverFits DEF PassOver
<1>2. Head(todo[p]).op # "attach"
  <2>1. Head(todo[p]) \in Wants(script[p], copy[p], seen[p].dev)
    BY <1>1, AtHead
  <2> QED
    BY <2>1, Wanted DEF PassOver, Caught, AtStep
<1>3. Step("attach", EnrichPort(seen[p].dev)).op = "attach"
  BY DEF Step
<1> QED
  BY <1>1, <1>2, <1>3, AtHead, LessCurrent
-----------------------------------------------------------------------------
(* What NetBox and the object in hand have in common after each call.      *)

\* The plain calls but for three leave contexts and addresses alone.
LEMMA PlainKeeps ==
  ASSUME Typed, NEW p \in Operators, PlainCall(p), ~(Address(p) \/ Primary(p) \/ Drop(p))
  PROVE  UNCHANGED <<netbox.ctx, netbox.primary, netbox.at>> /\ Head(todo[p]).op # "attach"
<1>0. netbox \in NetBoxType
  BY DEF Typed
<1>1. CASE Find(p) \/ Asns(p)
  BY <1>1 DEF Find, Asns, Put, Doing, AtStep
<1>2. CASE Cable(p)
  <2>1. PICK l \in Links \cup {Tunnel} :
           /\ Doing(p, "cable", l)
           /\ Put(p, netbox) \/ Put(p, [netbox EXCEPT !.cables = @ \cup {l}])
    BY <1>2 DEF Cable
  <2>2. netbox' = netbox \/ netbox' = [netbox EXCEPT !.cables = @ \cup {l}]
    BY <2>1 DEF Put
  <2> QED
    BY <1>0, <2>1, <2>2 DEF NetBoxType, Doing, AtStep
<1>3. CASE Catalogue(p) \/ Tenancy(p) \/ AsnRegistry(p) \/ CloudSite(p) \/ Vlans(p)
  <2>1. PICK o : netbox' = Made(o) /\ Head(todo[p]).op \in {"make", "vlans"}
    BY <1>3 DEF Catalogue, Tenancy, AsnRegistry, CloudSite, Vlans, Make, Put, Doing, AtStep
  <2> QED
    BY <1>0, <2>1 DEF NetBoxType, Made
<1>4. CASE Rack(p) \/ Tag(p)
  <2>1. PICK d, label : netbox' = Labelled(d, label) /\ Head(todo[p]).op \in {"rack", "tag"}
    BY <1>4 DEF Rack, Tag, Put, Doing, AtStep
  <2> QED
    BY <1>0, <2>1 DEF NetBoxType, Labelled
<1>5. CASE Session(p)
  <2>1. PICK l : netbox' = [netbox EXCEPT !.sessions = @ \cup {l}] /\ Head(todo[p]).op = "session"
    BY <1>5 DEF Session, Put, Doing, AtStep
  <2> QED
    BY <1>0, <2>1 DEF NetBoxType
<1> QED
  BY <1>1, <1>2, <1>3, <1>4, <1>5 DEF PlainCall

\* What cannot be ahead of a script.
LEMMA NotWanted ==
  ASSUME PlanInv, NEW p \in Operators, NEW st \in ToSet(todo[p])
  PROVE  /\ st.op = "primary" => script[p] \in {"sync", "enrich"}
         /\ st.op \in {"orphans", "free", "drop"} => script[p] = "enrich"
         /\ st.op \in {"free", "drop"} => st.on \in Ports \ copy[p].ports /\ st.on # EnrichPort(st.on[1])
         /\ st.op = "replace" => script[p] = "populate"
         /\ st.op = "merge" => script[p] \in {"contexts", "enrich", "seed"}
BY Wanted DEF PlanInv

LEMMA RecordCurrent ==
  ASSUME Typed, PlanInv, NEW p \in Operators, CurrentOn(p), Create(p) \/ Fetch(p)
  PROVE  CurrentOn(p)'
<1>0. DOMAIN seen = Operators /\ netbox \in NetBoxType /\ \A op, on : Step(op, on).op = op
  BY DEF Typed, Step
<1>1. CASE Create(p)
  <2>1. PICK d \in Devices : Doing(p, "create", d)
                             /\ netbox' = [netbox EXCEPT !.devices = @ \cup {d}]
    BY <1>1 DEF Create
  <2>2. /\ PlanInv' /\ script[p] \in {"populate", "seed"} /\ script' = script
        /\ seen' = [seen EXCEPT ![p] = Record(d)]
    BY <1>1, <2>1, CreateFits DEF Create, Continue
  <2>3. seen'[p] = Record(d) /\ netbox'.ctx = netbox.ctx
    BY <1>0, <2>1, <2>2 DEF NetBoxType
  <2>4. \A st \in ToSet(todo'[p]) : st.op \notin {"primary", "orphans", "free", "drop"}
    <3>1. \A st \in ToSet(todo'[p]) : st \in Wants(script[p], copy'[p], seen'[p].dev)
      BY <2>2 DEF PlanInv
    <3> QED
      BY <2>2, <3>1, Wanted
  <2> QED
    BY <1>0, <2>3, <2>4 DEF CurrentOn, Ahead, Record
<1>2. CASE Fetch(p)
  <2>1. PICK d \in Devices : Doing(p, "fetch", d) /\ netbox' = netbox /\ todo[p] # <<>>
    BY <1>2 DEF Fetch, Doing, AtStep
  <2>2. CASE d \notin netbox.devices
    <3>1. seen' = seen /\ ToSet(todo'[p]) = ToSet(Tail(todo[p])) /\ Head(todo[p]).op = "fetch"
      BY <1>2, <2>1, <2>2, FetchFits DEF Doing, AtStep
    <3> QED
      BY <1>0, <2>1, <3>1, AtHead, LessCurrent
  <2>3. CASE d \in netbox.devices
    <3>1. /\ seen'[p] = Record(d)
          /\ \A y \in ToSet(Tail(todo[p])) : y.op = "fetch"
          /\ ToSet(todo'[p]) = ToSet(Tail(todo[p])) \cup AtDevice(script[p], copy[p], d)
          /\ script[p] \in {"contexts", "enrich", "sync", "seed"}
      BY <1>0, <1>2, <2>1, <2>3, FetchFits
    <3>2. \A st \in ToSet(todo'[p]) : st.op \notin {"free", "drop"}
      BY <1>0, <3>1 DEF AtDevice, Managing
    <3>3. Step("orphans", None) \in ToSet(todo'[p]) /\ d \in Lab =>
             Step("attach", EnrichPort(d)) \in ToSet(todo'[p])
      <4>1. CASE script[p] = "enrich"
        BY <3>1, <4>1 DEF AtDevice, Managing
      <4>2. CASE script[p] # "enrich"
        BY <1>0, <3>1, <4>2 DEF AtDevice, Managing
      <4> QED
        BY <4>1, <4>2
    <3> QED
      BY <1>0, <2>1, <3>1, <3>2, <3>3 DEF CurrentOn, Ahead, Record
  <2> QED
    BY <2>2, <2>3
<1> QED
  BY <1>1, <1>2

LEMMA SaveCurrent ==
  ASSUME Typed, PlanInv, NEW p \in Operators, CurrentOn(p), Replace(p) \/ Merge(p)
  PROVE  CurrentOn(p)'
<1>0. netbox \in NetBoxType /\ \A op, on : Step(op, on).op = op
  BY DEF Typed, Step
<1>1. PICK ctx : Save(p, ctx)
  BY DEF Replace, Merge
<1>2. /\ todo[p] # <<>> /\ seen'[p].dev = seen[p].dev
      /\ ToSet(todo'[p]) = ToSet(Tail(todo[p])) /\ script' = script
      /\ Head(todo[p]).op \in {"replace", "merge"}
      /\ script[p] \in {"populate", "contexts", "enrich", "seed"}
      /\ Head(todo[p]).op = "replace" => script[p] = "populate"
      /\ Head(todo[p]).op = "merge" => script[p] \in {"contexts", "enrich", "seed"}
  <2>1. todo[p] # <<>> /\ Head(todo[p]).op \in {"replace", "merge"} /\ script' = script
    BY DEF Replace, Merge, AtStep, Save, Done, Continue
  <2> QED
    BY <1>1, <2>1, SaveFits, AtHead, NotWanted
<1>3. UNCHANGED <<netbox.at, netbox.primary>>
  BY <1>0, <1>1 DEF Save, NetBoxType
<1>4. \A st \in ToSet(todo'[p]) : st.op \in {"create", "cable", "orphans", "fetch"}
  BY <1>2, AtHead DEF Later
<1>5. Step("attach", EnrichPort(seen[p].dev)) \notin ToSet(todo[p])
  BY <1>0, <1>2, <1>4, AtHead
<1>6. ToSet(todo'[p]) \subseteq ToSet(todo[p])
  BY <1>2, AtHead
<1> QED
  BY <1>0, <1>2, <1>3, <1>4, <1>5, <1>6 DEF CurrentOn, Ahead, Attached

LEMMA AttachCurrent ==
  ASSUME Typed, PlanInv, NEW p \in Operators, CurrentOn(p), Attach(p)
  PROVE  CurrentOn(p)'
<1>0. netbox \in NetBoxType /\ \A op, on : Step(op, on).op = op
  BY DEF Typed, Step
<1>1. PICK i \in netbox.ports :
         /\ Doing(p, "attach", i)
         /\ netbox' = [netbox EXCEPT !.at[AddressOf(i)] = i]
         /\ seen' = [seen EXCEPT ![p].primary = IF Exists(AddressOf(i)) THEN @ ELSE None]
  BY DEF Attach
<1>2. /\ todo[p] # <<>> /\ Head(todo[p]).op = "attach" /\ Head(todo[p]).on = i
      /\ ToSet(todo'[p]) = ToSet(Tail(todo[p]))
      /\ seen'[p].dev = seen[p].dev /\ seen'[p].ctx = seen[p].ctx
  BY <1>1, AttachFits DEF Doing, AtStep
<1>3. /\ seen[p].dev \in Lab /\ script[p] \in {"sync", "enrich"}
      /\ i \in {SyncPort(seen[p].dev), EnrichPort(seen[p].dev)}
      /\ script[p] = "enrich" => i = EnrichPort(seen[p].dev)
  BY <1>2, AtHead, Wanted
<1>4. \A st \in ToSet(todo'[p]) : st.op \in {"primary", "merge", "orphans", "fetch"}
  BY <1>2, <1>3, AtHead DEF Later
<1>5. UNCHANGED <<netbox.ctx, netbox.primary>> /\ netbox'.at[Mgmt(seen[p].dev)] = i
  BY <1>0, <1>1, <1>3, MgmtAddress DEF NetBoxType
<1>6. seen'[p].primary \in {seen[p].primary, None}
  BY <1>1 DEF Typed, ObjectType
<1>7. Mgmt(seen[p].dev) # None
  BY <1>3, InventoryAssumption DEF Addresses
<1>8. ToSet(todo'[p]) \subseteq ToSet(todo[p])
  BY <1>2, AtHead
<1>9. Step("orphans", None) \in ToSet(todo'[p]) => script[p] = "enrich"
  BY <1>0, <1>8, NotWanted
<1> QED
  BY <1>0, <1>2, <1>3, <1>4, <1>5, <1>6, <1>7, <1>8, <1>9 DEF CurrentOn, Ahead, Attached

LEMMA OrphansCurrent ==
  ASSUME Typed, PlanInv, NEW p \in Operators, CurrentOn(p), Orphans(p)
  PROVE  CurrentOn(p)'
<1>0. netbox \in NetBoxType /\ \A op, on : Step(op, on).op = op /\ Step(op, on).on = on
  BY DEF Typed, Step
<1>1. PICK d \in Devices : AtStep(p, "orphans") /\ seen[p].dev = d
  BY DEF Orphans
<1> DEFINE orphans == PortsOf(d, netbox.ports) \ (copy[p].ports \cup {EnrichPort(d)})
<1>2. /\ todo[p] # <<>> /\ Head(todo[p]).op = "orphans" /\ UNCHANGED <<netbox, seen>>
      /\ ToSet(todo'[p]) = ToSet(Tail(todo[p])) \cup {Step("free", i) : i \in orphans}
  BY <1>1, OrphansFits DEF AtStep
<1>3. Head(todo[p]) \in Wants("enrich", copy[p], seen[p].dev) /\ script[p] = "enrich"
  BY <1>2, AtHead, Wanted
<1>4. Head(todo[p]) = Step("orphans", None)
  BY <1>0, <1>2, <1>3 DEF Wants, Managing
<1>5. \A y \in ToSet(Tail(todo[p])) : y.op = "fetch"
  BY <1>2, <1>3, AtHead DEF Later
<1>6. Step("attach", EnrichPort(d)) \notin ToSet(todo[p]) /\ Step("orphans", None) \in ToSet(todo[p])
  BY <1>0, <1>2, <1>4, <1>5, AtHead
<1>7. d \in Lab => Attached(d)
  BY <1>1, <1>6 DEF CurrentOn, Ahead
<1>8. \A i \in orphans : i[1] = d
  BY DEF PortsOf
<1> HIDE DEF orphans
<1>9. \A i : Step("free", i) \in ToSet(todo'[p]) => i[1] = d
  BY <1>0, <1>2, <1>5, <1>8
<1>10. \A st \in ToSet(todo'[p]) : st.op \in {"fetch", "free"}
  BY <1>0, <1>2, <1>5
<1> QED
  BY <1>0, <1>2, <1>7, <1>9, <1>10 DEF CurrentOn, Ahead, Attached

LEMMA FreedCurrent ==
  ASSUME Typed, PlanInv, NEW p \in Operators, CurrentOn(p), Free(p) \/ Drop(p)
  PROVE  CurrentOn(p)'
<1>0. netbox \in NetBoxType /\ \A op, on : Step(op, on).op = op /\ Step(op, on).on = on
  BY DEF Typed, Step
<1>1. PICK i \in Ports : /\ todo[p] # <<>> /\ Head(todo[p]).op \in {"free", "drop"} /\ Head(todo[p]).on = i
                         /\ netbox'.at = Freed(i).at /\ seen' = seen /\ script' = script
                         /\ ToSet(todo'[p]) \subseteq ToSet(Tail(todo[p])) \cup {Step("drop", i)}
  <2>1. CASE Free(p)
    <3>1. PICK i \in Ports : Doing(p, "free", i)
      BY <2>1 DEF Free
    <3> QED
      BY <2>1, <3>1, FreeFits DEF Doing, AtStep
  <2>2. CASE Drop(p)
    <3>1. PICK i \in Ports : /\ Doing(p, "drop", i)
             /\ netbox' = [Freed(i) EXCEPT !.ports = @ \ {i}, !.cables = {c \in @ : i \notin c}]
      BY <2>2 DEF Drop, Put
    <3>2. Freed(i) \in NetBoxType
      BY <1>0, FreedType
    <3>3. netbox'.at = Freed(i).at
      BY <3>1, <3>2 DEF NetBoxType
    <3> QED
      BY <2>2, <3>1, <3>3, PlainFits DEF Doing, AtStep, PlainCall
  <2> QED
    BY <2>1, <2>2
<1>2. script[p] = "enrich" /\ i # EnrichPort(i[1])
  BY <1>1, AtHead, NotWanted
<1>3. \A st \in ToSet(Tail(todo[p])) : st.op \in {"free", "fetch"}
  BY <1>1, <1>2, AtHead DEF Later
<1>4. \A st \in ToSet(todo'[p]) : st.op \in {"free", "drop", "fetch"}
  BY <1>0, <1>1, <1>3
<1>5. Head(todo[p]) = Step("free", i) \/ Head(todo[p]) = Step("drop", i)
  <2>1. Head(todo[p]) \in Wants("enrich", copy[p], seen[p].dev)
    BY <1>1, <1>2, AtHead
  <2> QED
    BY <1>0, <1>1, <2>1 DEF Wants, Managing
<1>6. i[1] \in Lab => Attached(i[1])
  BY <1>1, <1>5, AtHead DEF CurrentOn, Ahead
<1>7. \A j \in Ports : Step("free", j) \in ToSet(todo'[p]) \/ Step("drop", j) \in ToSet(todo'[p])
         => (j[1] \in Lab => Attached(j[1]))
  <2> SUFFICES ASSUME NEW j \in Ports, j # i, j[1] \in Lab,
                      Step("free", j) \in ToSet(todo'[p]) \/ Step("drop", j) \in ToSet(todo'[p])
               PROVE  Attached(j[1])
    BY <1>6
  <2>1. Step("free", j) \in ToSet(todo[p]) \/ Step("drop", j) \in ToSet(todo[p])
    <3>1. Step("free", j) # Step("drop", i) /\ Step("drop", j) # Step("drop", i)
      BY <1>0
    <3> QED
      BY <1>1, <3>1, AtHead
  <2> QED
    BY <2>1 DEF CurrentOn, Ahead
<1>8. \A d \in Lab : Attached(d) => Attached(d)'
  <2> SUFFICES ASSUME NEW d \in Lab, netbox.at[Mgmt(d)] = EnrichPort(d)
               PROVE  netbox'.at[Mgmt(d)] = EnrichPort(d)
    BY DEF Attached
  <2>1. EnrichPort(d)[1] = d
    BY DEF EnrichPort
  <2>2. EnrichPort(d) # i /\ Mgmt(d) \in Addresses
    BY <1>2, <2>1 DEF Addresses
  <2> QED
    BY <1>0, <1>1, <2>2 DEF Freed, NetBoxType
<1> QED
  BY <1>0, <1>4, <1>7, <1>8 DEF CurrentOn, Ahead

LEMMA CallCurrent ==
  ASSUME Typed, PlanInv, NEW p \in Operators, CurrentOn(p), Call(p)
  PROVE  CurrentOn(p)'
<1>0. /\ netbox \in NetBoxType /\ todo[p] # <<>> /\ script' = script /\ PlanInv'
      /\ \A op, on : Step(op, on).op = op
  BY CallFrame, StepFits DEF Typed, Step, Next
<1>1. CASE PlainCall(p) /\ ~(Address(p) \/ Primary(p) \/ Drop(p))
  BY <1>0, <1>1, PlainKeeps, PlainFits, AtHead, LessCurrent
<1>2. CASE Address(p)
  <2>1. /\ UNCHANGED <<netbox.ctx, netbox.primary, seen>> /\ script[p] = "populate"
        /\ ToSet(todo'[p]) \subseteq ToSet(todo[p])
    <3>1. \E i : netbox' \in {netbox, [netbox EXCEPT !.at[AddressOf(i)] = i]}
      BY <1>2 DEF Address, Put
    <3> QED
      BY <1>0, <1>2, <3>1, PlainFits, AtHead, CallOf DEF PlainCall, NetBoxType
  <2>2. \A st \in ToSet(todo'[p]) : st.op \notin {"primary", "orphans", "free", "drop"}
    BY <1>0, <2>1, NotWanted
  <2> QED
    BY <1>0, <2>1, <2>2 DEF CurrentOn, Ahead
<1>3. CASE Primary(p)
  <2>1. PICK d \in Lab : /\ seen[p].dev = d /\ Head(todo[p]).op = "primary"
                         /\ \/ netbox' = netbox
                            \/ netbox' = [netbox EXCEPT !.primary[d] = Mgmt(d)]
    BY <1>3 DEF Primary, Put, AtStep
  <2>2. /\ UNCHANGED <<netbox.ctx, netbox.at, seen>> /\ ToSet(todo'[p]) \subseteq ToSet(todo[p])
        /\ netbox'.primary[d] \in {netbox.primary[d], Mgmt(d)}
    BY <1>0, <1>3, <2>1, PlainFits, AtHead DEF PlainCall, NetBoxType, Devices
  <2>3. Step("attach", EnrichPort(d)) \in ToSet(todo[p]) => Step("attach", EnrichPort(d)) \in ToSet(todo'[p])
    BY <1>0, <1>3, <2>1, PlainFits, AtHead DEF PlainCall
  <2> QED
    BY <1>0, <2>1, <2>2, <2>3 DEF CurrentOn, Ahead, Attached
<1>4. CASE Port(p)
  <2>1. PICK i \in Ports : Doing(p, "port", i) /\ netbox' = [netbox EXCEPT !.ports = @ \cup {i}] /\ seen' = seen
    BY <1>4 DEF Port
  <2>2. /\ UNCHANGED <<netbox.ctx, netbox.primary, netbox.at>> /\ Head(todo[p]).op = "port"
    BY <1>0, <2>1 DEF NetBoxType, Doing, AtStep
  <2>3. /\ ToSet(Tail(todo[p])) \subseteq ToSet(todo'[p])
        /\ \A st \in ToSet(todo'[p]) : st \in ToSet(Tail(todo[p])) \/ st = Step("address", i)
    BY <1>4, <2>1, PortFits
  <2>4. \A st \in ToSet(todo'[p]) : st.op # "address" => st \in ToSet(todo[p])
    BY <1>0, <2>3, AtHead
  <2>5. Step("attach", EnrichPort(seen[p].dev)) \in ToSet(todo[p]) =>
            Step("attach", EnrichPort(seen[p].dev)) \in ToSet(todo'[p])
    BY <1>0, <2>2, <2>3, AtHead
  <2> QED
    BY <2>1, <2>2, <2>4, <2>5, LessCurrent
<1>5. CASE Peers(p)
  <2>1. /\ UNCHANGED <<netbox, seen>> /\ Head(todo[p]).op = "peers"
        /\ ToSet(todo'[p]) = ToSet(Tail(todo[p])) \cup {Step("session", l) : l \in Peerings(copy[p])}
    BY <1>5, PeersFits DEF Peers, AtStep
  <2> QED
    BY <1>0, <2>1, AtHead, LessCurrent
<1>6. CASE ReadDevices(p) \/ ReadInterfaces(p) \/ ReadAddresses(p) \/ ReadCables(p) \/ Write(p)
  <2>1. /\ UNCHANGED <<netbox, seen>> /\ ToSet(todo'[p]) = ToSet(Tail(todo[p]))
        /\ Head(todo[p]).op # "attach"
    <3>1. CASE Write(p)
      BY <3>1, WriteFits DEF Write, AtStep
    <3>2. CASE ReadDevices(p) \/ ReadInterfaces(p) \/ ReadAddresses(p) \/ ReadCables(p)
      BY <3>2, ReadFits DEF ReadDevices, ReadInterfaces, ReadAddresses, ReadCables, Read, AtStep
    <3> QED
      BY <1>6, <3>1, <3>2
  <2> QED
    BY <1>0, <2>1, AtHead, LessCurrent
<1> QED
  BY <1>1, <1>2, <1>3, <1>4, <1>5, <1>6, RecordCurrent, SaveCurrent, AttachCurrent,
     OrphansCurrent, FreedCurrent
  DEF Call, PlainCall

LEMMA StepCurrent == Typed /\ PlanInv /\ Current /\ [Next]_vars => Current'
<1> SUFFICES ASSUME Typed, PlanInv, Current, [Next]_vars PROVE Current'
  OBVIOUS
<1>1. CASE UNCHANGED vars
  BY <1>1 DEF Current, CurrentOn, Ahead, Attached, Idle, vars, ledgers
<1>2. ASSUME Next, NEW p \in alone' PROVE CurrentOn(p)'
  <2>1. p \in Operators
    BY <1>2, WhoIsAlone
  <2>2. p \in alone => CurrentOn(p)
    BY DEF Current
  <2> QED
    BY <1>2, <2>1, <2>2, WhoIsAlone, StartCurrent, CallCurrent, PassOverCurrent
<1> QED
  BY <1>1, <1>2, WhoIsAlone DEF Current
-----------------------------------------------------------------------------
(* What a script that runs alone has yet to do for its promise is ahead.   *)

PopulateOn(p) ==
    LET A == Ahead(p)
        k == copy[p]
    IN  /\ \A d \in k.devices \ {Vpn} :
            \/ Step("create", d) \in A
            \/ /\ d \in netbox.devices
               /\ \/ Step("replace", None) \in A /\ seen[p].dev = d
                  \/ Bounded(netbox, k, d)
        /\ \A i \in k.ports : i[1] # Vpn =>
            Step("create", i[1]) \in A \/ Step("port", i) \in A \/ i \in netbox.ports
        /\ \A i \in k.addressed : i[1] # Vpn =>
            \/ Step("create", i[1]) \in A \/ Step("port", i) \in A \/ Step("address", i) \in A
            \/ netbox.at[AddressOf(i)] # None
        /\ \A l \in k.links :
            \/ Step("cable", l) \in A
            \/ /\ l \subseteq netbox.ports => l \in netbox.cables
               /\ \A st \in A : st.op = "cable"

ContextsOn(p) == \A d \in copy[p].devices \cap netbox.devices :
    \/ Step("fetch", d) \in Ahead(p)
    \/ Step("merge", None) \in Ahead(p) /\ seen[p].dev = d
    \/ Informed(netbox, copy[p], d)

\* The management address of d is, or is about to be, on interface i.
Moving(p, d, i) ==
    \/ Reached(d, i)
    \/ /\ seen[p].dev = d /\ Step("primary", None) \in Ahead(p)
       /\ Step("attach", i) \in Ahead(p) \/ netbox.at[Mgmt(d)] = i

SyncOn(p) == \A d \in Lab \cap netbox.devices :
    Step("fetch", d) \in Ahead(p) \/ Moving(p, d, SyncPort(d))

EnrichOn(p) == \A d \in copy[p].devices \cap netbox.devices :
    \/ Step("fetch", d) \in Ahead(p)
    \/ /\ d \in Lab => Moving(p, d, EnrichPort(d))
       /\ \/ Step("merge", None) \in Ahead(p) /\ seen[p].dev = d
          \/ "enriched" \in netbox.ctx[d].facts
       /\ \/ Step("orphans", None) \in Ahead(p) /\ seen[p].dev = d
          \/ \A i \in PortsOf(d, netbox.ports) :
                \/ i \in copy[p].ports \cup {EnrichPort(d)}
                \/ Step("free", i) \in Ahead(p) \/ Step("drop", i) \in Ahead(p)

EnterpriseOn(p) ==
    /\ Step("make", "tenancy") \in Ahead(p) \/ "tenancy" \in netbox.objects
    /\ Step("make", "asns") \in Ahead(p) \/ "asns" \in netbox.objects
    /\ Step("vlans", None) \in Ahead(p) \/ "vlans" \in netbox.objects
    /\ \A d \in Placed \cap netbox.devices :
        /\ Step("rack", d) \in Ahead(p) \/ <<"rack", d>> \in netbox.labels
        /\ Step("tag", d) \in Ahead(p) \/ <<"tag", d>> \in netbox.labels

BgpOn(p) == \A l \in Peerings(copy[p]) :
    Step("peers", None) \in Ahead(p) \/ Step("session", l) \in Ahead(p) \/ l \in netbox.sessions

SeedOn(p) ==
    /\ Step("cable", Tunnel) \in Ahead(p) \/ Tunnel \in netbox.cables
    /\ Step("find", Ce) \in Ahead(p) \/ Ce \in netbox.devices
    /\ Step("create", Vpn) \in Ahead(p) \/ Vpn \in netbox.devices
    /\ \/ Step("fetch", Ce) \in Ahead(p)
       \/ Step("merge", None) \in Ahead(p) /\ seen[p].dev = Ce
       \/ Tunnel0 \in netbox.ctx[Ce].observed
    /\ \/ Step("fetch", Vpn) \in Ahead(p)
       \/ Step("merge", None) \in Ahead(p) /\ seen[p].dev = Vpn
       \/ netbox.ctx[Vpn].boundary = "excluded"

KnownPorts == {i \in netbox.ports : i[1] \in netbox.devices}
GenerateOn(p) ==
    LET A == Ahead(p)
        k == copy[p]
        peers == KnownPorts \cap UNION netbox.cables
    IN  /\ Step("devices", None) \in A => Step("interfaces", None) \in A
        /\ Step("interfaces", None) \in A => Step("addresses", None) \in A
        /\ Step("addresses", None) \in A => Step("cables", None) \in A
        /\ Step("cables", None) \in A => Step("write", None) \in A
        /\ Step("devices", None) \in A \/
            \A f \in {"devices", "wan", "managed", "observed", "facts"} : k[f] = Inventory(netbox)[f]
        /\ Step("interfaces", None) \in A \/ Step("cables", None) \notin A \/ k.ports = KnownPorts
        /\ Step("addresses", None) \in A \/ k.addressed = {i \in KnownPorts : AddressesOn(i) # {}}
        /\ \/ Step("cables", None) \in A
           \/ k.ports = k.addressed \cup peers /\ k.links = {c \in netbox.cables : c \cap peers # {}}
        /\ Step("write", None) \in A \/ spec = k

Progress == \A p \in alone \cap clean :
    /\ script[p] = "populate" => PopulateOn(p)
    /\ script[p] = "contexts" => ContextsOn(p)
    /\ script[p] = "sync" => SyncOn(p)
    /\ script[p] = "enrich" => EnrichOn(p)
    /\ script[p] = "enterprise" => EnterpriseOn(p)
    /\ script[p] = "bgp" => BgpOn(p)
    /\ script[p] = "seed" => SeedOn(p)
    /\ script[p] = "generate" => GenerateOn(p)
-----------------------------------------------------------------------------
(* A step taken from the plan, and what it leaves.                         *)

LEMMA HeadIs ==
  ASSUME PlanInv, NEW p \in Operators, todo[p] # <<>>
  PROVE  /\ Head(todo[p]) = Step(Head(todo[p]).op, Head(todo[p]).on)
         /\ Head(todo[p]).op \in {"replace", "merge", "primary", "orphans", "vlans", "asns", "peers",
                                  "devices", "interfaces", "addresses", "cables", "write"}
                => Head(todo[p]).on = None
<1>1. Head(todo[p]) \in Wants(script[p], copy[p], seen[p].dev)
  BY AtHead
<1>2. Head(todo[p]) \in Steps
  BY HeadTailProperties DEF PlanInv
<1>3. \A s, k, d : \A st \in Wants(s, k, d) :
         st.op \in {"replace", "merge", "primary", "orphans", "vlans", "asns", "peers",
                    "devices", "interfaces", "addresses", "cables", "write"} => st.on = None
  BY DEF Wants, Step, Managing
<1> QED
  BY <1>1, <1>2, <1>3 DEF Steps, Step

\* A call takes away one step at most.
LEMMA Kept ==
  ASSUME Typed, PlanInv, NEW p \in Operators, Call(p)
  PROVE  /\ todo[p] # <<>> /\ Head(todo[p]) \in Ahead(p) /\ PlanInv'
         /\ \A st \in Ahead(p) : st = Head(todo[p]) \/ st \in Ahead(p)'
<1>1. todo[p] # <<>> /\ PlanInv'
  BY CallFrame, StepFits DEF Next
<1>2. ToSet(Tail(todo[p])) \subseteq ToSet(todo'[p])
  <2>1. CASE PlainCall(p)
    BY <2>1, PlainFits
  <2>2. CASE Create(p)
    BY <2>2, CreateFits DEF Create
  <2>3. CASE Fetch(p)
    BY <2>3, FetchFits DEF Fetch
  <2>4. CASE Port(p)
    BY <2>4, PortFits DEF Port
  <2>5. CASE Attach(p)
    BY <2>5, AttachFits
  <2>6. CASE Replace(p) \/ Merge(p)
    BY <1>1, <2>6, SaveFits DEF Replace, Merge
  <2>7. CASE Orphans(p)
    BY <2>7, OrphansFits DEF Orphans
  <2>8. CASE Free(p)
    BY <2>8, FreeFits DEF Free
  <2>9. CASE Peers(p)
    BY <2>9, PeersFits
  <2>10. CASE ReadDevices(p) \/ ReadInterfaces(p) \/ ReadAddresses(p) \/ ReadCables(p)
    BY <2>10, ReadFits DEF ReadDevices, ReadInterfaces, ReadAddresses, ReadCables
  <2>11. CASE Write(p)
    BY <2>11, WriteFits
  <2> QED
    BY <2>1, <2>2, <2>3, <2>4, <2>5, <2>6, <2>7, <2>8, <2>9, <2>10, <2>11 DEF Call, PlainCall
<1> QED
  BY <1>1, <1>2, AtHead DEF Ahead

\* A save leaves the context it was given: what it did not send is what the
\* object had when it was fetched.
LEMMA Saved ==
  ASSUME Typed, PlanInv, NEW p \in Operators, NEW ctx, Save(p, ctx), CurrentOn(p),
         AtStep(p, "merge") \/ AtStep(p, "replace")
  PROVE  /\ seen[p].dev \in Devices /\ netbox'.ctx[seen[p].dev] = ctx
         /\ \A d \in Devices \ {seen[p].dev} : netbox'.ctx[d] = netbox.ctx[d]
         /\ \A f \in {"ports", "cables", "at", "devices", "primary", "sessions"} : netbox'[f] = netbox[f]
<1>1. todo[p] # <<>> /\ netbox \in NetBoxType
  BY DEF AtStep, Typed
<1>2. Head(todo[p]) \in {Step("merge", None), Step("replace", None)} /\ Head(todo[p]) \in ToSet(todo[p])
  BY <1>1, HeadIs, AtHead DEF AtStep
<1>3. seen[p].dev \in Devices /\ seen[p].ctx = netbox.ctx[seen[p].dev]
  BY <1>2 DEF CurrentOn, Ahead
<1>4. CASE ctx = seen[p].ctx
  BY <1>3, <1>4 DEF Save
<1>5. CASE ctx # seen[p].ctx
  <2>1. netbox' = [netbox EXCEPT !.ctx[seen[p].dev] = ctx]
    BY <1>5 DEF Save
  <2> QED
    BY <1>1, <1>3, <2>1 DEF NetBoxType
<1> QED
  BY <1>4, <1>5

\* An interface has one cable.
LEMMA Disjoint ==
  ASSUME NEW l \in Links \cup {Tunnel}, NEW c \in Links \cup {Tunnel}, c \cap l # {}
  PROVE  c = l
BY LinksAssumption DEF DataPorts
-----------------------------------------------------------------------------
(* populate_netbox.                                                        *)

LEMMA PopulateStart ==
  ASSUME Typed, PlanInv, Sound, NEW p \in Operators, Start(p, "populate")
  PROVE  PopulateOn(p)'
<1>1. /\ todo'[p] = Plan("populate", spec) /\ copy'[p] = spec
      /\ spec \in SpecType /\ WellFormed(spec)
  BY DEF Start, Typed, PlanInv, Sound
<1>2. ToSet(todo'[p]) = {Step("make", "catalogue")}
         \cup {Step("create", x) : x \in spec.devices \ {Vpn}} \cup {Step("cable", l) : l \in spec.links}
  BY <1>1, PopulatePlan
<1>3. \A i \in spec.ports : i[1] \in spec.devices
  BY <1>1 DEF WellFormed
<1>4. spec.addressed \subseteq spec.ports
  BY <1>1 DEF WellFormed
<1> QED
  BY <1>1, <1>2, <1>3, <1>4 DEF PopulateOn, Ahead

LEMMA PopulateCreates ==
  ASSUME Typed, PlanInv, Sound, NEW p \in Operators, script[p] = "populate", PopulateOn(p), Create(p)
  PROVE  PopulateOn(p)'
<1>0. /\ netbox \in NetBoxType /\ DOMAIN seen = Operators
      /\ \A op, on : Step(op, on).op = op /\ Step(op, on).on = on
  BY DEF Typed, Step
<1>1. PICK d \in Devices : Doing(p, "create", d) /\ netbox' = [netbox EXCEPT !.devices = @ \cup {d}]
                           /\ copy' = copy
  BY DEF Create
<1>2. /\ seen'[p].dev = d
      /\ ToSet(todo'[p]) = ToSet(Tail(todo[p])) \cup AtDevice("populate", copy[p], d)
  BY <1>0, <1>1, CreateFits DEF Record
<1>3. /\ todo[p] # <<>> /\ Head(todo[p]).op = "create" /\ Head(todo[p]) = Step("create", d)
      /\ \A st \in Ahead(p) : st = Head(todo[p]) \/ st \in Ahead(p)'
      /\ Head(todo[p]) \in Ahead(p)
  BY <1>1, Kept, HeadIs DEF Doing, AtStep, Call
<1>4. Step("replace", None) \notin Ahead(p)
  <2>1. \A st \in ToSet(Tail(todo[p])) : st.op \in {"create", "cable"}
    BY <1>3, AtHead DEF Later
  <2> QED
    BY <1>0, <1>3, <2>1, AtHead DEF Ahead
<1>5. /\ Step("replace", None) \in Ahead(p)'
      /\ \A i \in copy[p].ports : i[1] = d => Step("port", i) \in Ahead(p)'
  BY <1>2 DEF Ahead, AtDevice, PortsOf
<1>6. copy[p].addressed \subseteq copy[p].ports
  BY DEF Sound, WellFormed
<1>7. /\ netbox'.devices = netbox.devices \cup {d}
      /\ UNCHANGED <<netbox.ports, netbox.at, netbox.cables, netbox.ctx>>
  BY <1>0, <1>1 DEF NetBoxType
<1> DEFINE A == Ahead(p)
<1>8. \A x : Step("create", x) \in A => x = d \/ Step("create", x) \in A'
  BY <1>0, <1>3
<1>9. \A op, x : op # "create" /\ Step(op, x) \in A => Step(op, x) \in A'
  BY <1>0, <1>3
<1>10. ASSUME NEW x \in copy[p].devices \ {Vpn}
       PROVE  \/ Step("create", x) \in A'
              \/ /\ x \in netbox'.devices
                 /\ \/ Step("replace", None) \in A' /\ seen'[p].dev = x
                    \/ Bounded(netbox', copy[p], x)
  BY <1>1, <1>2, <1>4, <1>5, <1>7, <1>8 DEF PopulateOn, Bounded
<1>11. \A i \in copy[p].ports : i[1] # Vpn =>
          Step("create", i[1]) \in A' \/ Step("port", i) \in A' \/ i \in netbox'.ports
  BY <1>5, <1>7, <1>8, <1>9 DEF PopulateOn
<1>12. \A i \in copy[p].addressed : i[1] # Vpn =>
          \/ Step("create", i[1]) \in A' \/ Step("port", i) \in A' \/ Step("address", i) \in A'
          \/ netbox'.at[AddressOf(i)] # None
  BY <1>5, <1>6, <1>7, <1>8, <1>9 DEF PopulateOn
<1>13. \A l \in copy[p].links : Step("cable", l) \in A'
  BY <1>3, <1>9 DEF PopulateOn
<1> QED
  BY <1>1, <1>10, <1>11, <1>12, <1>13 DEF PopulateOn

LEMMA PopulateSaves ==
  ASSUME Typed, PlanInv, NEW p \in Operators, script[p] = "populate", PopulateOn(p), Replace(p),
         CurrentOn(p)
  PROVE  PopulateOn(p)'
<1>0. copy' = copy /\ \A op, on : Step(op, on).op = op
  BY DEF Replace, Save, Done, Step
<1>1. /\ Save(p, Fresh(copy[p], seen[p].dev))
      /\ seen[p].dev \in Devices /\ netbox'.ctx[seen[p].dev] = Fresh(copy[p], seen[p].dev)
      /\ \A d \in Devices \ {seen[p].dev} : netbox'.ctx[d] = netbox.ctx[d]
      /\ UNCHANGED <<netbox.ports, netbox.cables, netbox.at, netbox.devices>>
  BY Saved DEF Replace
<1>2. /\ Head(todo[p]).op = "replace" /\ Head(todo[p]) \in Ahead(p)
      /\ \A st \in Ahead(p) : st = Head(todo[p]) \/ st \in Ahead(p)'
  BY Kept DEF Call, Replace, AtStep
<1>3. Bounded(netbox', copy[p], seen[p].dev)
  BY <1>1 DEF Bounded, Fresh
<1>4. \A d \in Devices \ {seen[p].dev} : Bounded(netbox, copy[p], d) => Bounded(netbox', copy[p], d)
  BY <1>1 DEF Bounded
<1>5. copy[p].devices \subseteq Devices
  BY DEF Typed, SpecType
<1>6. \A op, x : op # "replace" /\ Step(op, x) \in Ahead(p) => Step(op, x) \in Ahead(p)'
  BY <1>0, <1>2
<1>7. \A l \in copy[p].links : Step("cable", l) \in Ahead(p)'
  BY <1>2, <1>6 DEF PopulateOn
<1>8. \A d \in copy[p].devices \ {Vpn} :
         Step("create", d) \in Ahead(p)' \/ (d \in netbox'.devices /\ Bounded(netbox', copy[p], d))
  BY <1>1, <1>3, <1>4, <1>5, <1>6 DEF PopulateOn
<1> QED
  BY <1>0, <1>1, <1>6, <1>7, <1>8 DEF PopulateOn

LEMMA PopulateCall ==
  ASSUME Typed, PlanInv, Sound, NEW p \in Operators, CurrentOn(p), script[p] = "populate",
         PopulateOn(p), Call(p)
  PROVE  PopulateOn(p)'
<1>0. /\ netbox \in NetBoxType /\ copy' = copy /\ copy[p] \in SpecType /\ WellFormed(copy[p])
      /\ \A op, on : Step(op, on).op = op /\ Step(op, on).on = on
  BY CopyStays DEF Typed, Step, Sound
<1>1. /\ todo[p] # <<>> /\ Head(todo[p]) \in Ahead(p) /\ PlanInv'
      /\ \A st \in Ahead(p) : st = Head(todo[p]) \/ st \in Ahead(p)'
  BY Kept
<1>2. CASE Port(p)
  <2>1. PICK i \in Ports : Doing(p, "port", i) /\ netbox' = [netbox EXCEPT !.ports = @ \cup {i}]
                           /\ seen' = seen
    BY <1>2 DEF Port
  <2>2. Head(todo[p]) = Step("port", i) /\ netbox'.ports = netbox.ports \cup {i}
        /\ UNCHANGED <<netbox.devices, netbox.at, netbox.cables, netbox.ctx>>
    BY <1>0, <1>1, <2>1, HeadIs DEF Doing, AtStep, NetBoxType
  <2>3. i \in copy[p].addressed => Step("address", i) \in Ahead(p)'
    BY <1>2, <2>1, PortFits DEF Ahead
  <2>4. \A op, x : Step(op, x) \in Ahead(p) => Step(op, x) \in Ahead(p)' \/ (op = "port" /\ x = i)
    BY <1>0, <1>1, <2>2
  <2>5. \A l \in copy[p].links : Step("cable", l) \in Ahead(p)'
    BY <1>0, <1>1, <2>2, <2>4 DEF PopulateOn
  <2> QED
    BY <1>0, <2>1, <2>2, <2>3, <2>4, <2>5 DEF PopulateOn, Bounded
<1>3. CASE Address(p)
  <2>1. PICK i \in Ports : Doing(p, "address", i)
           /\ Put(p, IF Exists(AddressOf(i)) THEN netbox ELSE [netbox EXCEPT !.at[AddressOf(i)] = i])
    BY <1>3 DEF Address
  <2>2. Head(todo[p]) = Step("address", i) /\ seen' = seen
    BY <1>1, <2>1, HeadIs DEF Doing, AtStep, Put
  <2>3. i \in copy[p].addressed /\ i # None /\ AddressOf(i) \in Addresses
    <3>1. i \in copy[p].addressed
      BY <1>0, <1>1, <2>2, AtHead, Wanted
    <3> QED
      BY <1>0, <3>1, InventoryAssumption DEF WellFormed
  <2>4. /\ UNCHANGED <<netbox.devices, netbox.ports, netbox.cables, netbox.ctx>>
        /\ netbox'.at[AddressOf(i)] # None
        /\ \A a \in Addresses : netbox.at[a] # None => netbox'.at[a] # None
    <3>1. CASE Exists(AddressOf(i))
      BY <2>1, <3>1 DEF Put, Exists
    <3>2. CASE ~Exists(AddressOf(i))
      BY <1>0, <2>1, <2>3, <3>2 DEF Put, NetBoxType
    <3> QED
      BY <3>1, <3>2
  <2>5. \A op, x : Step(op, x) \in Ahead(p) => Step(op, x) \in Ahead(p)' \/ (op = "address" /\ x = i)
    BY <1>0, <1>1, <2>2
  <2>6. \A j \in copy[p].addressed : AddressOf(j) \in Addresses
    BY <1>0 DEF WellFormed
  <2>7. \A l \in copy[p].links : Step("cable", l) \in Ahead(p)'
    BY <1>0, <1>1, <2>2, <2>5 DEF PopulateOn
  <2> QED
    BY <1>0, <2>2, <2>4, <2>5, <2>6, <2>7 DEF PopulateOn, Bounded
<1>4. CASE Catalogue(p)
  <2>1. UNCHANGED <<netbox.devices, netbox.ports, netbox.cables, netbox.ctx, netbox.at, seen>>
        /\ Head(todo[p]).op = "make"
    BY <1>0, <1>4 DEF Catalogue, Make, Made, Put, NetBoxType, Doing, AtStep
  <2>2. \A op, x : Step(op, x) \in Ahead(p) => Step(op, x) \in Ahead(p)' \/ op = "make"
    BY <1>0, <1>1, <2>1
  <2>3. \A l \in copy[p].links : Step("cable", l) \in Ahead(p)'
    BY <1>0, <1>1, <2>1, <2>2 DEF PopulateOn
  <2> QED
    BY <1>0, <2>1, <2>2, <2>3 DEF PopulateOn, Bounded
<1>5. CASE Cable(p)
  <2>1. PICK l \in Links \cup {Tunnel} : Doing(p, "cable", l)
           /\ Put(p, IF l \subseteq netbox.ports /\ Uncabled(l)
                     THEN [netbox EXCEPT !.cables = @ \cup {l}] ELSE netbox)
    BY <1>5 DEF Cable
  <2>2. Head(todo[p]) = Step("cable", l) /\ seen' = seen
    BY <1>1, <2>1, HeadIs DEF Doing, AtStep, Put
  <2>3. /\ UNCHANGED <<netbox.devices, netbox.ports, netbox.at, netbox.ctx>>
        /\ netbox.cables \subseteq netbox'.cables
        /\ l \subseteq netbox.ports => l \in netbox'.cables
    <3>1. CASE l \subseteq netbox.ports /\ Uncabled(l)
      BY <1>0, <2>1, <3>1 DEF Put, NetBoxType
    <3>2. CASE ~(l \subseteq netbox.ports /\ Uncabled(l))
      <4>1. ~Uncabled(l) => l \in netbox.cables
        BY <1>0, Disjoint DEF Uncabled, NetBoxType
      <4> QED
        BY <2>1, <3>2, <4>1 DEF Put
    <3> QED
      BY <3>1, <3>2
  <2>4. \A st \in Ahead(p)' : st.op = "cable"
    BY <1>1, <1>5, <2>2, <1>0, PlainFits, AtHead DEF Ahead, Later, PlainCall
  <2>5. \A op, x : Step(op, x) \in Ahead(p) => Step(op, x) \in Ahead(p)' \/ (op = "cable" /\ x = l)
    BY <1>0, <1>1, <2>2
  <2>6. \A m \in copy[p].links :
          \/ Step("cable", m) \in Ahead(p)'
          \/ /\ m \subseteq netbox'.ports => m \in netbox'.cables
             /\ \A st \in Ahead(p)' : st.op = "cable"
    BY <2>3, <2>4, <2>5 DEF PopulateOn
  <2> QED
    BY <1>0, <2>2, <2>3, <2>5, <2>6 DEF PopulateOn, Bounded
<1>6. Create(p) \/ Replace(p) \/ Port(p) \/ Address(p) \/ Catalogue(p) \/ Cable(p)
  BY CallOf DEF Call
<1> QED
  BY <1>2, <1>3, <1>4, <1>5, <1>6, PopulateCreates, PopulateSaves
-----------------------------------------------------------------------------
(* populate_netbox_contexts and sync_netbox_mgmt_ips.                      *)

LEMMA ContextsStart ==
  ASSUME Typed, PlanInv, NEW p \in Operators, Start(p, "contexts")
  PROVE  ContextsOn(p)'
<1>1. todo'[p] = Plan("contexts", spec) /\ copy'[p] = spec /\ spec \in SpecType
  BY DEF Start, Typed, PlanInv
<1> QED
  BY <1>1, FetchPlan DEF ContextsOn, Ahead

LEMMA ContextsCall ==
  ASSUME Typed, PlanInv, NEW p \in Operators, CurrentOn(p), script[p] = "contexts",
         ContextsOn(p), Call(p)
  PROVE  ContextsOn(p)'
<1>0. /\ netbox \in NetBoxType /\ copy' = copy /\ copy[p] \in SpecType /\ DOMAIN seen = Operators
      /\ \A op, on : Step(op, on).op = op /\ Step(op, on).on = on
  BY CopyStays DEF Typed, Step
<1>1. /\ todo[p] # <<>> /\ Head(todo[p]) \in Ahead(p)
      /\ \A st \in Ahead(p) : st = Head(todo[p]) \/ st \in Ahead(p)'
  BY Kept
<1>2. \A st \in ToSet(Tail(todo[p])) : st.op = "fetch"
  BY <1>1, AtHead DEF Later
<1>3. CASE Fetch(p)
  <2>1. PICK d \in Devices : Doing(p, "fetch", d) /\ netbox' = netbox
    BY <1>3 DEF Fetch
  <2>2. Head(todo[p]) = Step("fetch", d)
    BY <1>1, <2>1, HeadIs DEF Doing, AtStep
  <2>3. d \in netbox.devices => seen'[p].dev = d /\ Step("merge", None) \in Ahead(p)'
    BY <1>0, <1>3, <2>1, FetchFits DEF Ahead, AtDevice, Record
  <2>4. Step("merge", None) \notin Ahead(p)
    BY <1>0, <1>1, <1>2, <2>2, AtHead DEF Ahead
  <2>5. \A x : Step("fetch", x) \in Ahead(p) => x = d \/ Step("fetch", x) \in Ahead(p)'
    BY <1>0, <1>1, <2>2
  <2> QED
    BY <1>0, <2>1, <2>3, <2>4, <2>5 DEF ContextsOn, Informed, Bounded
<1>4. CASE Merge(p)
  <2> DEFINE o == seen[p].dev
  <2>1. /\ Save(p, Merged("contexts", copy[p], o, seen[p].ctx)) /\ Head(todo[p]).op = "merge"
        /\ AtStep(p, "merge")
    BY <1>4 DEF Merge, AtStep
  <2>2. /\ o \in Devices /\ netbox'.ctx[o] = Merged("contexts", copy[p], o, seen[p].ctx)
        /\ \A d \in Devices \ {o} : netbox'.ctx[d] = netbox.ctx[d]
        /\ netbox'.devices = netbox.devices
    BY <2>1, Saved
  <2>3. Informed(netbox', copy[p], o)
    BY <1>0, <2>2, FactsForType DEF Informed, Bounded, Merged
  <2>4. \A d \in Devices \ {o} : Informed(netbox, copy[p], d) => Informed(netbox', copy[p], d)
    BY <2>2 DEF Informed, Bounded
  <2>5. \A x : Step("fetch", x) \in Ahead(p) => Step("fetch", x) \in Ahead(p)'
    BY <1>0, <1>1, <2>1
  <2>6. copy[p].devices \subseteq Devices
    BY <1>0 DEF SpecType
  <2> HIDE DEF o
  <2>7. ASSUME NEW d \in copy[p].devices \cap netbox'.devices
        PROVE  Step("fetch", d) \in Ahead(p)' \/ Informed(netbox', copy[p], d)
    BY <2>2, <2>3, <2>4, <2>5, <2>6 DEF ContextsOn, o
  <2> QED
    BY <1>0, <2>7 DEF ContextsOn
<1>5. Fetch(p) \/ Merge(p)
  BY CallOf DEF Call
<1> QED
  BY <1>3, <1>4, <1>5

LEMMA SyncStart ==
  ASSUME Typed, PlanInv, NEW p \in Operators, Start(p, "sync")
  PROVE  SyncOn(p)'
<1>1. todo'[p] = Plan("sync", spec) /\ spec \in SpecType
  BY DEF Start, Typed, PlanInv
<1> QED
  BY <1>1, FetchPlan DEF SyncOn, Ahead

\* What moves the management address of a device.
LEMMA FetchMoves ==
  ASSUME Typed, PlanInv, NEW p \in Operators, script[p] \in {"sync", "enrich"}, Fetch(p)
  PROVE  /\ \A d, i : Moving(p, d, i) => Moving(p, d, i)'
         /\ \E d \in Devices :
               /\ \A x : Step("fetch", x) \in Ahead(p) => x = d \/ Step("fetch", x) \in Ahead(p)'
               /\ d \in Lab \cap netbox.devices =>
                     Moving(p, d, IF script[p] = "sync" THEN SyncPort(d) ELSE EnrichPort(d))'
               /\ d \in netbox.devices /\ script[p] = "enrich" =>
                     seen'[p].dev = d /\ {Step("merge", None), Step("orphans", None)} \subseteq Ahead(p)'
<1>0. /\ DOMAIN seen = Operators
      /\ \A op, on : Step(op, on).op = op /\ Step(op, on).on = on
  BY DEF Typed, Step
<1>1. /\ todo[p] # <<>> /\ \A st \in Ahead(p) : st = Head(todo[p]) \/ st \in Ahead(p)'
  BY Kept DEF Call
<1>2. PICK d \in Devices : Doing(p, "fetch", d) /\ netbox' = netbox
  BY DEF Fetch
<1>3. Head(todo[p]) = Step("fetch", d) /\ \A st \in ToSet(Tail(todo[p])) : st.op = "fetch"
  BY <1>1, <1>2, HeadIs, FetchFits DEF Doing, AtStep
<1>4. Step("primary", None) \notin Ahead(p)
  BY <1>0, <1>1, <1>3, AtHead DEF Ahead
<1>5. \A e, i : Moving(p, e, i) => Moving(p, e, i)'
  BY <1>2, <1>4 DEF Moving, Reached
<1>6. \A x : Step("fetch", x) \in Ahead(p) => x = d \/ Step("fetch", x) \in Ahead(p)'
  BY <1>0, <1>1, <1>3
<1>7. d \in netbox.devices => seen'[p].dev = d /\ AtDevice(script[p], copy[p], d) \subseteq Ahead(p)'
  BY <1>0, <1>2, FetchFits DEF Ahead, Record
<1>8. d \in Lab \cap netbox.devices =>
        Moving(p, d, IF script[p] = "sync" THEN SyncPort(d) ELSE EnrichPort(d))'
  <2> SUFFICES ASSUME d \in Lab \cap netbox.devices
               PROVE  Moving(p, d, IF script[p] = "sync" THEN SyncPort(d) ELSE EnrichPort(d))'
    OBVIOUS
  <2>1. CASE script[p] = "sync"
    <3>1. Managing(SyncPort(d)) \subseteq Ahead(p)' /\ seen'[p].dev = d /\ script' = script
      BY <1>7, <2>1, CallFrame DEF AtDevice, Call
    <3> QED
      BY <2>1, <3>1 DEF Managing, Moving
  <2>2. CASE script[p] = "enrich"
    <3>1. Managing(EnrichPort(d)) \subseteq Ahead(p)' /\ seen'[p].dev = d /\ script' = script
      BY <1>7, <2>2, CallFrame DEF AtDevice, Call
    <3> QED
      BY <2>2, <3>1 DEF Managing, Moving
  <2> QED
    BY <2>1, <2>2
<1>9. d \in netbox.devices /\ script[p] = "enrich" =>
        seen'[p].dev = d /\ {Step("merge", None), Step("orphans", None)} \subseteq Ahead(p)'
  BY <1>7 DEF AtDevice
<1> QED
  BY <1>5, <1>6, <1>8, <1>9

LEMMA OthersMove ==
  ASSUME Typed, PlanInv, Sound, NEW p \in Operators, CurrentOn(p), script[p] \in {"sync", "enrich"},
         Port(p) \/ Attach(p) \/ Primary(p),
         NEW d \in Lab,
         Moving(p, d, IF script[p] = "sync" THEN SyncPort(d) ELSE EnrichPort(d))
  PROVE  Moving(p, d, IF script[p] = "sync" THEN SyncPort(d) ELSE EnrichPort(d))'
<1> DEFINE w == IF script[p] = "sync" THEN SyncPort(d) ELSE EnrichPort(d)
<1>0. /\ netbox \in NetBoxType /\ script' = script
      /\ \A op, on : Step(op, on).op = op /\ Step(op, on).on = on
  BY CallFrame DEF Typed, Step, Call
<1>1. /\ todo[p] # <<>> /\ Head(todo[p]) \in Ahead(p)
      /\ \A st \in Ahead(p) : st = Head(todo[p]) \/ st \in Ahead(p)'
  BY Kept DEF Call
<1>2. CASE Port(p)
  <2>1. Head(todo[p]).op = "port" /\ seen' = seen /\ UNCHANGED <<netbox.at, netbox.primary>>
    BY <1>0, <1>2 DEF Port, Doing, AtStep, NetBoxType
  <2> QED
    BY <1>0, <1>1, <2>1 DEF Moving, Reached
<1>3. CASE Attach(p)
  <2>1. PICK i \in netbox.ports : Doing(p, "attach", i) /\ netbox' = [netbox EXCEPT !.at[AddressOf(i)] = i]
    BY <1>3 DEF Attach
  <2>2. /\ Head(todo[p]) = Step("attach", i) /\ seen'[p].dev = seen[p].dev
        /\ seen[p].dev \in Lab
        /\ i = (IF script[p] = "sync" THEN SyncPort(seen[p].dev) ELSE EnrichPort(seen[p].dev))
    <3>1. Head(todo[p]) = Step("attach", i) /\ seen'[p].dev = seen[p].dev
      BY <1>1, <1>3, <2>1, HeadIs, AttachFits DEF Doing, AtStep
    <3> QED
      BY <1>0, <1>1, <3>1, AtHead, Wanted
  <2>3. /\ UNCHANGED netbox.primary /\ netbox'.at[Mgmt(seen[p].dev)] = i
        /\ \A a \in Addresses \ {Mgmt(seen[p].dev)} : netbox'.at[a] = netbox.at[a]
    BY <1>0, <2>1, <2>2, MgmtAddress DEF NetBoxType
  <2>4. Mgmt(d) \in Addresses /\ (d = seen[p].dev \/ Mgmt(d) # Mgmt(seen[p].dev))
    BY DEF Addresses, Mgmt
  <2>5. d = seen[p].dev => w = i
    BY <2>2
  <2>6. Step("primary", None) \in Ahead(p) => Step("primary", None) \in Ahead(p)'
    BY <1>0, <1>1, <2>2
  <2>7. CASE d = seen[p].dev
    BY <1>0, <2>2, <2>3, <2>5, <2>6, <2>7 DEF Moving, Reached
  <2>8. CASE d # seen[p].dev
    BY <1>0, <2>2, <2>3, <2>4, <2>8 DEF Moving, Reached
  <2> QED
    BY <2>7, <2>8
<1>4. CASE Primary(p)
  <2>1. PICK e \in Lab :
          /\ AtStep(p, "primary") /\ seen[p].dev = e /\ seen' = seen
          /\ \/ seen[p].primary = Mgmt(e) /\ netbox' = netbox
             \/ netbox' = [netbox EXCEPT !.primary[e] = Mgmt(e)]
    BY <1>4 DEF Primary, Put
  <2>2. Head(todo[p]) = Step("primary", None)
    BY <1>1, <2>1, HeadIs DEF AtStep
  <2>3. netbox'.at = netbox.at /\ netbox'.primary[e] = Mgmt(e)
        /\ \A x \in Devices \ {e} : netbox'.primary[x] = netbox.primary[x]
    <3>1. CASE seen[p].primary = Mgmt(e) /\ netbox' = netbox
      BY <1>1, <2>1, <2>2, <3>1 DEF CurrentOn
    <3>2. CASE netbox' = [netbox EXCEPT !.primary[e] = Mgmt(e)]
      BY <1>0, <3>2 DEF NetBoxType, Devices
    <3> QED
      BY <2>1, <3>1, <3>2
  <2>4. Step("attach", w) \notin Ahead(p)
    <3>1. \A st \in ToSet(Tail(todo[p])) : st.op # "attach"
      BY <1>1, <2>2, <1>0, AtHead DEF Later
    <3> QED
      BY <1>0, <1>1, <2>2, <3>1, AtHead DEF Ahead
  <2>5. netbox.at[Mgmt(d)] = w
    BY <2>4 DEF Moving, Reached
  <2>6. d # e => netbox.primary[d] = Mgmt(d)
    BY <2>1 DEF Moving, Reached
  <2> QED
    BY <1>0, <2>3, <2>5, <2>6 DEF Moving, Reached, Devices
<1> QED
  BY <1>2, <1>3, <1>4

LEMMA SyncCall ==
  ASSUME Typed, PlanInv, Sound, NEW p \in Operators, CurrentOn(p), script[p] = "sync",
         SyncOn(p), Call(p)
  PROVE  SyncOn(p)'
<1>0. script' = script /\ \A op, on : Step(op, on).op = op
  BY CallFrame DEF Step
<1>1. CASE Fetch(p)
  <2>1. netbox' = netbox
    BY <1>1 DEF Fetch
  <2> QED
    BY <1>0, <1>1, <2>1, FetchMoves DEF SyncOn
<1>2. CASE Port(p) \/ Attach(p) \/ Primary(p)
  <2>1. netbox'.devices = netbox.devices /\ Head(todo[p]).op \in {"port", "attach", "primary"}
    BY <1>2 DEF Port, Attach, Primary, Put, Doing, AtStep, Typed, NetBoxType
  <2>2. \A x : Step("fetch", x) \in Ahead(p) => Step("fetch", x) \in Ahead(p)'
    BY <1>0, <2>1, Kept
  <2> QED
    BY <1>0, <1>2, <2>1, <2>2, OthersMove DEF SyncOn
<1>3. Fetch(p) \/ Port(p) \/ Attach(p) \/ Primary(p)
  BY CallOf DEF Call
<1> QED
  BY <1>1, <1>2, <1>3
-----------------------------------------------------------------------------
(* netbox_enrich.                                                          *)

LEMMA EnrichStart ==
  ASSUME Typed, PlanInv, NEW p \in Operators, Start(p, "enrich")
  PROVE  EnrichOn(p)'
<1>1. todo'[p] = Plan("enrich", spec) /\ copy'[p] = spec /\ spec \in SpecType
  BY DEF Start, Typed, PlanInv
<1> QED
  BY <1>1, FetchPlan DEF EnrichOn, Ahead

\* The three things netbox_enrich does at a device.
Enriched(p, d) ==
    \/ Step("merge", None) \in Ahead(p) /\ seen[p].dev = d
    \/ "enriched" \in netbox.ctx[d].facts
Cleaned(p, d) ==
    \/ Step("orphans", None) \in Ahead(p) /\ seen[p].dev = d
    \/ \A i \in PortsOf(d, netbox.ports) :
          \/ i \in copy[p].ports \cup {EnrichPort(d)}
          \/ Step("free", i) \in Ahead(p) \/ Step("drop", i) \in Ahead(p)
Treated(p, d) ==
    /\ d \in Lab => Moving(p, d, EnrichPort(d))
    /\ Enriched(p, d) /\ Cleaned(p, d)

LEMMA EnrichParts ==
  ASSUME NEW p
  PROVE  EnrichOn(p) <=> \A d \in copy[p].devices \cap netbox.devices :
                            Step("fetch", d) \in Ahead(p) \/ Treated(p, d)
BY DEF EnrichOn, Treated, Enriched, Cleaned

LEMMA FetchTreats ==
  ASSUME Typed, PlanInv, NEW p \in Operators, script[p] = "enrich", EnrichOn(p), Fetch(p)
  PROVE  EnrichOn(p)'
<1>0. /\ script' = script /\ copy' = copy /\ netbox' = netbox
      /\ \A op, on : Step(op, on).op = op /\ Step(op, on).on = on
  BY CallFrame DEF Step, Call, Fetch
<1>1. /\ todo[p] # <<>> /\ \A st \in Ahead(p) : st = Head(todo[p]) \/ st \in Ahead(p)'
  BY Kept DEF Call
<1>2. PICK d \in Devices :
         /\ \A x : Step("fetch", x) \in Ahead(p) => x = d \/ Step("fetch", x) \in Ahead(p)'
         /\ d \in Lab \cap netbox.devices => Moving(p, d, EnrichPort(d))'
         /\ d \in netbox.devices =>
               seen'[p].dev = d /\ {Step("merge", None), Step("orphans", None)} \subseteq Ahead(p)'
  BY <1>0, FetchMoves
<1>3. d \in netbox.devices => Treated(p, d)'
  BY <1>2 DEF Treated, Enriched, Cleaned
<1>4. Head(todo[p]).op = "fetch" /\ \A st \in ToSet(Tail(todo[p])) : st.op = "fetch"
  BY FetchFits DEF Fetch, Doing, AtStep
<1>5. \A st \in Ahead(p) : st.op = "fetch"
  BY <1>1, <1>4, AtHead DEF Ahead
<1>6. ASSUME NEW e, Treated(p, e) PROVE Treated(p, e)'
  <2>1. "enriched" \in netbox.ctx[e].facts
    BY <1>0, <1>5, <1>6 DEF Treated, Enriched
  <2>2. \A i \in PortsOf(e, netbox.ports) : i \in copy[p].ports \cup {EnrichPort(e)}
    BY <1>0, <1>5, <1>6 DEF Treated, Cleaned
  <2>3. e \in Lab => Moving(p, e, EnrichPort(e))'
    BY <1>6, FetchMoves DEF Treated
  <2> QED
    BY <1>0, <2>1, <2>2, <2>3 DEF Treated, Enriched, Cleaned
<1>7. \A e \in copy[p].devices \cap netbox.devices : Step("fetch", e) \in Ahead(p) \/ Treated(p, e)
  BY EnrichParts
<1>8. \A e \in copy'[p].devices \cap netbox'.devices : Step("fetch", e) \in Ahead(p)' \/ Treated(p, e)'
  BY <1>0, <1>2, <1>3, <1>6, <1>7
<1> QED
  BY <1>8 DEF EnrichOn, Treated, Enriched, Cleaned

\* The address of an enriched device is not on an orphan.
LEMMA FreedTreats ==
  ASSUME Typed, PlanInv, NEW p \in Operators, script[p] = "enrich", Free(p) \/ Drop(p),
         NEW d, Treated(p, d)
  PROVE  Treated(p, d)'
<1>0. /\ netbox \in NetBoxType /\ script' = script
      /\ \A op, on : Step(op, on).op = op /\ Step(op, on).on = on
  BY CallFrame DEF Typed, Step, Call
<1>1. /\ todo[p] # <<>> /\ Head(todo[p]) \in Ahead(p)
      /\ \A st \in Ahead(p) : st = Head(todo[p]) \/ st \in Ahead(p)'
  BY Kept DEF Call
<1>2. PICK i \in Ports :
         /\ Head(todo[p]) \in {Step("free", i), Step("drop", i)}
         /\ netbox'.at = Freed(i).at /\ netbox'.primary = Freed(i).primary
         /\ UNCHANGED <<netbox.ctx, seen, copy>>
         /\ \/ netbox'.ports = netbox.ports /\ Step("drop", i) \in Ahead(p)'
            \/ netbox'.ports = netbox.ports \ {i}
  <2>1. CASE Free(p)
    <3>1. PICK i \in Ports : Doing(p, "free", i)
      BY <2>1 DEF Free
    <3>2. /\ Head(todo[p]) = Step("free", i) /\ netbox' = Freed(i) /\ UNCHANGED <<seen, copy>>
          /\ Step("drop", i) \in Ahead(p)'
      BY <1>1, <2>1, <3>1, FreeFits, HeadIs DEF Doing, AtStep, Ahead
    <3>3. UNCHANGED <<netbox.ctx, netbox.ports>>
      BY <1>0, <3>2 DEF Freed, NetBoxType
    <3> QED
      BY <3>2, <3>3
  <2>2. CASE Drop(p)
    <3>1. PICK i \in Ports : /\ Doing(p, "drop", i)
             /\ netbox' = [Freed(i) EXCEPT !.ports = @ \ {i}, !.cables = {c \in @ : i \notin c}]
      BY <2>2 DEF Drop, Put
    <3>2. Freed(i) \in NetBoxType /\ Freed(i).ports = netbox.ports /\ Freed(i).ctx = netbox.ctx
      BY <1>0, FreedType DEF Freed, NetBoxType
    <3>3. /\ netbox'.at = Freed(i).at /\ netbox'.primary = Freed(i).primary
          /\ netbox'.ctx = netbox.ctx /\ netbox'.ports = netbox.ports \ {i}
      BY <3>1, <3>2 DEF NetBoxType
    <3>4. UNCHANGED <<seen, copy>> /\ Head(todo[p]) = Step("drop", i)
      BY <1>1, <2>2, <3>1, PlainFits, HeadIs DEF Doing, AtStep, PlainCall
    <3> QED
      BY <3>3, <3>4
  <2> QED
    BY <2>1, <2>2
<1>3. i # EnrichPort(i[1])
  BY <1>0, <1>1, <1>2, NotWanted DEF Ahead
<1>4. \A st \in ToSet(Tail(todo[p])) : st.op \in {"free", "fetch"}
  BY <1>0, <1>1, <1>2, AtHead DEF Later
<1>5. \A st \in Ahead(p) : st.op \in {"free", "drop", "fetch"}
  BY <1>0, <1>1, <1>2, <1>4, AtHead DEF Ahead
<1>6. Enriched(p, d)'
  BY <1>0, <1>2, <1>5 DEF Treated, Enriched
<1>7. Cleaned(p, d)'
  <2>1. \A j \in PortsOf(d, netbox.ports) :
          \/ j \in copy[p].ports \cup {EnrichPort(d)}
          \/ Step("free", j) \in Ahead(p) \/ Step("drop", j) \in Ahead(p)
    BY <1>0, <1>5 DEF Treated, Cleaned
  <2>2. ASSUME NEW j \in PortsOf(d, netbox'.ports)
        PROVE  \/ j \in copy[p].ports \cup {EnrichPort(d)}
               \/ Step("free", j) \in Ahead(p)' \/ Step("drop", j) \in Ahead(p)'
    <3>1. j \in PortsOf(d, netbox.ports)
      BY <1>2 DEF PortsOf
    <3>2. CASE j # i
      BY <1>0, <1>1, <1>2, <2>1, <3>1, <3>2
    <3>3. CASE j = i
      BY <1>2, <3>3 DEF PortsOf
    <3> QED
      BY <3>2, <3>3
  <2> QED
    BY <1>2, <2>2 DEF Cleaned
<1>8. ASSUME d \in Lab PROVE Moving(p, d, EnrichPort(d))'
  <2>1. Reached(d, EnrichPort(d))
    BY <1>0, <1>5, <1>8 DEF Treated, Moving
  <2>2. EnrichPort(d) # i
    BY <1>3 DEF EnrichPort
  <2>3. netbox'.at[Mgmt(d)] = EnrichPort(d)
    BY <1>0, <1>2, <1>8, <2>1, <2>2 DEF Freed, NetBoxType, Reached, Addresses
  <2>4. netbox'.primary[d] = Mgmt(d)
    BY <1>0, <1>2, <1>8, <2>1, <2>2 DEF Freed, NetBoxType, Reached, Addresses, AddressesOn, Devices
  <2> QED
    BY <2>3, <2>4 DEF Moving, Reached
<1> QED
  BY <1>6, <1>7, <1>8 DEF Treated

\* The other calls of netbox_enrich.
LEMMA OthersTreat ==
  ASSUME Typed, PlanInv, Sound, NEW p \in Operators, CurrentOn(p), script[p] = "enrich",
         Port(p) \/ Attach(p) \/ Primary(p) \/ Merge(p) \/ Orphans(p),
         NEW d \in Devices, Treated(p, d)
  PROVE  Treated(p, d)'
<1>0. /\ netbox \in NetBoxType /\ script' = script /\ copy' = copy
      /\ \A op, on : Step(op, on).op = op /\ Step(op, on).on = on
  BY CallFrame, CopyStays DEF Typed, Step, Call
<1>1. /\ todo[p] # <<>> /\ Head(todo[p]) \in Ahead(p)
      /\ \A st \in Ahead(p) : st = Head(todo[p]) \/ st \in Ahead(p)'
  BY Kept DEF Call
<1>2. CASE Port(p) \/ Attach(p) \/ Primary(p)
  <2>1. /\ UNCHANGED <<netbox.devices, netbox.ctx>>
        /\ Head(todo[p]).op \in {"port", "attach", "primary"} /\ seen'[p].dev = seen[p].dev
    <3>1. CASE Port(p)
      BY <1>0, <3>1 DEF Port, Doing, AtStep, NetBoxType
    <3>2. CASE Attach(p)
      BY <1>0, <3>2, AttachFits DEF Attach, Doing, AtStep, NetBoxType
    <3>3. CASE Primary(p)
      BY <1>0, <3>3 DEF Primary, Put, AtStep, NetBoxType
    <3> QED
      BY <1>2, <3>1, <3>2, <3>3
  <2>2. \A i \in PortsOf(d, netbox'.ports) : i \in PortsOf(d, netbox.ports) \/ i = EnrichPort(d)
    <3>1. CASE Port(p)
      <4>1. PICK i \in Ports : Doing(p, "port", i) /\ netbox'.ports = netbox.ports \cup {i}
        BY <1>0, <3>1 DEF Port, NetBoxType
      <4>2. Head(todo[p]).op = "port" /\ Head(todo[p]).on = i
        BY <4>1 DEF Doing, AtStep
      <4>3. i = EnrichPort(seen[p].dev)
        BY <1>1, <4>2, AtHead, Wanted
      <4>4. i[1] = seen[p].dev
        BY <4>3 DEF EnrichPort
      <4> QED
        BY <4>1, <4>3, <4>4 DEF PortsOf
    <3>2. CASE Attach(p) \/ Primary(p)
      <4>1. netbox'.ports = netbox.ports
        BY <1>0, <3>2 DEF Attach, Primary, Put, NetBoxType
      <4> QED
        BY <4>1
    <3> QED
      BY <1>2, <3>1, <3>2
  <2>3. \A op, x : op \notin {"port", "attach", "primary"} /\ Step(op, x) \in Ahead(p) => Step(op, x) \in Ahead(p)'
    BY <1>0, <1>1, <2>1
  <2>4. d \in Lab => Moving(p, d, EnrichPort(d))'
    BY <1>0, <1>2, OthersMove DEF Treated
  <2> QED
    BY <1>0, <2>1, <2>2, <2>3, <2>4 DEF Treated, Enriched, Cleaned
<1>3. CASE Merge(p)
  <2> DEFINE o == seen[p].dev
  <2>1. /\ Save(p, Merged("enrich", copy[p], o, seen[p].ctx)) /\ Head(todo[p]).op = "merge"
        /\ AtStep(p, "merge")
    BY <1>3 DEF Merge, AtStep
  <2>2. /\ o \in Devices /\ netbox'.ctx[o] = Merged("enrich", copy[p], o, seen[p].ctx)
        /\ \A e \in Devices \ {o} : netbox'.ctx[e] = netbox.ctx[e]
        /\ UNCHANGED <<netbox.devices, netbox.ports, netbox.at, netbox.primary>>
    BY <2>1, Saved
  <2>3. "enriched" \in netbox'.ctx[o].facts
    <3>1. seen[p].ctx \in ContextType
      BY DEF Typed, ObjectType
    <3> QED
      BY <2>2, <3>1 DEF Merged, ContextType
  <2>4. seen'[p].dev = o
    BY <1>1, <2>1, SaveFits
  <2>5. \A st \in ToSet(Tail(todo[p])) : st.op \in {"orphans", "fetch"}
    BY <1>1, <2>1, AtHead DEF Later
  <2>6. Step("primary", None) \notin Ahead(p)
    BY <1>0, <1>1, <2>1, <2>5, AtHead DEF Ahead
  <2>7. d \in Lab => Moving(p, d, EnrichPort(d))'
    BY <2>2, <2>6 DEF Treated, Moving, Reached
  <2>8. \A op, x : op # "merge" /\ Step(op, x) \in Ahead(p) => Step(op, x) \in Ahead(p)'
    BY <1>0, <1>1, <2>1
  <2>9. Cleaned(p, d)'
    BY <1>0, <2>2, <2>4, <2>8 DEF Treated, Cleaned
  <2>10. Enriched(p, d)'
    BY <2>2, <2>3 DEF Treated, Enriched
  <2> QED
    BY <2>1, <2>2, <2>7, <2>9, <2>10 DEF Treated
<1>4. CASE Orphans(p)
  <2>1. PICK o \in Devices : AtStep(p, "orphans") /\ seen[p].dev = o
    BY <1>4 DEF Orphans
  <2>2. /\ Head(todo[p]).op = "orphans" /\ UNCHANGED <<netbox, seen>>
        /\ \A i \in PortsOf(o, netbox.ports) :
              i \in copy[p].ports \cup {EnrichPort(o)} \/ Step("free", i) \in Ahead(p)'
    BY <1>4, <2>1, OrphansFits DEF AtStep, Ahead
  <2>3. \A st \in ToSet(Tail(todo[p])) : st.op = "fetch"
    BY <1>1, <2>2, AtHead DEF Later
  <2>4. \A st \in Ahead(p) : st.op \in {"orphans", "fetch"}
    BY <1>1, <2>2, <2>3, AtHead DEF Ahead
  <2>5. d \in Lab => Moving(p, d, EnrichPort(d))'
    BY <1>0, <2>2, <2>4 DEF Treated, Moving, Reached
  <2>6. Enriched(p, d)'
    BY <1>0, <2>2, <2>4 DEF Treated, Enriched
  <2>7. Cleaned(p, d)'
    BY <1>0, <2>1, <2>2, <2>4 DEF Treated, Cleaned
  <2> QED
    BY <2>2, <2>5, <2>6, <2>7 DEF Treated
<1> QED
  BY <1>2, <1>3, <1>4

LEMMA EnrichCall ==
  ASSUME Typed, PlanInv, Sound, NEW p \in Operators, CurrentOn(p), script[p] = "enrich",
         EnrichOn(p), Call(p)
  PROVE  EnrichOn(p)'
<1>0. /\ netbox \in NetBoxType /\ copy' = copy /\ copy[p] \in SpecType
      /\ \A op, on : Step(op, on).op = op
  BY CopyStays DEF Typed, Step
<1>1. CASE Fetch(p)
  BY <1>1, FetchTreats
<1>2. CASE ~Fetch(p)
  <2>1. \/ Port(p) \/ Attach(p) \/ Primary(p) \/ Merge(p) \/ Orphans(p)
        \/ Free(p) \/ Drop(p)
    BY <1>2, CallOf DEF Call
  <2>2. netbox'.devices = netbox.devices /\ Head(todo[p]).op # "fetch"
    <3>1. CASE Port(p) \/ Attach(p) \/ Primary(p)
      BY <1>0, <3>1 DEF Port, Attach, Primary, Put, Doing, AtStep, NetBoxType
    <3>2. CASE Merge(p)
      <4>1. PICK ctx : Save(p, ctx) /\ AtStep(p, "merge")
        BY <3>2 DEF Merge
      <4> QED
        BY <4>1, Saved DEF AtStep
    <3>3. CASE Orphans(p)
      BY <3>3 DEF Orphans, AtStep
    <3>4. CASE Free(p)
      BY <1>0, <3>4 DEF Free, Freed, Doing, AtStep, NetBoxType
    <3>5. CASE Drop(p)
      <4>1. PICK i : netbox' = [Freed(i) EXCEPT !.ports = @ \ {i}, !.cables = {c \in @ : i \notin c}]
                     /\ Head(todo[p]).op = "drop"
        BY <3>5 DEF Drop, Put, Doing, AtStep
      <4>2. Freed(i) \in NetBoxType /\ Freed(i).devices = netbox.devices
        BY <1>0, FreedType DEF Freed, NetBoxType
      <4> QED
        BY <4>1, <4>2 DEF NetBoxType
    <3> QED
      BY <2>1, <3>1, <3>2, <3>3, <3>4, <3>5
  <2>3. \A x : Step("fetch", x) \in Ahead(p) => Step("fetch", x) \in Ahead(p)'
    BY <1>0, <2>2, Kept
  <2>4. \A d \in Devices : Treated(p, d) => Treated(p, d)'
    BY <2>1, OthersTreat, FreedTreats
  <2>5. \A d \in copy[p].devices \cap netbox.devices : Step("fetch", d) \in Ahead(p) \/ Treated(p, d)
    BY EnrichParts
  <2>6. \A d \in copy'[p].devices \cap netbox'.devices : Step("fetch", d) \in Ahead(p)' \/ Treated(p, d)'
    BY <1>0, <2>2, <2>3, <2>4, <2>5 DEF SpecType
  <2> QED
    BY <2>6 DEF EnrichOn, Treated, Enriched, Cleaned
<1> QED
  BY <1>1, <1>2
-----------------------------------------------------------------------------
(* populate_netbox_enterprise, netbox_bgp_populate, populate_cloud_aws.    *)

LEMMA EnterpriseStart ==
  ASSUME Typed, PlanInv, NEW p \in Operators, Start(p, "enterprise")
  PROVE  EnterpriseOn(p)'
<1>1. todo'[p] = Plan("enterprise", spec) /\ spec \in SpecType
  BY DEF Start, Typed, PlanInv
<1> QED
  BY <1>1, EnterprisePlan DEF EnterpriseOn, Ahead

LEMMA EnterpriseCall ==
  ASSUME Typed, PlanInv, NEW p \in Operators, script[p] = "enterprise", EnterpriseOn(p), Call(p)
  PROVE  EnterpriseOn(p)'
<1>0. /\ netbox \in NetBoxType /\ \A op, on : Step(op, on).op = op /\ Step(op, on).on = on
  BY DEF Typed, Step
<1>1. /\ todo[p] # <<>> /\ Head(todo[p]) \in Ahead(p)
      /\ \A st \in Ahead(p) : st = Head(todo[p]) \/ st \in Ahead(p)'
  BY Kept
<1>2. CASE Rack(p) \/ Tag(p)
  <2>1. PICK d \in Placed, label \in {"rack", "tag"} :
           Doing(p, label, d) /\ Put(p, Labelled(d, label))
    BY <1>2 DEF Rack, Tag
  <2>2. Head(todo[p]) = Step(label, d)
    BY <1>1, <2>1, HeadIs DEF Doing, AtStep
  <2>3. /\ UNCHANGED <<netbox.objects, netbox.devices>>
        /\ netbox.labels \subseteq netbox'.labels
        /\ d \in netbox.devices => <<label, d>> \in netbox'.labels
    BY <1>0, <2>1 DEF Put, Labelled, NetBoxType
  <2>4. \A op, x : Step(op, x) \in Ahead(p) => Step(op, x) \in Ahead(p)' \/ (op = label /\ x = d)
    BY <1>0, <1>1, <2>2
  <2> QED
    BY <2>3, <2>4 DEF EnterpriseOn
<1>3. CASE Tenancy(p) \/ AsnRegistry(p) \/ Vlans(p)
  <2>1. PICK o \in {"tenancy", "asns", "vlans"} :
          /\ Put(p, Made(o))
          /\ IF o = "vlans" THEN AtStep(p, "vlans") ELSE Doing(p, "make", o)
    BY <1>3 DEF Tenancy, AsnRegistry, Vlans, Make
  <2>2. Head(todo[p]) = IF o = "vlans" THEN Step("vlans", None) ELSE Step("make", o)
    BY <1>1, <2>1, HeadIs DEF Doing, AtStep
  <2>3. UNCHANGED <<netbox.labels, netbox.devices>> /\ netbox'.objects = netbox.objects \cup {o}
    BY <1>0, <2>1 DEF Put, Made, NetBoxType
  <2>4. CASE o = "tenancy"
    BY <1>0, <1>1, <2>2, <2>3, <2>4 DEF EnterpriseOn
  <2>5. CASE o = "asns"
    BY <1>0, <1>1, <2>2, <2>3, <2>5 DEF EnterpriseOn
  <2>6. CASE o = "vlans"
    BY <1>0, <1>1, <2>2, <2>3, <2>6 DEF EnterpriseOn
  <2> QED
    BY <2>1, <2>4, <2>5, <2>6
<1>4. Rack(p) \/ Tag(p) \/ Tenancy(p) \/ AsnRegistry(p) \/ Vlans(p)
  BY CallOf DEF Call
<1> QED
  BY <1>2, <1>3, <1>4

LEMMA BgpStart ==
  ASSUME Typed, PlanInv, NEW p \in Operators, Start(p, "bgp")
  PROVE  BgpOn(p)'
<1>1. todo'[p] = Plan("bgp", spec)
  BY DEF Start, Typed, PlanInv
<1> QED
  BY <1>1, BgpPlan DEF BgpOn, Ahead

LEMMA BgpCall ==
  ASSUME Typed, PlanInv, NEW p \in Operators, script[p] = "bgp", BgpOn(p), Call(p)
  PROVE  BgpOn(p)'
<1>0. /\ netbox \in NetBoxType /\ copy' = copy
      /\ \A op, on : Step(op, on).op = op /\ Step(op, on).on = on
  BY CopyStays DEF Typed, Step
<1>1. /\ todo[p] # <<>> /\ \A st \in Ahead(p) : st = Head(todo[p]) \/ st \in Ahead(p)'
  BY Kept
<1>2. CASE Asns(p)
  <2>1. Head(todo[p]).op = "asns" /\ netbox' = netbox
    BY <1>2 DEF Asns, AtStep, Put
  <2> QED
    BY <1>0, <1>1, <2>1 DEF BgpOn
<1>3. CASE Peers(p)
  <2>1. \A l \in Peerings(copy[p]) : Step("session", l) \in Ahead(p)'
    BY <1>3, PeersFits DEF Ahead
  <2> QED
    BY <1>0, <2>1 DEF BgpOn
<1>4. CASE Session(p)
  <2>1. PICK l \in Sessions : Doing(p, "session", l)
                           /\ Put(p, [netbox EXCEPT !.sessions = @ \cup {l}])
    BY <1>4 DEF Session
  <2>2. Head(todo[p]) = Step("session", l) /\ netbox'.sessions = netbox.sessions \cup {l}
    BY <1>0, <1>1, <2>1, HeadIs DEF Doing, AtStep, Put, NetBoxType
  <2>3. \A op, x : Step(op, x) \in Ahead(p) => Step(op, x) \in Ahead(p)' \/ (op = "session" /\ x = l)
    BY <1>0, <1>1, <2>2
  <2>4. \A m \in Peerings(copy[p]) :
          Step("peers", None) \in Ahead(p)' \/ Step("session", m) \in Ahead(p)' \/ m \in netbox'.sessions
    BY <2>2, <2>3 DEF BgpOn
  <2> QED
    BY <1>0, <2>4 DEF BgpOn
<1>5. Asns(p) \/ Peers(p) \/ Session(p)
  BY CallOf DEF Call
<1> QED
  BY <1>2, <1>3, <1>4, <1>5

LEMMA SeedStart ==
  ASSUME Typed, PlanInv, NEW p \in Operators, Start(p, "seed")
  PROVE  SeedOn(p)'
<1>1. todo'[p] = Plan("seed", spec)
  BY DEF Start, Typed, PlanInv
<1> QED
  BY <1>1, SeedPlan DEF SeedOn, Ahead

LEMMA SeedCall ==
  ASSUME Typed, PlanInv, NEW p \in Operators, CurrentOn(p), script[p] = "seed", SeedOn(p), Call(p)
  PROVE  SeedOn(p)'
<1>0. /\ netbox \in NetBoxType /\ copy' = copy /\ DOMAIN seen = Operators
      /\ Ce \in Devices /\ Vpn \in Devices /\ Ce # Vpn
      /\ \A op, on : Step(op, on).op = op /\ Step(op, on).on = on
  BY CopyStays, InventoryAssumption DEF Typed, Step, Devices
<1>1. /\ todo[p] # <<>> /\ Head(todo[p]) \in Ahead(p)
      /\ \A st \in Ahead(p) : st = Head(todo[p]) \/ st \in Ahead(p)'
      /\ Head(todo[p]) = Step(Head(todo[p]).op, Head(todo[p]).on)
      /\ Head(todo[p]) \in Wants("seed", copy[p], seen[p].dev)
  BY Kept, HeadIs, AtHead
<1>2. \A op, x : Step(op, x) \in Ahead(p) =>
         Step(op, x) \in Ahead(p)' \/ (op = Head(todo[p]).op /\ x = Head(todo[p]).on)
  BY <1>0, <1>1
<1>3. Head(todo[p]).op \notin {"fetch", "merge"} => Step("merge", None) \notin Ahead(p)
  <2>1. Head(todo[p]).op \notin {"fetch", "merge"} => \A st \in ToSet(Tail(todo[p])) : st.op # "merge"
    BY <1>1, AtHead DEF Later
  <2> QED
    BY <1>0, <1>1, <2>1, AtHead DEF Ahead
<1>4. Head(todo[p]).op \in {"fetch", "merge"} => \A st \in ToSet(Tail(todo[p])) : st.op = "fetch"
  BY <1>1, AtHead DEF Later
<1>5. CASE Create(p)
  <2>1. PICK d \in Devices : Doing(p, "create", d) /\ netbox' = [netbox EXCEPT !.devices = @ \cup {d}]
    BY <1>5 DEF Create
  <2>2. Head(todo[p]).op = "create" /\ Head(todo[p]).on = d
    BY <2>1 DEF Doing, AtStep
  <2>3. netbox'.devices = netbox.devices \cup {d} /\ UNCHANGED <<netbox.cables, netbox.ctx>>
    BY <1>0, <2>1 DEF NetBoxType
  <2> QED
    BY <1>2, <1>3, <2>2, <2>3 DEF SeedOn
<1>6. CASE Find(p)
  <2>1. PICK d \in netbox.devices : Doing(p, "find", d) /\ netbox' = netbox
    BY <1>6 DEF Find, Put
  <2>2. Head(todo[p]).op = "find" /\ Head(todo[p]).on = d
    BY <2>1 DEF Doing, AtStep
  <2> QED
    BY <1>2, <1>3, <2>1, <2>2 DEF SeedOn
<1>7. CASE Port(p) \/ CloudSite(p)
  <2>1. /\ UNCHANGED <<netbox.devices, netbox.cables, netbox.ctx>>
        /\ Head(todo[p]).op \in {"port", "make"}
    BY <1>0, <1>7 DEF Port, CloudSite, Make, Made, Put, Doing, AtStep, NetBoxType
  <2> QED
    BY <1>2, <1>3, <2>1 DEF SeedOn
<1>8. CASE Cable(p)
  <2>1. PICK l \in Links \cup {Tunnel} :
          /\ Doing(p, "cable", l)
          /\ (l \subseteq netbox.ports /\ Uncabled(l)) \/ l \in netbox.cables
          /\ Put(p, IF l \subseteq netbox.ports /\ Uncabled(l)
                    THEN [netbox EXCEPT !.cables = @ \cup {l}] ELSE netbox)
    BY <1>8 DEF Cable
  <2>2. Head(todo[p]).op = "cable" /\ Head(todo[p]).on = l
    BY <2>1 DEF Doing, AtStep
  <2>3. l = Tunnel
    BY <1>1, <2>2, Wanted
  <2>4. Tunnel \in netbox'.cables /\ UNCHANGED <<netbox.devices, netbox.ctx>>
    BY <1>0, <2>1, <2>3 DEF Put, NetBoxType
  <2> QED
    BY <1>2, <1>3, <2>2, <2>4 DEF SeedOn
<1>9. CASE Fetch(p)
  <2>1. PICK d \in Devices : Doing(p, "fetch", d) /\ netbox' = netbox
    BY <1>9 DEF Fetch
  <2>2. Head(todo[p]).op = "fetch" /\ Head(todo[p]).on = d
    BY <2>1 DEF Doing, AtStep
  <2>3. d \in {Ce, Vpn}
    BY <1>1, <2>2, Wanted
  <2>4. \A st \in Ahead(p) : st.op = "fetch"
    BY <1>1, <1>4, <2>2, AtHead DEF Ahead
  <2>5. Ce \in netbox.devices /\ Vpn \in netbox.devices /\ Tunnel \in netbox.cables
    BY <1>0, <2>4 DEF SeedOn
  <2>6. seen'[p].dev = d /\ Step("merge", None) \in Ahead(p)'
    BY <1>0, <1>9, <2>1, <2>3, <2>5, FetchFits DEF Ahead, AtDevice, Record
  <2>7. /\ Step("fetch", Ce) \in Ahead(p) \/ Tunnel0 \in netbox.ctx[Ce].observed
        /\ Step("fetch", Vpn) \in Ahead(p) \/ netbox.ctx[Vpn].boundary = "excluded"
    BY <1>0, <2>4 DEF SeedOn
  <2> QED
    BY <1>2, <2>1, <2>2, <2>5, <2>6, <2>7 DEF SeedOn
<1>10. CASE Merge(p)
  <2> DEFINE o == seen[p].dev
  <2>1. /\ Save(p, Merged("seed", copy[p], o, seen[p].ctx)) /\ Head(todo[p]).op = "merge"
        /\ AtStep(p, "merge")
    BY <1>10 DEF Merge, AtStep
  <2>2. /\ o \in Devices /\ netbox'.ctx[o] = Merged("seed", copy[p], o, seen[p].ctx)
        /\ \A e \in Devices \ {o} : netbox'.ctx[e] = netbox.ctx[e]
        /\ UNCHANGED <<netbox.devices, netbox.cables>>
    BY <2>1, Saved
  <2>3. o \in {Ce, Vpn} /\ seen[p].ctx \in ContextType
    BY <1>1, <2>1, Wanted DEF Typed, ObjectType
  <2>4. /\ o = Vpn => netbox'.ctx[Vpn].boundary = "excluded"
        /\ o = Ce => netbox'.ctx[Ce].observed = {Tunnel0}
    <3>1. CASE o = Vpn
      <4>1. Merged("seed", copy[p], o, seen[p].ctx) = [seen[p].ctx EXCEPT !.boundary = "excluded"]
        BY <3>1 DEF Merged
      <4> QED
        BY <1>0, <2>2, <2>3, <3>1, <4>1 DEF ContextType
    <3>2. CASE o = Ce
      <4>1. Merged("seed", copy[p], o, seen[p].ctx) =
               [seen[p].ctx EXCEPT !.facts = @ \cup {"tunnels"}, !.observed = {Tunnel0}]
        BY <1>0, <3>2 DEF Merged
      <4> QED
        BY <1>0, <2>2, <2>3, <3>2, <4>1 DEF ContextType
    <3> QED
      BY <2>3, <3>1, <3>2
  <2>5. /\ o # Vpn => netbox'.ctx[Vpn] = netbox.ctx[Vpn]
        /\ o # Ce => netbox'.ctx[Ce] = netbox.ctx[Ce]
    BY <1>0, <2>2
  <2> HIDE DEF o
  <2>6. \/ Step("fetch", Ce) \in Ahead(p)' \/ Tunnel0 \in netbox'.ctx[Ce].observed
    BY <1>2, <2>1, <2>4, <2>5 DEF SeedOn, o
  <2>7. \/ Step("fetch", Vpn) \in Ahead(p)' \/ netbox'.ctx[Vpn].boundary = "excluded"
    BY <1>2, <2>1, <2>4, <2>5 DEF SeedOn, o
  <2> QED
    BY <1>2, <2>1, <2>2, <2>6, <2>7 DEF SeedOn
<1>11. \/ Create(p) \/ Find(p) \/ Port(p) \/ CloudSite(p) \/ Cable(p) \/ Fetch(p) \/ Merge(p)
  BY CallOf DEF Call
<1> QED
  BY <1>5, <1>6, <1>7, <1>8, <1>9, <1>10, <1>11
-----------------------------------------------------------------------------
(* netbox_to_spec.                                                         *)

LEMMA GenerateStart ==
  ASSUME Typed, PlanInv, NEW p \in Operators, Start(p, "generate")
  PROVE  GenerateOn(p)'
<1>1. todo'[p] = Plan("generate", spec)
  BY DEF Start, Typed, PlanInv
<1> QED
  BY <1>1, GeneratePlan DEF GenerateOn, Ahead

LEMMA GenerateCall ==
  ASSUME Typed, PlanInv, Sound, NEW p \in Operators, script[p] = "generate", GenerateOn(p), Call(p)
  PROVE  GenerateOn(p)'
<1>0. /\ netbox \in NetBoxType /\ copy[p] \in SpecType /\ DOMAIN copy = Operators
      /\ \A op, on : Step(op, on).op = op /\ Step(op, on).on = on
  BY DEF Typed, Step
<1>1. /\ todo[p] # <<>> /\ Head(todo[p]) \in Ahead(p)
      /\ \A st \in Ahead(p) : st = Head(todo[p]) \/ st \in Ahead(p)'
      /\ Head(todo[p]) = Step(Head(todo[p]).op, Head(todo[p]).on)
  BY Kept, HeadIs
<1>2. \/ ReadDevices(p) \/ ReadInterfaces(p) \/ ReadAddresses(p) \/ ReadCables(p) \/ Write(p)
  BY CallOf DEF Call
<1>3. netbox' = netbox /\ Ahead(p)' = ToSet(Tail(todo[p]))
  BY <1>2, ReadFits, WriteFits DEF ReadDevices, ReadInterfaces, ReadAddresses, ReadCables, Read, Write, Ahead
<1>4. \A op, x : Step(op, x) \in Ahead(p) =>
         Step(op, x) \in Ahead(p)' \/ (op = Head(todo[p]).op /\ x = Head(todo[p]).on)
  BY <1>0, <1>1
<1>5. \A st \in Ahead(p)' : st.op \in Later("generate", Head(todo[p]).op) /\ st \in Ahead(p)
  BY <1>1, <1>3, AtHead DEF Ahead
<1>6. KnownPorts' = KnownPorts /\ \A i : AddressesOn(i)' = AddressesOn(i)
  BY <1>3 DEF KnownPorts, AddressesOn
<1>7. CASE ReadDevices(p)
  <2>1. /\ copy'[p] = Inventory(netbox) /\ Head(todo[p]).op = "devices"
        /\ spec' = spec
    BY <1>7, ReadFits DEF ReadDevices, Read, AtStep
  <2>2. Step("devices", None) \in Ahead(p)
    BY <1>0, <1>1, <2>1, HeadIs
  <2>3. /\ Step("interfaces", None) \in Ahead(p)' /\ Step("addresses", None) \in Ahead(p)'
        /\ Step("cables", None) \in Ahead(p)' /\ Step("write", None) \in Ahead(p)'
        /\ Step("devices", None) \notin Ahead(p)'
    BY <1>0, <1>4, <1>5, <2>1, <2>2 DEF GenerateOn, Later
  <2> QED
    BY <1>3, <2>1, <2>3 DEF GenerateOn
<1>8. CASE ReadInterfaces(p)
  <2>1. /\ copy'[p] = [copy[p] EXCEPT !.ports = {i \in netbox.ports : i[1] \in copy[p].devices}]
        /\ Head(todo[p]).op = "interfaces" /\ spec' = spec
    BY <1>8, ReadFits DEF ReadInterfaces, Read, AtStep
  <2>2. Step("interfaces", None) \in Ahead(p)
    BY <1>0, <1>1, <2>1, HeadIs
  <2>3. /\ Step("addresses", None) \in Ahead(p)'
        /\ Step("cables", None) \in Ahead(p)' /\ Step("write", None) \in Ahead(p)'
        /\ Step("devices", None) \notin Ahead(p)' /\ Step("interfaces", None) \notin Ahead(p)'
    BY <1>0, <1>4, <1>5, <2>1, <2>2 DEF GenerateOn, Later
  <2>4. Step("devices", None) \notin Ahead(p)
    BY <1>0, <1>4, <2>1, <2>3
  <2>5. \A f \in {"devices", "wan", "managed", "observed", "facts"} :
           copy[p][f] = Inventory(netbox)[f] /\ copy'[p][f] = copy[p][f]
    BY <1>0, <2>1, <2>4 DEF GenerateOn, SpecType
  <2>6. copy[p].devices = netbox.devices
    BY <2>5 DEF Inventory
  <2>7. copy'[p].ports = KnownPorts
    BY <1>0, <2>1, <2>6 DEF KnownPorts, SpecType
  <2> QED
    BY <1>3, <1>6, <2>3, <2>5, <2>7 DEF GenerateOn
<1>9. CASE ReadAddresses(p)
  <2>1. /\ copy'[p] = [copy[p] EXCEPT !.addressed = {i \in copy[p].ports : AddressesOn(i) # {}}]
        /\ Head(todo[p]).op = "addresses" /\ spec' = spec
    BY <1>9, ReadFits DEF ReadAddresses, Read, AtStep
  <2>2. Step("addresses", None) \in Ahead(p)
    BY <1>0, <1>1, <2>1, HeadIs
  <2>3. /\ Step("cables", None) \in Ahead(p)' /\ Step("write", None) \in Ahead(p)'
        /\ Step("devices", None) \notin Ahead(p)' /\ Step("interfaces", None) \notin Ahead(p)'
        /\ Step("addresses", None) \notin Ahead(p)'
    BY <1>0, <1>4, <1>5, <2>1, <2>2 DEF GenerateOn, Later
  <2>4. Step("devices", None) \notin Ahead(p) /\ Step("interfaces", None) \notin Ahead(p)
        /\ Step("cables", None) \in Ahead(p)
    BY <1>0, <1>4, <1>5, <2>1, <2>3
  <2>5. \A f \in {"devices", "wan", "managed", "observed", "facts", "ports"} : copy'[p][f] = copy[p][f]
    BY <1>0, <2>1 DEF SpecType
  <2>6. copy[p].ports = KnownPorts
    BY <2>4 DEF GenerateOn
  <2>7. copy'[p].addressed = {i \in KnownPorts : AddressesOn(i) # {}}
    BY <1>0, <2>1, <2>6 DEF SpecType
  <2> QED
    BY <1>3, <1>6, <2>3, <2>4, <2>5, <2>6, <2>7 DEF GenerateOn
<1>10. CASE ReadCables(p)
  <2> DEFINE peers == copy[p].ports \cap UNION netbox.cables
  <2>1. /\ copy'[p] = [copy[p] EXCEPT !.ports = copy[p].addressed \cup peers,
                                      !.links = {c \in netbox.cables : c \cap peers # {}}]
        /\ Head(todo[p]).op = "cables" /\ spec' = spec
    BY <1>10, ReadFits DEF ReadCables, Read, AtStep
  <2>2. Step("cables", None) \in Ahead(p)
    BY <1>0, <1>1, <2>1, HeadIs
  <2>3. \A st \in Ahead(p)' : st.op = "write"
    BY <1>5, <2>1 DEF Later
  <2>4. /\ Step("write", None) \in Ahead(p)'
        /\ Step("devices", None) \notin Ahead(p)' /\ Step("interfaces", None) \notin Ahead(p)'
        /\ Step("addresses", None) \notin Ahead(p)' /\ Step("cables", None) \notin Ahead(p)'
    BY <1>0, <1>4, <2>1, <2>2, <2>3 DEF GenerateOn
  <2>5. /\ Step("devices", None) \notin Ahead(p) /\ Step("interfaces", None) \notin Ahead(p)
        /\ Step("addresses", None) \notin Ahead(p)
    BY <1>0, <1>4, <2>1, <2>4
  <2>6. /\ \A f \in {"devices", "wan", "managed", "observed", "facts", "addressed"} :
              copy'[p][f] = copy[p][f]
        /\ copy'[p].ports = copy[p].addressed \cup peers
        /\ copy'[p].links = {c \in netbox.cables : c \cap peers # {}}
    BY <1>0, <2>1 DEF SpecType
  <2>7. copy[p].ports = KnownPorts
    BY <2>2, <2>5 DEF GenerateOn
  <2>8. peers = KnownPorts \cap UNION netbox.cables
    BY <2>7
  <2> HIDE DEF peers
  <2>9. /\ copy'[p].ports = copy'[p].addressed \cup peers
        /\ copy'[p].links = {c \in netbox.cables : c \cap peers # {}}
        /\ copy'[p].addressed = {i \in KnownPorts : AddressesOn(i) # {}}
    BY <2>5, <2>6 DEF GenerateOn
  <2>10. \A f \in {"devices", "wan", "managed", "observed", "facts"} : copy'[p][f] = Inventory(netbox)[f]
    BY <2>5, <2>6 DEF GenerateOn
  <2> QED
    BY <1>3, <1>6, <2>4, <2>8, <2>9, <2>10 DEF GenerateOn
<1>11. CASE Write(p)
  <2>1. spec' = copy[p] /\ copy' = copy /\ Head(todo[p]).op = "write"
    BY <1>11 DEF Write, AtStep
  <2>2. \A st \in Ahead(p)' : FALSE
    BY <1>5, <2>1 DEF Later
  <2>3. /\ Step("devices", None) \notin Ahead(p) /\ Step("interfaces", None) \notin Ahead(p)
        /\ Step("addresses", None) \notin Ahead(p) /\ Step("cables", None) \notin Ahead(p)
    BY <1>0, <1>4, <2>1, <2>2
  <2> QED
    BY <1>3, <1>6, <2>1, <2>2, <2>3 DEF GenerateOn
<1> QED
  BY <1>2, <1>7, <1>8, <1>9, <1>10, <1>11

-----------------------------------------------------------------------------
(* Progress is an invariant.                                               *)

LEMMA StepProgress == Typed /\ PlanInv /\ Sound /\ Current /\ Progress /\ [Next]_vars => Progress'
<1> SUFFICES ASSUME Typed, PlanInv, Sound, Current, Progress, [Next]_vars PROVE Progress'
  OBVIOUS
<1> DEFINE On(p) ==
      /\ script[p] = "populate" => PopulateOn(p)
      /\ script[p] = "contexts" => ContextsOn(p)
      /\ script[p] = "sync" => SyncOn(p)
      /\ script[p] = "enrich" => EnrichOn(p)
      /\ script[p] = "enterprise" => EnterpriseOn(p)
      /\ script[p] = "bgp" => BgpOn(p)
      /\ script[p] = "seed" => SeedOn(p)
      /\ script[p] = "generate" => GenerateOn(p)
<1>1. CASE UNCHANGED vars
  BY <1>1 DEF Progress, PopulateOn, ContextsOn, SyncOn, EnrichOn, EnterpriseOn, BgpOn, SeedOn, GenerateOn,
     Ahead, Moving, Reached, KnownPorts, AddressesOn, vars, ledgers
<1>2. ASSUME Next, NEW p \in alone' \cap clean' PROVE On(p)'
  <2>1. p \in Operators
    BY <1>2, WhoIsAlone
  <2>2. ASSUME NEW s \in Scripts, Start(p, s) PROVE On(p)'
    <3>1. script'[p] = s
      BY <2>1, <2>2 DEF Start, Typed
    <3> QED
      BY <2>1, <2>2, <3>1, PopulateStart, ContextsStart, SyncStart, EnrichStart, EnterpriseStart,
         BgpStart, SeedStart, GenerateStart
  <2>3. ASSUME p \in alone, Call(p) PROVE On(p)'
    <3>1. script' = script /\ p \in clean /\ CurrentOn(p)
      BY <1>2, <2>1, <2>3, CallFrame DEF Current
    <3>2. On(p)
      BY <2>3, <3>1 DEF Progress
    <3> QED
      BY <2>1, <2>3, <3>1, <3>2, PopulateCall, ContextsCall, SyncCall, EnrichCall, EnterpriseCall,
         BgpCall, SeedCall, GenerateCall
  <2>4. ~PassOver(p)
    BY <1>2 DEF PassOver
  <2> QED
    BY <1>2, <2>2, <2>3, <2>4, WhoIsAlone
<1>3. CASE Next
  BY <1>2, <1>3 DEF Progress
<1> QED
  BY <1>1, <1>3
-----------------------------------------------------------------------------
(* What has been promised is there when nothing is left to do.             *)

Realising == Typed /\ PlanInv /\ Sound /\ Current /\ Progress

LEMMA InitRealising == Init => Realising
BY InitTyped, InitFits, InitSound DEF Init, Realising, Current, Progress

LEMMA StepRealising == Realising /\ [Next]_vars => Realising'
BY StepTyped, StepFits, StepSound, StepCurrent, StepProgress DEF Realising

LEMMA NothingLeft ==
  ASSUME NEW p, NEW s, Ended(p, s)
  PROVE  Ahead(p) = {} /\ p \in alone \cap clean /\ script[p] = s
BY NothingAhead DEF Ended, Ahead

LEMMA RealisingInventory == Realising => InventoryRealised
<1> SUFFICES ASSUME Realising, NEW p \in Operators
             PROVE  LET k == copy[p]
                    IN  /\ Ended(p, "populate") =>
                            Stocked(netbox, k) /\ \A d \in k.devices \ {Vpn} : Bounded(netbox, k, d)
                        /\ Ended(p, "contexts") =>
                            \A d \in k.devices \cap netbox.devices : Informed(netbox, k, d)
  BY DEF InventoryRealised
<1>1. ASSUME Ended(p, "populate")
      PROVE  /\ Stocked(netbox, copy[p])
             /\ \A d \in copy[p].devices \ {Vpn} : Bounded(netbox, copy[p], d)
  <2>1. Ahead(p) = {} /\ PopulateOn(p)
    BY <1>1, NothingLeft DEF Realising, Progress
  <2> QED
    BY <2>1 DEF PopulateOn, Stocked
<1>2. ASSUME Ended(p, "contexts")
      PROVE  \A d \in copy[p].devices \cap netbox.devices : Informed(netbox, copy[p], d)
  <2>1. Ahead(p) = {} /\ ContextsOn(p)
    BY <1>2, NothingLeft DEF Realising, Progress
  <2> QED
    BY <2>1 DEF ContextsOn
<1> QED
  BY <1>1, <1>2

LEMMA RealisingManagement == Realising => ManagementRealised
<1> SUFFICES ASSUME Realising, NEW p \in Operators
             PROVE  /\ Ended(p, "sync") => \A d \in Lab \cap netbox.devices : Reached(d, SyncPort(d))
                    /\ Ended(p, "enrich") => \A d \in copy[p].devices \cap netbox.devices :
                        /\ d \in Lab => Reached(d, EnrichPort(d))
                        /\ PortsOf(d, netbox.ports) \subseteq copy[p].ports \cup {EnrichPort(d)}
                        /\ "enriched" \in netbox.ctx[d].facts
  BY DEF ManagementRealised
<1>1. ASSUME Ended(p, "sync") PROVE \A d \in Lab \cap netbox.devices : Reached(d, SyncPort(d))
  <2>1. Ahead(p) = {} /\ SyncOn(p)
    BY <1>1, NothingLeft DEF Realising, Progress
  <2> QED
    BY <2>1 DEF SyncOn, Moving
<1>2. ASSUME Ended(p, "enrich"), NEW d \in copy[p].devices \cap netbox.devices
      PROVE  /\ d \in Lab => Reached(d, EnrichPort(d))
             /\ PortsOf(d, netbox.ports) \subseteq copy[p].ports \cup {EnrichPort(d)}
             /\ "enriched" \in netbox.ctx[d].facts
  <2>1. Ahead(p) = {} /\ EnrichOn(p)
    BY <1>2, NothingLeft DEF Realising, Progress
  <2> QED
    BY <2>1 DEF EnrichOn, Moving
<1> QED
  BY <1>1, <1>2

LEMMA RealisingServices == Realising => ServicesRealised
<1> SUFFICES ASSUME Realising, NEW p \in Operators
             PROVE  /\ Ended(p, "seed") =>
                        /\ Tunnel \in netbox.cables /\ Tunnel0 \in netbox.ctx[Ce].observed
                        /\ netbox.ctx[Vpn].boundary = "excluded"
                    /\ Ended(p, "enterprise") =>
                        /\ {"tenancy", "asns", "vlans"} \subseteq netbox.objects
                        /\ {"rack", "tag"} \X (Placed \cap netbox.devices) \subseteq netbox.labels
                    /\ Ended(p, "bgp") => Peerings(copy[p]) \subseteq netbox.sessions
  BY DEF ServicesRealised
<1>1. ASSUME Ended(p, "seed")
      PROVE  /\ Tunnel \in netbox.cables /\ Tunnel0 \in netbox.ctx[Ce].observed
             /\ netbox.ctx[Vpn].boundary = "excluded"
  <2>1. Ahead(p) = {} /\ SeedOn(p)
    BY <1>1, NothingLeft DEF Realising, Progress
  <2> QED
    BY <2>1 DEF SeedOn
<1>2. ASSUME Ended(p, "enterprise")
      PROVE  /\ {"tenancy", "asns", "vlans"} \subseteq netbox.objects
             /\ {"rack", "tag"} \X (Placed \cap netbox.devices) \subseteq netbox.labels
  <2>1. Ahead(p) = {} /\ EnterpriseOn(p)
    BY <1>2, NothingLeft DEF Realising, Progress
  <2>2. ASSUME NEW d \in Placed \cap netbox.devices, NEW label \in {"rack", "tag"}
        PROVE  <<label, d>> \in netbox.labels
    BY <2>1 DEF EnterpriseOn
  <2>3. {"tenancy", "asns", "vlans"} \subseteq netbox.objects
    BY <2>1 DEF EnterpriseOn
  <2>4. \A x \in {"rack", "tag"} \X (Placed \cap netbox.devices) : x = <<x[1], x[2]>>
            /\ x[1] \in {"rack", "tag"} /\ x[2] \in Placed \cap netbox.devices
    OBVIOUS
  <2> QED
    BY <2>2, <2>3, <2>4
<1>3. ASSUME Ended(p, "bgp") PROVE Peerings(copy[p]) \subseteq netbox.sessions
  <2>1. Ahead(p) = {} /\ BgpOn(p)
    BY <1>3, NothingLeft DEF Realising, Progress
  <2> QED
    BY <2>1 DEF BgpOn
<1> QED
  BY <1>1, <1>2, <1>3

\* populate_netbox and populate_netbox_contexts, when they come to their end
\* alone and have passed over no failure, have made NetBox the inventory their
\* spec asks for, whatever was there (their docstrings, lines 1-6).
THEOREM InventoryComes == Spec => []InventoryRealised
BY InitRealising, StepRealising, RealisingInventory, PTL DEF Spec

\* So have sync_netbox_mgmt_ips and netbox_enrich with the management
\* addresses, and netbox_enrich leaves no interface its spec does not know
\* (sync_netbox_mgmt_ips.py:45-91, netbox_enrich.py:91-198).
THEOREM ManagementComes == Spec => []ManagementRealised
BY InitRealising, StepRealising, RealisingManagement, PTL DEF Spec

\* And populate_cloud_aws, populate_netbox_enterprise and netbox_bgp_populate
\* with tunnel, tenancy, labels, and the sessions of every link with an address
\* and an AS number at both ends and of the overlay
\* (populate_cloud_aws.py:118-250, populate_netbox_enterprise.py:34-604,
\* netbox_bgp_populate.py:96-266).
THEOREM ServicesCome == Spec => []ServicesRealised
BY InitRealising, StepRealising, RealisingServices, PTL DEF Spec
-----------------------------------------------------------------------------
(* The circle.                                                             *)

\* What is read of a NetBox that carries the lab.
LEMMA InventoryComplete ==
  ASSUME Typed, Inv, Carries(netbox)
  PROVE  LET k == Inventory(netbox)
         IN  /\ k.managed = LabSpec.managed /\ k.wan = LabSpec.wan
             /\ LabSpec.devices \subseteq k.devices /\ LabSpec.observed \subseteq k.observed
             /\ LabSpec.facts \subseteq k.facts
<1>0. /\ netbox.devices \subseteq Devices /\ Lab \subseteq netbox.devices
      /\ Managed \subseteq Lab /\ Wan \subseteq Lab
      /\ \A d \in Lab : Informed(netbox, LabSpec, d)
  BY InventoryAssumption DEF Carries, Typed, NetBoxType
<1>1. \A d \in Lab : netbox.ctx[d].boundary = IF d \in Managed THEN "managed" ELSE "excluded"
  BY <1>0 DEF Informed, Bounded, Boundary, LabSpec
<1>2. \A d \in Devices : netbox.ctx[d].boundary = "managed" => d \in Managed
  BY DEF Inv, SafeNetBox, Safe
<1>3. {d \in netbox.devices : netbox.ctx[d].boundary = "managed"} = Managed
  BY <1>0, <1>1, <1>2
<1>4. {d \in netbox.devices \cap Wan : netbox.ctx[d].boundary = "excluded"} = Wan \ Managed
  BY <1>0, <1>1
<1>5. Observed \subseteq UNION {netbox.ctx[d].observed : d \in netbox.devices}
  <2> SUFFICES ASSUME NEW i \in Observed PROVE \E d \in netbox.devices : i \in netbox.ctx[d].observed
    OBVIOUS
  <2>1. i[1] \in Lab /\ i[1] \notin Wan \ Managed
    BY AgentAssumption
  <2>2. i \in Observes(LabSpec, i[1])
    BY <2>1 DEF Observes, PortsOf, LabSpec
  <2> QED
    BY <1>0, <2>1, <2>2 DEF Informed
<1>6. Facts \subseteq UNION {netbox.ctx[d].facts : d \in netbox.devices}
  <2> SUFFICES ASSUME NEW f \in Facts PROVE \E d \in netbox.devices : f \in netbox.ctx[d].facts
    OBVIOUS
  <2>1. CASE f \in Policy
    <3>1. PICK d \in Managed : TRUE
      BY <2>1, AgentAssumption
    <3>2. f \in FactsFor(LabSpec, d)
      BY <2>1 DEF FactsFor, LabSpec
    <3> QED
      BY <1>0, <3>2 DEF Informed
  <2>2. CASE f \notin Policy
    <3>1. PICK d \in Lab : f = Asn[d]
      BY <2>2 DEF Facts
    <3>2. f \in AsnFacts(LabSpec, d)
      BY <3>1 DEF AsnFacts, LabSpec
    <3> QED
      BY <1>0, <3>2 DEF Informed, Bounded
  <2> QED
    BY <2>1, <2>2
<1> QED
  BY <1>0, <1>3, <1>4, <1>5, <1>6 DEF Inventory, LabSpec

LEMMA GeneratedComplete ==
  ASSUME Typed, Inv, Carries(netbox), NEW p \in Operators, GenerateOn(p), Ahead(p) = {}
  PROVE  Complete(spec)
<1> DEFINE k == copy[p]
           peers == KnownPorts \cap UNION netbox.cables
<1>1. /\ \A f \in {"devices", "wan", "managed", "observed", "facts"} : k[f] = Inventory(netbox)[f]
      /\ k.addressed = {i \in KnownPorts : AddressesOn(i) # {}}
      /\ k.ports = k.addressed \cup peers
      /\ k.links = {c \in netbox.cables : c \cap peers # {}}
      /\ spec = k
  BY DEF GenerateOn
<1>2. DataPorts \subseteq KnownPorts
  BY LinksAssumption DEF Carries, KnownPorts
<1>3. DataPorts \subseteq k.addressed
  BY <1>1, <1>2, DataAddress DEF Carries, AddressesOn
<1>4. Links \subseteq k.links
  <2> SUFFICES ASSUME NEW l \in Links PROVE l \in netbox.cables /\ l \cap peers # {}
    BY <1>1
  <2>1. l \in netbox.cables
    BY DEF Carries
  <2>2. PICK i \in l : i \in DataPorts
    BY LinksAssumption DEF DataPorts
  <2> QED
    BY <1>2, <2>1, <2>2
<1> HIDE DEF k, peers
<1>5. /\ k.managed = LabSpec.managed /\ k.wan = LabSpec.wan
      /\ LabSpec.devices \subseteq k.devices /\ LabSpec.observed \subseteq k.observed
      /\ LabSpec.facts \subseteq k.facts
  BY <1>1, InventoryComplete
<1>6. LabSpec.ports = DataPorts /\ LabSpec.addressed = DataPorts /\ LabSpec.links = Links
  BY DEF LabSpec
<1>7. DataPorts \subseteq k.ports
  BY <1>1, <1>3
<1> QED
  BY <1>1, <1>3, <1>4, <1>5, <1>6, <1>7 DEF Complete

\* When it runs alone, the generator makes of a NetBox that carries the lab a
\* spec with the same boundary and WAN section and with all the devices,
\* observed interfaces, AS numbers, thresholds and rules, interfaces, addresses
\* and links - for any laboratory whose links, policy and observed interfaces
\* are what the spec's format makes them (netbox_to_spec.py:42-413).  It says
\* nothing of fabric, routing, security, ha_role and reachability tests.
THEOREM CircleIsClosed == Spec => []CircleCloses
<1>1. Realising /\ Inv => CircleCloses
  <2> SUFFICES ASSUME Realising, Inv, NEW p \in Operators, Ended(p, "generate"), Carries(netbox)
               PROVE  Complete(spec)
    BY DEF CircleCloses
  <2>1. Ahead(p) = {} /\ GenerateOn(p) /\ Typed
    BY NothingLeft DEF Realising, Progress
  <2> QED
    BY <2>1, GeneratedComplete
<1> QED
  BY <1>1, InitRealising, StepRealising, InitSafe, StepSafe, PTL DEF Spec
-----------------------------------------------------------------------------
(* What is there stays there.                                              *)

\* Nothing a NetBox that carries the lab needs has gone.
LEMMA CarriesOn ==
  ASSUME Carries(netbox),
         netbox.devices \subseteq netbox'.devices, DataPorts \cap netbox.ports \subseteq netbox'.ports,
         Links \cap netbox.cables \subseteq netbox'.cables,
         \A i \in DataPorts : netbox.at[i] = i => netbox'.at[i] = i,
         \A d \in Lab : Informed(netbox, LabSpec, d) => Informed(netbox', LabSpec, d)
  PROVE  Carries(netbox')
BY DEF Carries

LEMMA MergedInforms ==
  ASSUME NEW s \in {"contexts", "enrich", "seed"}, NEW k \in SpecType, Complete(k),
         NEW nb, NEW nc, NEW d \in Lab, s = "seed" => d = Ce, nb.ctx[d] \in ContextType, Informed(nb, LabSpec, d),
         nc.ctx[d] = Merged(s, k, d, nb.ctx[d])
  PROVE  Informed(nc, LabSpec, d)
<1>0. d # Vpn /\ nb.ctx[d] \in [boundary : {"none", "managed", "excluded"},
                     facts : SUBSET (Facts \cup {"enriched", "tunnels"}), observed : SUBSET Ports]
  BY InventoryAssumption DEF ContextType
<1>1. CASE s = "contexts"
  <2>1. /\ nc.ctx[d].boundary = Boundary(k, d)
        /\ nc.ctx[d].facts = nb.ctx[d].facts \cup FactsFor(k, d)
        /\ nc.ctx[d].observed = IF Observes(k, d) = {} THEN nb.ctx[d].observed ELSE Observes(k, d)
    BY <1>1 DEF Merged
  <2>2. Boundary(k, d) = Boundary(LabSpec, d)
    BY DEF Boundary, Complete
  <2>3. Observes(LabSpec, d) \subseteq Observes(k, d)
    BY DEF Complete, Observes, PortsOf
  <2> QED
    BY <2>1, <2>2, <2>3 DEF Informed, Bounded
<1>2. CASE s = "enrich"
  <2>1. nc.ctx[d] = [nb.ctx[d] EXCEPT !.facts = @ \cup {"enriched"}]
    BY <1>2 DEF Merged
  <2> QED
    BY <1>0, <2>1 DEF Informed, Bounded
<1>3. CASE s = "seed"
  <2>1. nc.ctx[d] = [nb.ctx[d] EXCEPT !.facts = @ \cup {"tunnels"}, !.observed = {Tunnel0}]
    BY <1>0, <1>3 DEF Merged
  <2>2. Observes(LabSpec, d) = {}
    BY <1>3, AgentAssumption DEF Observes, PortsOf, LabSpec
  <2> QED
    BY <1>0, <2>1, <2>2 DEF Informed, Bounded
<1> QED
  BY <1>1, <1>2, <1>3

LEMMA CallCarriesOn ==
  ASSUME Realising, NEW p \in alone, Call(p), ~AtStep(p, "replace"), Complete(copy[p]), Carries(netbox)
  PROVE  Carries(netbox')
<1>0. /\ p \in Operators /\ netbox \in NetBoxType /\ copy[p] \in SpecType /\ CurrentOn(p)
      /\ Typed /\ PlanInv /\ Sound
      /\ \A op, on : Step(op, on).op = op /\ Step(op, on).on = on
  BY DEF Realising, Typed, Current, Step
<1>1. /\ todo[p] # <<>> /\ Head(todo[p]) \in Ahead(p)
      /\ Head(todo[p]) = Step(Head(todo[p]).op, Head(todo[p]).on)
      /\ Head(todo[p]) \in Wants(script[p], copy[p], seen[p].dev)
  BY <1>0, Kept, HeadIs, AtHead
<1>2. CASE UNCHANGED netbox
  BY <1>2
<1>3. CASE Create(p) \/ Port(p) \/ Cable(p)
  <2>1. /\ netbox.devices \subseteq netbox'.devices /\ netbox.ports \subseteq netbox'.ports
        /\ netbox.cables \subseteq netbox'.cables /\ UNCHANGED <<netbox.at, netbox.ctx>>
    <3>1. CASE Create(p)
      BY <1>0, <3>1 DEF Create, NetBoxType
    <3>2. CASE Port(p)
      BY <1>0, <3>2 DEF Port, NetBoxType
    <3>3. CASE Cable(p)
      <4>1. PICK l : netbox' = netbox \/ netbox' = [netbox EXCEPT !.cables = @ \cup {l}]
        BY <3>3 DEF Cable, Put
      <4> QED
        BY <1>0, <4>1 DEF NetBoxType
    <3> QED
      BY <1>3, <3>1, <3>2, <3>3
  <2> QED
    BY <2>1, CarriesOn DEF Informed, Bounded
<1>4. CASE Address(p) \/ Attach(p)
  <2>1. PICK i \in Ports : /\ AddressOf(i) \in DataPorts => netbox' = netbox
                           /\ \/ netbox' = netbox
                              \/ netbox' = [netbox EXCEPT !.at[AddressOf(i)] = i]
    <3>1. CASE Address(p)
      <4>1. PICK i \in Ports : netbox' = IF Exists(AddressOf(i)) THEN netbox
                                         ELSE [netbox EXCEPT !.at[AddressOf(i)] = i]
        BY <3>1 DEF Address, Put
      <4>2. AddressOf(i) \in DataPorts => Exists(AddressOf(i))
        BY DataAddress, InventoryAssumption DEF Carries, Exists
      <4> QED
        BY <4>1, <4>2
    <3>2. CASE Attach(p)
      <4>1. PICK i \in netbox.ports : Doing(p, "attach", i)
                                      /\ netbox' = [netbox EXCEPT !.at[AddressOf(i)] = i]
        BY <3>2 DEF Attach
      <4>2. seen[p].dev \in Lab /\ i \in {SyncPort(seen[p].dev), EnrichPort(seen[p].dev)}
        BY <1>1, <4>1, Wanted DEF Doing, AtStep
      <4>3. AddressOf(i) \notin DataPorts /\ i \in Ports
        BY <4>2, MgmtAddress
      <4> QED
        BY <4>1, <4>3
    <3> QED
      BY <1>4, <3>1, <3>2
  <2>2. /\ UNCHANGED <<netbox.devices, netbox.ports, netbox.cables, netbox.ctx>>
        /\ \A a \in DataPorts : netbox'.at[a] = netbox.at[a]
    BY <1>0, <2>1, DataAddress DEF NetBoxType
  <2> QED
    BY <2>2, CarriesOn DEF Informed, Bounded
<1>5. CASE Merge(p)
  <2> DEFINE o == seen[p].dev
  <2>1. /\ Save(p, Merged(script[p], copy[p], o, seen[p].ctx)) /\ AtStep(p, "merge")
    BY <1>5 DEF Merge
  <2>2. /\ o \in Devices /\ netbox'.ctx[o] = Merged(script[p], copy[p], o, seen[p].ctx)
        /\ \A e \in Devices \ {o} : netbox'.ctx[e] = netbox.ctx[e]
        /\ UNCHANGED <<netbox.devices, netbox.cables, netbox.ports, netbox.at>>
    BY <1>0, <2>1, Saved
  <2>3. seen[p].ctx = netbox.ctx[o] /\ netbox.ctx[o] \in ContextType
    <3>1. Step("merge", None) \in Ahead(p)
      BY <1>0, <1>1, <2>1, HeadIs DEF AtStep
    <3> QED
      BY <1>0, <2>2, <3>1 DEF CurrentOn, NetBoxType
  <2>4. script[p] \in {"contexts", "enrich", "seed"} /\ (script[p] = "seed" => o \in {Ce, Vpn})
    BY <1>1, <2>1, Wanted DEF AtStep
  <2> HIDE DEF o
  <2>5. ASSUME NEW d \in Lab, Informed(netbox, LabSpec, d) PROVE Informed(netbox', LabSpec, d)
    <3>1. d \in Devices /\ d # Vpn
      BY InventoryAssumption DEF Devices
    <3>2. CASE d = o
      BY <1>0, <2>2, <2>3, <2>4, <2>5, <3>1, <3>2, MergedInforms
    <3>3. CASE d # o
      BY <2>2, <2>5, <3>1, <3>3 DEF Informed, Bounded
    <3> QED
      BY <3>2, <3>3
  <2> QED
    BY <2>2, <2>5, CarriesOn
<1>6. CASE Free(p) \/ Drop(p)
  <2>1. PICK i \in Ports :
          /\ netbox' \in {Freed(i), [Freed(i) EXCEPT !.ports = @ \ {i}, !.cables = {c \in @ : i \notin c}]}
          /\ Head(todo[p]).op \in {"free", "drop"} /\ Head(todo[p]).on = i
    BY <1>6 DEF Free, Drop, Put, Doing, AtStep
  <2>2. i \notin DataPorts
    <3>1. i \notin copy[p].ports
      BY <1>1, <2>1, Wanted
    <3> QED
      BY <3>1 DEF Complete, LabSpec
  <2>3. /\ Freed(i) \in NetBoxType /\ \A a \in DataPorts : netbox.at[a] = a => Freed(i).at[a] = a
        /\ Freed(i).devices = netbox.devices /\ Freed(i).ports = netbox.ports
        /\ Freed(i).cables = netbox.cables /\ Freed(i).ctx = netbox.ctx
    BY <1>0, <2>2, FreedType, DataAddress DEF Freed, NetBoxType
  <2>4. /\ \A a \in DataPorts : netbox.at[a] = a => netbox'.at[a] = a
        /\ netbox'.devices = netbox.devices /\ netbox.ports \ {i} \subseteq netbox'.ports
        /\ {c \in netbox.cables : i \notin c} \subseteq netbox'.cables /\ netbox'.ctx = netbox.ctx
    <3>1. CASE netbox' = Freed(i)
      BY <2>3, <3>1
    <3>2. CASE netbox' = [Freed(i) EXCEPT !.ports = @ \ {i}, !.cables = {c \in @ : i \notin c}]
      BY <2>3, <3>2 DEF NetBoxType
    <3> QED
      BY <2>1, <3>1, <3>2
  <2>5. \A l \in Links : i \notin l
    BY <2>2 DEF DataPorts
  <2> QED
    BY <2>2, <2>4, <2>5, CarriesOn DEF Informed, Bounded
<1>7. CASE \/ Primary(p) \/ Catalogue(p) \/ Tenancy(p) \/ AsnRegistry(p) \/ CloudSite(p) \/ Vlans(p)
           \/ Rack(p) \/ Tag(p) \/ Session(p)
  <2>1. UNCHANGED <<netbox.devices, netbox.ports, netbox.cables, netbox.ctx, netbox.at>>
    <3>1. CASE Primary(p) \/ Session(p)
      BY <1>0, <3>1 DEF Primary, Session, Put, NetBoxType
    <3>2. CASE Catalogue(p) \/ Tenancy(p) \/ AsnRegistry(p) \/ CloudSite(p) \/ Vlans(p)
      BY <1>0, <3>2 DEF Catalogue, Tenancy, AsnRegistry, CloudSite, Vlans, Make, Made, Put, NetBoxType
    <3>3. CASE Rack(p) \/ Tag(p)
      BY <1>0, <3>3 DEF Rack, Tag, Labelled, Put, NetBoxType
    <3> QED
      BY <1>7, <3>1, <3>2, <3>3
  <2> QED
    BY <2>1, CarriesOn DEF Informed, Bounded
<1>8. ~Replace(p)
  BY DEF Replace
<1>9. Fetch(p) \/ Find(p) \/ Orphans(p) \/ Asns(p) \/ Peers(p) \/ ReadDevices(p) \/ ReadInterfaces(p)
        \/ ReadAddresses(p) \/ ReadCables(p) \/ Write(p) => UNCHANGED netbox
  BY DEF Fetch, Find, Orphans, Asns, Peers, ReadDevices, ReadInterfaces, ReadAddresses, ReadCables,
     Read, Write, Put
<1> QED
  BY <1>2, <1>3, <1>4, <1>5, <1>6, <1>7, <1>8, <1>9 DEF Call

\* Only a call changes NetBox.
LEMMA Caller ==
  ASSUME Next, netbox' # netbox
  PROVE  \E p \in Operators : Call(p)
BY DEF Next, Start, Stop, PassOver

\* The scripts leave the lab in NetBox alone, unless populate_netbox writes
\* its fresh context, another script runs at the same time, or the script's
\* own spec lacks the lab (populate_netbox.py:307-324 against the merges of
\* populate_netbox_contexts.py:34-43, netbox_enrich.py:150-168 and
\* populate_cloud_aws.py:236-263).
THEOREM NothingIsUndone == Spec => NothingUndone
<1>1. Realising /\ [Next]_vars =>
        [(netbox' # netbox /\ Carries(netbox) /\ ~Carries(netbox'))
            => \E p \in Operators :
                    /\ ~Idle(p)
                    /\ AtStep(p, "replace") \/ p \notin alone \/ ~Complete(copy[p])]_vars
  <2> SUFFICES ASSUME Realising, Next, netbox' # netbox, Carries(netbox), ~Carries(netbox')
               PROVE  \E p \in Operators :
                        /\ ~Idle(p)
                        /\ AtStep(p, "replace") \/ p \notin alone \/ ~Complete(copy[p])
    OBVIOUS
  <2>1. PICK p \in Operators : Call(p)
    BY Caller
  <2>2. ~Idle(p)
    BY <2>1, CallFrame DEF Realising
  <2>3. AtStep(p, "replace") \/ p \notin alone \/ ~Complete(copy[p])
    BY <2>1, CallCarriesOn
  <2> QED
    BY <2>2, <2>3
<1> QED
  BY <1>1, InitRealising, StepRealising, PTL DEF Spec, NothingUndone
-----------------------------------------------------------------------------
(* The primary address.                                                    *)

LEMMA FreedPrimary ==
  ASSUME Realising, NEW p \in alone, NEW i \in Ports, todo[p] # <<>>,
         Head(todo[p]).op \in {"free", "drop"}, Head(todo[p]).on = i, NEW d \in Devices
  PROVE  Freed(i).primary[d] = netbox.primary[d]
<1>0. /\ p \in Operators /\ netbox \in NetBoxType /\ CurrentOn(p) /\ PlanInv
      /\ SoundNetBox(netbox)
  BY DEF Realising, Typed, Current, Sound
<1>1. /\ Head(todo[p]) = Step("free", i) \/ Head(todo[p]) = Step("drop", i)
      /\ Head(todo[p]) \in Ahead(p) /\ i # EnrichPort(i[1])
  BY <1>0, HeadIs, AtHead, Wanted DEF Ahead
<1>2. i[1] \in Lab => netbox.at[Mgmt(i[1])] = EnrichPort(i[1])
  BY <1>0, <1>1 DEF CurrentOn, Attached
<1>3. ASSUME netbox.primary[d] \in AddressesOn(i) PROVE FALSE
  <2>1. netbox.primary[d] # None /\ netbox.at[netbox.primary[d]] = i
    BY <1>3, InventoryAssumption DEF AddressesOn
  <2>2. d \in Lab /\ netbox.primary[d] = Mgmt(d) /\ Mgmt(d) \in Addresses
    BY <1>0, <2>1 DEF SoundNetBox, Addresses
  <2>3. i # None
    BY InventoryAssumption
  <2>4. AddressOf(i) = Mgmt(d)
    BY <1>0, <2>1, <2>2, <2>3 DEF SoundNetBox
  <2>5. i \in MgmtPorts
    <3>1. Mgmt(d) \notin DataPorts /\ Mgmt(d) \notin Tunnel
      BY <2>2, LinksAssumption DEF Tunnel, Tunnel0, Tun0, Mgmt
    <3> QED
      BY <2>4, <3>1 DEF AddressOf, Ports
  <2>6. i[1] = d
    <3>1. Mgmt(i[1]) = Mgmt(d)
      BY <2>4, <2>5 DEF AddressOf
    <3> QED
      BY <3>1 DEF Mgmt
  <2> QED
    BY <1>1, <1>2, <2>1, <2>2, <2>6
<1> QED
  BY <1>0, <1>3 DEF Freed, NetBoxType

LEMMA CallKeepsPrimary ==
  ASSUME Realising, NEW p \in alone, Call(p), NEW d \in Devices, netbox.primary[d] # None
  PROVE  netbox'.primary[d] # None
<1>0. p \in Operators /\ netbox \in NetBoxType
  BY DEF Realising, Typed
<1>1. CASE Free(p) \/ Drop(p)
  <2>1. PICK i \in Ports :
          /\ \/ netbox' = Freed(i)
             \/ netbox' = [Freed(i) EXCEPT !.ports = @ \ {i}, !.cables = {c \in @ : i \notin c}]
          /\ todo[p] # <<>> /\ Head(todo[p]).op \in {"free", "drop"} /\ Head(todo[p]).on = i
    BY <1>1 DEF Free, Drop, Put, Doing, AtStep
  <2>2. Freed(i) \in NetBoxType /\ Freed(i).primary[d] = netbox.primary[d]
    BY <1>0, <2>1, FreedType, FreedPrimary
  <2>3. netbox'.primary = Freed(i).primary
    <3>1. CASE netbox' = Freed(i)
      BY <3>1
    <3>2. CASE netbox' = [Freed(i) EXCEPT !.ports = @ \ {i}, !.cables = {c \in @ : i \notin c}]
      BY <2>2, <3>2 DEF NetBoxType
    <3> QED
      BY <2>1, <3>1, <3>2
  <2> QED
    BY <2>2, <2>3
<1>2. CASE Primary(p)
  <2>1. PICK e \in Lab : netbox' = netbox \/ netbox' = [netbox EXCEPT !.primary[e] = Mgmt(e)]
    BY <1>2 DEF Primary, Put
  <2>2. Mgmt(e) # None
    BY InventoryAssumption DEF Addresses
  <2> QED
    BY <1>0, <2>1, <2>2 DEF NetBoxType
<1>3. CASE ~(Free(p) \/ Drop(p) \/ Primary(p))
  <2>1. CASE PlainCall(p) /\ ~Address(p)
    BY <1>0, <1>3, <2>1, PlainKeeps DEF Realising
  <2>2. CASE Create(p) \/ Port(p) \/ Attach(p) \/ Address(p)
    <3>1. CASE Create(p)
      BY <1>0, <3>1 DEF Create, NetBoxType
    <3>2. CASE Port(p)
      BY <1>0, <3>2 DEF Port, NetBoxType
    <3>3. CASE Attach(p) \/ Address(p)
      <4>1. PICK i : netbox' = netbox \/ netbox' = [netbox EXCEPT !.at[AddressOf(i)] = i]
        BY <3>3 DEF Attach, Address, Put
      <4> QED
        BY <1>0, <4>1 DEF NetBoxType
    <3> QED
      BY <2>2, <3>1, <3>2, <3>3
  <2>3. CASE Replace(p) \/ Merge(p)
    <3>1. PICK o, ctx : netbox' = netbox \/ netbox' = [netbox EXCEPT !.ctx[o] = ctx]
      BY <2>3 DEF Replace, Merge, Save
    <3> QED
      BY <1>0, <3>1 DEF NetBoxType
  <2>4. Fetch(p) \/ Orphans(p) \/ Peers(p) \/ ReadDevices(p) \/ ReadInterfaces(p)
          \/ ReadAddresses(p) \/ ReadCables(p) \/ Write(p) => UNCHANGED netbox
    BY DEF Fetch, Orphans, Peers, ReadDevices, ReadInterfaces, ReadAddresses, ReadCables, Read, Write
  <2> QED
    BY <1>3, <2>1, <2>2, <2>3, <2>4 DEF Call, PlainCall
<1> QED
  BY <1>1, <1>2, <1>3

\* No script that runs alone takes the primary address away from a device:
\* netbox_enrich deletes only interfaces the address is no longer on
\* (netbox_enrich.py:111-148 before 176-198).
THEOREM PrimaryIsKept == Spec => PrimaryKept
<1>1. Realising /\ [Next]_vars =>
        [netbox'.primary # netbox.primary /\ alone # {} => \A d \in Devices :
            netbox.primary[d] # None => netbox'.primary[d] # None]_vars
  <2> SUFFICES ASSUME Realising, Next, netbox'.primary # netbox.primary, alone # {},
                      NEW d \in Devices, netbox.primary[d] # None
               PROVE  netbox'.primary[d] # None
    OBVIOUS
  <2>1. PICK p \in Operators : Call(p)
    BY Caller
  <2>2. p \in alone
    <3>1. ~Idle(p)
      BY <2>1, CallFrame DEF Realising
    <3> QED
      BY <3>1 DEF Realising, Current
  <2> QED
    BY <2>1, <2>2, CallKeepsPrimary
<1> QED
  BY <1>1, InitRealising, StepRealising, PTL DEF Spec, PrimaryKept
-----------------------------------------------------------------------------
(* What a call rests on.                                                   *)

\* The interface under an address is there, or about to be; so is the address
\* that is to become primary, and so are the tunnel's two ends.
Based(p) ==
    LET A == Ahead(p)
    IN  /\ \A i \in Ports : Step("address", i) \in A => i \in netbox.ports
        /\ \A i \in Ports : Step("attach", i) \in A => i \in netbox.ports \/ Step("port", i) \in A
        /\ Step("primary", None) \in A =>
            netbox.at[Mgmt(seen[p].dev)] # None \/ \E i \in Ports : Step("attach", i) \in A
        /\ script[p] = "seed" /\ Step("cable", Tunnel) \in A =>
            \A i \in Tunnel : i \in netbox.ports \/ Step("port", i) \in A
Footing == \A p \in alone : Based(p)

LEMMA StartBased ==
  ASSUME Typed, PlanInv, NEW p \in Operators, NEW s \in Scripts, Start(p, s)
  PROVE  Based(p)'
<1>1. todo'[p] = Plan(s, spec) /\ script'[p] = s /\ spec \in SpecType
  BY DEF Start, Typed, PlanInv
<1>2. \A op, on : Step(op, on).op = op
  BY DEF Step
<1>3. \A st \in Ahead(p)' : st.op \notin {"address", "attach", "primary"}
  BY <1>1, PlanBare DEF Ahead
<1>4. s = "seed" => \A i \in Tunnel : Step("port", i) \in Ahead(p)'
  BY <1>1, SeedPlan DEF Ahead, Tunnel
<1> QED
  BY <1>1, <1>2, <1>3, <1>4 DEF Based

\* Most calls take nothing away that another rests on.
LEMMA BasedStays ==
  ASSUME NEW p \in Operators, Based(p), script'[p] = script[p],
         netbox.ports \subseteq netbox'.ports,
         \A a : netbox.at[a] # None => netbox'.at[a] # None,
         Step("primary", None) \in Ahead(p) => seen'[p].dev = seen[p].dev,
         \A i \in Ports : Step("address", i) \in Ahead(p)' =>
            Step("address", i) \in Ahead(p) \/ i \in netbox'.ports,
         \A st \in Ahead(p)' : st.op \in {"attach", "primary", "cable"} => st \in Ahead(p),
         \A i \in Ports : Step("port", i) \in Ahead(p) =>
            Step("port", i) \in Ahead(p)' \/ i \in netbox'.ports,
         \A i \in Ports : Step("attach", i) \in Ahead(p) =>
            Step("attach", i) \in Ahead(p)' \/ netbox'.at[Mgmt(seen[p].dev)] # None
  PROVE  Based(p)'
<1>0. \A op, on : Step(op, on).op = op
  BY DEF Step
<1>1. Tunnel \subseteq Ports
  BY DEF Ports
<1>2. \A i \in Ports : Step("address", i) \in Ahead(p)' => i \in netbox'.ports
  BY DEF Based
<1>3. \A i \in Ports : Step("attach", i) \in Ahead(p)' => i \in netbox'.ports \/ Step("port", i) \in Ahead(p)'
  BY <1>0 DEF Based
<1>4. Step("primary", None) \in Ahead(p)' =>
        netbox'.at[Mgmt(seen'[p].dev)] # None \/ \E i \in Ports : Step("attach", i) \in Ahead(p)'
  <2> SUFFICES ASSUME Step("primary", None) \in Ahead(p)'
               PROVE  netbox'.at[Mgmt(seen'[p].dev)] # None \/ \E i \in Ports : Step("attach", i) \in Ahead(p)'
    OBVIOUS
  <2>1. Step("primary", None) \in Ahead(p)
    BY <1>0
  <2>2. seen'[p].dev = seen[p].dev
    BY <2>1
  <2> QED
    BY <2>1, <2>2 DEF Based
<1>5. script'[p] = "seed" /\ Step("cable", Tunnel) \in Ahead(p)' =>
        \A i \in Tunnel : i \in netbox'.ports \/ Step("port", i) \in Ahead(p)'
  BY <1>0, <1>1 DEF Based
<1> QED
  BY <1>2, <1>3, <1>4, <1>5 DEF Based

LEMMA CallBased ==
  ASSUME Typed, PlanInv, NEW p \in Operators, Based(p), Call(p)
  PROVE  Based(p)'
<1>0. /\ netbox \in NetBoxType /\ script' = script /\ DOMAIN seen = Operators
      /\ \A op, on : Step(op, on).op = op /\ Step(op, on).on = on
  BY CallFrame DEF Typed, Step
<1>1. /\ todo[p] # <<>> /\ Head(todo[p]) \in Ahead(p)
      /\ \A st \in Ahead(p) : st = Head(todo[p]) \/ st \in Ahead(p)'
      /\ ToSet(Tail(todo[p])) \subseteq Ahead(p)
  BY Kept, AtHead DEF Ahead
<1>2. \A st \in Ahead(p) : st.op \in {"attach", "primary"} => script[p] \in {"sync", "enrich"}
  BY Wanted DEF PlanInv, Ahead
<1>3. CASE Create(p)
  <2>1. PICK d \in Devices : Doing(p, "create", d) /\ netbox' = [netbox EXCEPT !.devices = @ \cup {d}]
    BY <1>3 DEF Create
  <2>2. /\ script[p] \in {"populate", "seed"}
        /\ Ahead(p)' = ToSet(Tail(todo[p]))
              \cup (IF script[p] = "populate" THEN AtDevice("populate", copy[p], d) ELSE {})
    BY <1>3, <2>1, CreateFits DEF Ahead
  <2>3. Head(todo[p]).op = "create" /\ netbox'.ports = netbox.ports /\ netbox'.at = netbox.at
    BY <1>0, <2>1 DEF Doing, AtStep, NetBoxType
  <2>4. \A st \in Ahead(p)' : st.op \in {"address", "attach", "primary", "cable"} => st \in Ahead(p)
    BY <1>0, <1>1, <2>2 DEF AtDevice
  <2>5. Step("primary", None) \notin Ahead(p)
    BY <1>0, <1>2, <2>2
  <2> QED
    BY <1>0, <1>1, <2>3, <2>4, <2>5, BasedStays
<1>4. CASE Fetch(p)
  <2>1. PICK d \in Devices : Doing(p, "fetch", d)
    BY <1>4 DEF Fetch
  <2>2. \A y \in ToSet(Tail(todo[p])) : y.op = "fetch"
    BY <1>4, <2>1, FetchFits
  <2>3. Ahead(p)' \subseteq ToSet(Tail(todo[p])) \cup AtDevice(script[p], copy[p], d)
    BY <1>4, <2>1, FetchFits DEF Ahead
  <2>4. script[p] \in {"contexts", "enrich", "sync", "seed"}
    BY <1>4, <2>1, FetchFits
  <2>5. CASE Ahead(p)' = ToSet(Tail(todo[p])) \cup AtDevice(script[p], copy[p], d)
    <3>1. \A st \in Ahead(p)' : st.op \notin {"address", "cable"}
      BY <1>0, <2>2, <2>3, <2>4 DEF AtDevice, Managing
    <3>2. ASSUME NEW i \in Ports, Step("attach", i) \in Ahead(p)' PROVE Step("port", i) \in Ahead(p)'
      BY <1>0, <2>2, <2>4, <2>5, <3>2 DEF AtDevice, Managing, Step
    <3>3. ASSUME Step("primary", None) \in Ahead(p)'
          PROVE  \E i \in Ports : Step("attach", i) \in Ahead(p)'
      <4>1. \E i : Step("attach", i) \in Ahead(p)' /\ i \in {SyncPort(d), EnrichPort(d)} /\ d \in Lab
        <5>1. Step("primary", None) \in AtDevice(script[p], copy[p], d)
          BY <1>0, <2>2, <2>5, <3>3
        <5>2. \/ script[p] = "sync" /\ Step("attach", SyncPort(d)) \in AtDevice(script[p], copy[p], d)
              \/ d \in Lab /\ Step("attach", EnrichPort(d)) \in AtDevice(script[p], copy[p], d)
          <6>1. CASE script[p] = "sync"
            BY <6>1 DEF AtDevice, Managing
          <6>2. CASE script[p] = "enrich"
            <7>1. d \in Lab
              BY <1>0, <5>1, <6>2 DEF AtDevice
            <7> QED
              BY <6>2, <7>1 DEF AtDevice, Managing
          <6>3. script[p] \notin {"contexts", "seed"}
            BY <1>0, <5>1 DEF AtDevice
          <6> QED
            BY <2>4, <6>1, <6>2, <6>3
        <5>3. script[p] = "sync" => d \in Lab
          BY <1>0, <1>1, <2>1, AtHead, Wanted DEF Doing, AtStep
        <5> QED
          BY <2>5, <5>2, <5>3
      <4> QED
        BY <4>1, MgmtAddress
    <3> QED
      BY <1>0, <3>1, <3>2, <3>3 DEF Based
  <2>6. CASE Ahead(p)' = ToSet(Tail(todo[p]))
    BY <1>0, <2>2, <2>6 DEF Based
  <2> QED
    BY <1>4, <2>1, <2>5, <2>6, FetchFits DEF Ahead
<1>5. CASE Port(p)
  <2>1. PICK i \in Ports : Doing(p, "port", i) /\ netbox' = [netbox EXCEPT !.ports = @ \cup {i}]
    BY <1>5 DEF Port
  <2>2. Ahead(p)' \subseteq ToSet(Tail(todo[p])) \cup {Step("address", i)}
    BY <1>5, <2>1, PortFits DEF Ahead
  <2>3. /\ Head(todo[p]) = Step("port", i) /\ netbox'.ports = netbox.ports \cup {i}
        /\ netbox'.at = netbox.at /\ seen' = seen
    BY <1>0, <1>1, <1>5, <2>1, HeadIs DEF Doing, AtStep, NetBoxType, Port
  <2>4. \A j : Step("address", j) \in Ahead(p)' => Step("address", j) \in Ahead(p) \/ j = i
    BY <1>1, <2>2 DEF Step
  <2>5. \A st \in Ahead(p)' : st.op \in {"attach", "primary", "cable"} => st \in Ahead(p)
    BY <1>0, <1>1, <2>2
  <2>6. \A j : Step("port", j) \in Ahead(p) => Step("port", j) \in Ahead(p)' \/ j = i
    BY <1>0, <1>1, <2>3
  <2>7. \A j : Step("attach", j) \in Ahead(p) => Step("attach", j) \in Ahead(p)'
    BY <1>0, <1>1, <2>3
  <2> QED
    BY <1>0, <2>3, <2>4, <2>5, <2>6, <2>7, BasedStays
<1>6. CASE Attach(p)
  <2>1. PICK i \in netbox.ports : Doing(p, "attach", i) /\ netbox' = [netbox EXCEPT !.at[AddressOf(i)] = i]
    BY <1>6 DEF Attach
  <2>2. Head(todo[p]) = Step("attach", i) /\ seen'[p].dev = seen[p].dev /\ Ahead(p)' = ToSet(Tail(todo[p]))
    BY <1>1, <1>6, <2>1, HeadIs, AttachFits DEF Doing, AtStep, Ahead
  <2>3. seen[p].dev \in Lab /\ i \in {SyncPort(seen[p].dev), EnrichPort(seen[p].dev)}
    BY <1>0, <1>1, <2>2, AtHead, Wanted
  <2>4. AddressOf(i) = Mgmt(seen[p].dev) /\ Mgmt(seen[p].dev) \in Addresses /\ i # None
    BY <2>3, MgmtAddress, InventoryAssumption
  <2>5. /\ netbox'.at[Mgmt(seen[p].dev)] # None /\ netbox'.ports = netbox.ports
        /\ \A a : netbox.at[a] # None => netbox'.at[a] # None
    <3>1. netbox'.at = [netbox.at EXCEPT ![Mgmt(seen[p].dev)] = i] /\ netbox'.ports = netbox.ports
      BY <1>0, <2>1, <2>4 DEF NetBoxType
    <3> QED
      BY <1>0, <2>4, <3>1 DEF NetBoxType
  <2>6. \A j : Step("port", j) \in Ahead(p) => Step("port", j) \in Ahead(p)'
    BY <1>0, <1>1, <2>2
  <2> QED
    BY <1>0, <1>1, <2>2, <2>5, <2>6, BasedStays
<1>7. CASE Replace(p) \/ Merge(p)
  <2>1. PICK ctx : Save(p, ctx)
    BY <1>7 DEF Replace, Merge
  <2>2. Ahead(p)' = ToSet(Tail(todo[p])) /\ seen'[p].dev = seen[p].dev
    BY <1>1, <2>1, SaveFits DEF Ahead
  <2>3. netbox'.ports = netbox.ports /\ netbox'.at = netbox.at
    <3>1. CASE ctx = seen[p].ctx
      BY <2>1, <3>1 DEF Save
    <3>2. CASE ctx # seen[p].ctx
      <4>1. netbox' = [netbox EXCEPT !.ctx[seen[p].dev] = ctx]
        BY <2>1, <3>2 DEF Save
      <4> QED
        BY <1>0, <4>1 DEF NetBoxType
    <3> QED
      BY <3>1, <3>2
  <2>4. Head(todo[p]).op \in {"replace", "merge"}
    BY <1>7 DEF Replace, Merge, AtStep
  <2> QED
    BY <1>0, <1>1, <2>2, <2>3, <2>4, BasedStays
<1>8. CASE Free(p) \/ Drop(p)
  <2>1. \A st \in Ahead(p)' : st.op \in {"free", "drop", "fetch"}
    <3>1. Head(todo[p]).op \in {"free", "drop"} /\ script[p] = "enrich"
      BY <1>8, CallOf DEF Free, Drop, Doing, AtStep
    <3>2. \A st \in ToSet(Tail(todo[p])) : st.op \in {"free", "fetch"}
      BY <1>1, <3>1, AtHead DEF Later
    <3>3. CASE Free(p)
      <4>1. PICK i \in Ports : Doing(p, "free", i)
        BY <3>3 DEF Free
      <4> QED
        BY <1>0, <3>2, <3>3, <4>1, FreeFits DEF Ahead
    <3>4. CASE Drop(p)
      BY <3>2, <3>4, PlainFits DEF PlainCall, Ahead
    <3> QED
      BY <1>8, <3>3, <3>4
  <2> QED
    BY <1>0, <2>1 DEF Based
<1>9. CASE Orphans(p)
  <2>1. PICK d \in Devices : seen[p].dev = d
    BY <1>9 DEF Orphans
  <2>2. UNCHANGED <<netbox, seen>> /\ Head(todo[p]).op = "orphans"
    BY <1>9 DEF Orphans, AtStep
  <2>3. Ahead(p)' = ToSet(Tail(todo[p]))
            \cup {Step("free", i) : i \in PortsOf(d, netbox.ports) \ (copy[p].ports \cup {EnrichPort(d)})}
    BY <1>9, <2>1, OrphansFits DEF Ahead
  <2>4. \A st \in Ahead(p)' : st \in Ahead(p) \/ st.op = "free"
    BY <1>0, <1>1, <2>3
  <2> QED
    BY <1>0, <1>1, <2>2, <2>4, BasedStays
<1>10. CASE Peers(p) \/ ReadDevices(p) \/ ReadInterfaces(p) \/ ReadAddresses(p) \/ ReadCables(p) \/ Write(p)
  <2>1. script'[p] \in {"bgp", "generate"} /\ PlanInv'
    BY <1>0, <1>10, Kept, CallOf
  <2>2. \A st \in Ahead(p)' : st.op \notin {"address", "attach", "primary", "cable"}
    BY <2>1, Wanted DEF PlanInv, Ahead
  <2> QED
    BY <1>0, <2>1, <2>2 DEF Based
<1>11. CASE PlainCall(p) /\ ~Drop(p)
  <2>1. Ahead(p)' = ToSet(Tail(todo[p])) /\ seen' = seen
    BY <1>11, PlainFits DEF Ahead
  <2>2. /\ netbox'.ports = netbox.ports
        /\ \A a : netbox.at[a] # None => netbox'.at[a] # None
        /\ Head(todo[p]).op \notin {"port", "attach"}
    <3>1. CASE Find(p) \/ Asns(p)
      BY <3>1 DEF Find, Asns, Put, Doing, AtStep
    <3>2. CASE Address(p)
      <4>1. PICK i \in Ports : /\ Doing(p, "address", i)
                               /\ netbox' = netbox \/ netbox' = [netbox EXCEPT !.at[AddressOf(i)] = i]
        BY <3>2 DEF Address, Put
      <4>2. i # None
        BY InventoryAssumption
      <4>3. CASE netbox' = netbox
        BY <4>1, <4>3 DEF Doing, AtStep
      <4>4. CASE netbox' = [netbox EXCEPT !.at[AddressOf(i)] = i]
        <5>1. netbox'.at = [netbox.at EXCEPT ![AddressOf(i)] = i] /\ netbox'.ports = netbox.ports
          BY <1>0, <4>4 DEF NetBoxType
        <5>2. \A a \in Addresses : netbox.at[a] # None => netbox'.at[a] # None
          BY <1>0, <4>2, <5>1 DEF NetBoxType
        <5>3. \A a : a \notin Addresses => netbox'.at[a] = netbox.at[a]
          BY <1>0, <5>1 DEF NetBoxType
        <5> QED
          BY <4>1, <5>1, <5>2, <5>3 DEF Doing, AtStep
      <4> QED
        BY <4>1, <4>3, <4>4
    <3>3. CASE Primary(p)
      BY <1>0, <3>3 DEF Primary, Put, AtStep, NetBoxType
    <3>4. CASE Cable(p)
      BY <1>0, <3>4 DEF Cable, Put, Doing, AtStep, NetBoxType
    <3>5. CASE Catalogue(p) \/ Tenancy(p) \/ AsnRegistry(p) \/ CloudSite(p) \/ Vlans(p)
      BY <1>0, <3>5 DEF Catalogue, Tenancy, AsnRegistry, CloudSite, Vlans, Make, Made, Put, Doing,
         AtStep, NetBoxType
    <3>6. CASE Rack(p) \/ Tag(p)
      BY <1>0, <3>6 DEF Rack, Tag, Labelled, Put, Doing, AtStep, NetBoxType
    <3>7. CASE Session(p)
      BY <1>0, <3>7 DEF Session, Put, Doing, AtStep, NetBoxType
    <3> QED
      BY <1>11, <3>1, <3>2, <3>3, <3>4, <3>5, <3>6, <3>7 DEF PlainCall
  <2>3. \A op, x : op \in {"port", "attach"} /\ Step(op, x) \in Ahead(p) => Step(op, x) \in Ahead(p)'
    BY <1>0, <1>1, <2>2
  <2> QED
    BY <1>0, <1>1, <2>1, <2>2, <2>3, BasedStays
<1> QED
  BY <1>3, <1>4, <1>5, <1>6, <1>7, <1>8, <1>9, <1>10, <1>11 DEF Call, PlainCall

LEMMA PassOverBased ==
  ASSUME Typed, PlanInv, NEW p \in Operators, Based(p), PassOver(p)
  PROVE  Based(p)'
<1>0. \A op, on : Step(op, on).op = op
  BY DEF Step
<1>1. todo[p] # <<>> /\ Ahead(p)' = ToSet(Tail(todo[p])) /\ Ahead(p) = {Head(todo[p])} \cup ToSet(Tail(todo[p]))
  BY PassOverFits, AtHead DEF Ahead
<1>2. UNCHANGED <<netbox, seen, script>> /\ Head(todo[p]).op \notin {"port", "attach"}
  BY DEF PassOver, Continue, Caught, AtStep
<1> QED
  BY <1>0, <1>1, <1>2, BasedStays

LEMMA StepFooting == Typed /\ PlanInv /\ Current /\ Footing /\ [Next]_vars => Footing'
<1> SUFFICES ASSUME Typed, PlanInv, Current, Footing, [Next]_vars PROVE Footing'
  OBVIOUS
<1>1. CASE UNCHANGED vars
  BY <1>1 DEF Footing, Based, Ahead, vars, ledgers
<1>2. ASSUME Next, NEW p \in alone' PROVE Based(p)'
  BY <1>2, WhoIsAlone, StartBased, CallBased, PassOverBased DEF Footing
<1> QED
  BY <1>1, <1>2 DEF Footing

\* Whoever has read all of the lab's interfaces does not free one in use.
LEMMA OrphansUnused ==
  ASSUME Typed, PlanInv, Sound, NEW p \in Operators, NEW i \in Ports, Complete(copy[p]),
         Doing(p, "free", i) \/ Doing(p, "drop", i)
  PROVE  ~InUse(i)
<1>1. i \notin copy[p].ports
  BY AtHead, Wanted DEF Doing, AtStep
<1>2. DataPorts \subseteq copy[p].ports
  BY DEF Complete, LabSpec
<1> SUFFICES ASSUME NEW l \in netbox.sessions, NEW a \in AddressesOn(i) \cap l PROVE FALSE
  BY DEF InUse
<1>3. a \in DataPorts
  <2>1. a \in l /\ (l \in Links \/ l \in Overlay)
    BY DEF Typed, NetBoxType, Sessions
  <2>2. CASE l \in Links
    <3>1. a \in UNION Links
      BY <2>1, <2>2
    <3> QED
      BY <3>1 DEF DataPorts
  <2>3. CASE l \in Overlay
    <3>1. a \in Loopbacks
      BY <2>1, <2>3, OverlayAssumption
    <3> QED
      BY <3>1 DEF DataPorts
  <2> QED
    BY <2>1, <2>2, <2>3
<1>4. netbox.at[a] = i /\ a \in Addresses /\ i # None
  BY InventoryAssumption DEF AddressesOn
<1>5. AddressOf(i) = a
  BY <1>4 DEF Sound, SoundNetBox
<1>6. CASE i \in MgmtPorts
  <2>1. a \in {Mgmt(d) : d \in Lab}
    BY <1>5, <1>6, MgmtAddress DEF MgmtPorts
  <2> QED
    BY <1>3, <2>1, LinksAssumption
<1>7. CASE i \notin MgmtPorts
  BY <1>1, <1>2, <1>3, <1>5, <1>7 DEF AddressOf
<1> QED
  BY <1>6, <1>7

LEMMA FootingHolds == Realising /\ Footing => NothingMissing
<1> SUFFICES ASSUME Realising, Footing, NEW p \in alone
             PROVE  /\ \A i \in Ports : Doing(p, "address", i) \/ Doing(p, "attach", i) => i \in netbox.ports
                    /\ AtStep(p, "primary") => Exists(Mgmt(seen[p].dev))
                    /\ script[p] = "seed" /\ AtStep(p, "cable") => Tunnel \subseteq netbox.ports
                    /\ Complete(copy[p]) =>
                        \A i \in Ports : Doing(p, "free", i) \/ Doing(p, "drop", i) => ~InUse(i)
  BY DEF NothingMissing
<1>0. /\ p \in Operators /\ Based(p)
      /\ \A op, on : Step(op, on).op = op /\ Step(op, on).on = on
  BY DEF Realising, Typed, Footing, Step
<1>1. ASSUME todo[p] # <<>>
      PROVE  /\ Head(todo[p]) = Step(Head(todo[p]).op, Head(todo[p]).on) /\ Head(todo[p]) \in Ahead(p)
             /\ \A st \in Ahead(p) : st = Head(todo[p]) \/ st.op \in Later(script[p], Head(todo[p]).op)
  BY <1>0, <1>1, AtHead, HeadIs DEF Realising, Ahead
<1>2. ASSUME NEW i \in Ports, Doing(p, "address", i) PROVE i \in netbox.ports
  BY <1>0, <1>1, <1>2 DEF Based, Doing, AtStep
<1>3. ASSUME NEW i \in Ports, Doing(p, "attach", i) PROVE i \in netbox.ports
  <2>1. Head(todo[p]) = Step("attach", i) /\ Step("attach", i) \in Ahead(p) /\ todo[p] # <<>>
    BY <1>1, <1>3 DEF Doing, AtStep
  <2>2. script[p] \in {"sync", "enrich"}
    BY <1>0, <2>1, AtHead, Wanted DEF Realising
  <2>3. "port" \notin Later(script[p], "attach")
    BY <2>2 DEF Later
  <2>4. Step("port", i) \notin Ahead(p)
    BY <1>0, <1>1, <2>1, <2>3
  <2> QED
    BY <1>0, <2>1, <2>4 DEF Based
<1>4. ASSUME AtStep(p, "primary") PROVE Exists(Mgmt(seen[p].dev))
  <2>1. Head(todo[p]) = Step("primary", None) /\ Step("primary", None) \in Ahead(p) /\ todo[p] # <<>>
    BY <1>0, <1>1, <1>4, HeadIs DEF AtStep, Realising
  <2>2. script[p] \in {"sync", "enrich"}
    BY <1>0, <2>1, AtHead, Wanted DEF Realising
  <2>3. "attach" \notin Later(script[p], "primary")
    BY <2>2 DEF Later
  <2>4. \A i \in Ports : Step("attach", i) \notin Ahead(p)
    BY <1>0, <1>1, <2>1, <2>3
  <2> QED
    BY <1>0, <2>1, <2>4 DEF Based, Exists
<1>5. ASSUME script[p] = "seed", AtStep(p, "cable") PROVE Tunnel \subseteq netbox.ports
  <2>1. todo[p] # <<>> /\ Head(todo[p]).op = "cable"
    BY <1>5 DEF AtStep
  <2>2. Head(todo[p]).on = Tunnel
    BY <1>0, <1>5, <2>1, AtHead, Wanted DEF Realising
  <2>3. Step("cable", Tunnel) \in Ahead(p)
    BY <1>1, <2>1, <2>2
  <2>4. "port" \notin Later("seed", "cable")
    BY DEF Later
  <2>5. \A i : Step("port", i) \notin Ahead(p)
    BY <1>0, <1>1, <1>5, <2>1, <2>4
  <2> QED
    BY <1>0, <1>5, <2>3, <2>5 DEF Based
<1>6. ASSUME Complete(copy[p]), NEW i \in Ports, Doing(p, "free", i) \/ Doing(p, "drop", i) PROVE ~InUse(i)
  BY <1>0, <1>6, OrphansUnused DEF Realising
<1> QED
  BY <1>2, <1>3, <1>4, <1>5, <1>6

\* A script that runs alone is refused no call for what earlier ones left or
\* took away: each makes what its own calls rest on before it makes them
\* (populate_netbox.py:239-305, populate_cloud_aws.py:157-201,
\* sync_netbox_mgmt_ips.py:45-91), and netbox_enrich deletes no address of a
\* session while its spec has the lab's interfaces (netbox_enrich.py:91-198).
THEOREM NothingIsMissing == Spec => []NothingMissing
<1>1. Init => Realising /\ Footing
  BY InitRealising DEF Init, Footing
<1>2. Realising /\ Footing /\ [Next]_vars => (Realising /\ Footing)'
  BY StepRealising, StepFooting DEF Realising
<1> QED
  BY <1>1, <1>2, FootingHolds, PTL DEF Spec
=============================================================================
