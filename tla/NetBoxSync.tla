----------------------------- MODULE NetBoxSync -----------------------------
(***************************************************************************)
(* The scripts that fill NetBox from the lab spec, and netbox_to_spec.py,  *)
(* which writes the spec anew from NetBox: a circle.  What one script      *)
(* leaves out of NetBox the generator leaves out of the spec, and then no  *)
(* script can put it back.                                                 *)
(*                                                                         *)
(* A script reads its input once and then makes one API call after the     *)
(* other: todo is what it has still to do, a step for each call or group   *)
(* of calls.  It may end at any of them: a call that NetBox refuses (the   *)
(* guard of its step does not hold) raises, and so may any other call.     *)
(* Operators run scripts in any order, and two of them at the same time.   *)
(*                                                                         *)
(* An interface is a pair <<device, name>>; one that is deleted and made   *)
(* again counts as the same.  The address of a data interface goes by the  *)
(* name of the interface, the management address of d is Mgmt(d).          *)
(***************************************************************************)
EXTENDS Naturals, FiniteSets, Sequences, SequencesExt

CONSTANTS
    Lab,        \* the devices of the laboratory (the hosts left out)
    Ce, Vpn,    \* dc-ce-1, and aws-vpn-1, which populate_cloud_aws creates
    Managed,    \* the devices the agent may touch
    Wan,        \* devices with the role ce or pe
    Links,      \* data links, each a set of two interfaces
    Looped,     \* the devices with a Loopback0: all but the firewalls
    Overlay,    \* BGP sessions between loopbacks, each a set of two: of the two
                \* PEs, of each DC spine with each of its clients, of the DR leaves
    Fabrics,    \* the devices of dc_east and those of dr_west
    Placed,     \* the devices populate_netbox_enterprise places in racks and tags
    Observed,   \* the observed interfaces of the site devices
    Asn,        \* Asn[d]: the fact that is the AS number of d, None for a firewall
    Policy,     \* the facts that are thresholds and compliance rules
    Operators,  \* whoever runs scripts
    Offered,    \* the scripts they run
    MaxRuns,    \* bound: scripts started
    None

Devices == Lab \cup {Vpn}
Loopback(d) == <<d, "Loopback0">>
Loopbacks == {Loopback(d) : d \in Looped}
\* To the scripts a loopback is an interface with an address and no cable.
DataPorts == (UNION Links) \cup Loopbacks
Sessions == Links \cup Overlay
Mgmt(d) == <<d, "mgmt">>
\* sync_netbox_mgmt_ips and netbox_enrich disagree about the name.
SyncPort(d) == <<d, "Management1">>
EnrichPort(d) == <<d, "Mgmt1">>
Tunnel0 == <<Ce, "Tunnel0">>
Tun0 == <<Vpn, "tun0">>
Tunnel == {Tunnel0, Tun0}

MgmtPorts == {SyncPort(d) : d \in Lab} \cup {EnrichPort(d) : d \in Lab}
Ports == DataPorts \cup MgmtPorts \cup Tunnel
Addresses == DataPorts \cup {Mgmt(d) : d \in Lab}
AddressOf(i) == IF i \in MgmtPorts THEN Mgmt(i[1]) ELSE i
PortsOf(d, S) == {i \in S : i[1] = d}
Facts == ({Asn[d] : d \in Lab} \ {None}) \cup Policy
Scripts == {"populate", "enterprise", "contexts", "sync", "enrich", "bgp", "seed", "generate"}

ASSUME InventoryAssumption ==
    /\ Ce \in Lab /\ Vpn \notin Lab /\ None \notin Devices \cup Addresses \cup Ports
    /\ Managed \subseteq Lab /\ Wan \subseteq Lab /\ Placed \subseteq Lab
    /\ "enriched" \notin Facts
    /\ Observed \subseteq Ports
    /\ Offered \subseteq Scripts
ASSUME MaxRunsAssumption == MaxRuns \in Nat
\* The spec lists finitely many devices and links.  NetBox lets an interface
\* have one cable, and management interfaces and the tunnel are no data links.
ASSUME FiniteAssumption == IsFiniteSet(Lab) /\ IsFiniteSet(Links)
ASSUME LinksAssumption ==
    /\ \A l \in Links : (\E i, j \in l : l = {i, j}) /\ l \cap Loopbacks = {}
    /\ \A l, m \in Links : l = m \/ l \cap m = {}
    /\ \A i \in DataPorts : i[1] \in Lab
    /\ DataPorts \cap (MgmtPorts \cup Tunnel \cup {Mgmt(d) : d \in Lab}) = {}
\* An overlay session is between loopbacks of devices that have an AS number.
ASSUME OverlayAssumption ==
    /\ Looped \subseteq Lab /\ Overlay \subseteq SUBSET Loopbacks
    /\ \A l \in Overlay : \A i \in l : Asn[i[1]] # None
\* No section but the sites' has observed interfaces, and those of dc-ce-1
\* belong to populate_cloud_aws; the policy is kept with the managed devices.
ASSUME AgentAssumption ==
    /\ \A i \in Observed : i[1] \in Lab \ (Wan \ Managed) /\ i[1] # Ce
    /\ Policy # {} => Managed # {}

\* What the scripts use of the spec the repository comes with.  Left out are
\* the fabric, routing and security sections, the ha_role of interfaces and
\* the reachability tests.
LabSpec ==
    [devices |-> Lab, wan |-> Wan \ Managed, managed |-> Managed,
     observed |-> Observed, facts |-> Facts,
     ports |-> DataPorts, addressed |-> DataPorts, links |-> Links]

NoContext == [boundary |-> "none", facts |-> {}, observed |-> {}]
EmptyNetBox ==
    [objects |-> {}, labels |-> {}, devices |-> {}, ports |-> {}, cables |-> {}, sessions |-> {},
     at |-> [a \in Addresses |-> None],
     primary |-> [d \in Devices |-> None],
     ctx |-> [d \in Devices |-> NoContext]]

Boundary(k, d) == IF d \in k.managed THEN "managed" ELSE "excluded"
AsnFacts(k, d) == {f \in k.facts : d \in Lab /\ f = Asn[d]}
FactsFor(k, d) == AsnFacts(k, d) \cup (IF d \in k.managed THEN k.facts \cap Policy ELSE {})

\* NetBox after populate_netbox and populate_netbox_contexts.
SeededNetBox ==
    [EmptyNetBox EXCEPT !.objects = {"catalogue"}, !.devices = Lab,
        !.ports = DataPorts, !.cables = Links,
        !.at = [a \in Addresses |-> IF a \in DataPorts THEN a ELSE None],
        !.ctx = [d \in Devices |->
            IF d = Vpn THEN NoContext
            ELSE [boundary |-> Boundary(LabSpec, d), facts |-> FactsFor(LabSpec, d),
                  observed |-> PortsOf(d, Observed)]]]

VARIABLES
    netbox,  \* what is in NetBox
    spec,    \* specs/generated/lab_spec.yaml
    script,  \* the script each operator runs
    copy,    \* the spec it has read, or is about to write
    todo,    \* the steps it has still to make
    seen,    \* the device object it holds
    runs,    \* scripts started
    alone,   \* ledger: scripts with none beside them since they began
    clean    \* ledger: scripts that have passed over no failure

ledgers == <<runs, alone>>
vars == <<netbox, spec, script, copy, todo, seen, ledgers, clean>>

NoDevice == [dev |-> None, ctx |-> NoContext, primary |-> None]
Init ==
    /\ netbox \in {EmptyNetBox, SeededNetBox}
    /\ spec = LabSpec
    /\ script = [p \in Operators |-> "none"]
    /\ copy = [p \in Operators |-> LabSpec]
    /\ todo = [p \in Operators |-> <<>>]
    /\ seen = [p \in Operators |-> NoDevice]
    /\ runs = 0
    /\ alone = {} /\ clean = {}

-----------------------------------------------------------------------------
\* What the scripts do, in the order they do it.

Step(op, on) == [op |-> op, on |-> on]
Each(op, S) ==
    LET order == SetToSeq(S) IN [n \in 1..Cardinality(S) |-> Step(op, order[n])]

Plan(s, k) ==
    CASE s = "populate" ->
            <<Step("make", "catalogue")>> \o Each("create", k.devices \ {Vpn})
                \o Each("cable", k.links)
      [] s = "enterprise" ->
            <<Step("make", "tenancy")>> \o Each("rack", Placed)
                \o <<Step("make", "asns"), Step("vlans", None)>> \o Each("tag", Placed)
      [] s \in {"contexts", "enrich"} -> Each("fetch", k.devices)
      [] s = "sync" -> Each("fetch", Lab)
      [] s = "bgp" -> <<Step("asns", None), Step("peers", None)>>
      [] s = "seed" ->
            <<Step("make", "cloud"), Step("create", Vpn), Step("port", Tun0),
              Step("find", Ce), Step("port", Tunnel0), Step("cable", Tunnel),
              Step("fetch", Ce), Step("fetch", Vpn)>>
      [] s = "generate" ->
            <<Step("devices", None), Step("interfaces", None), Step("addresses", None),
              Step("cables", None), Step("write", None)>>

\* What follows once the device object is in hand.
ManageBug(i) == <<Step("attach", i), Step("port", i), Step("primary", None)>>  \* address first
Manage(i) == <<Step("port", i), Step("attach", i), Step("primary", None)>>
DeviceStepsBug(s, k, d) ==  \* netbox_enrich cleans up before it moves the address
    CASE s = "populate" -> Each("port", PortsOf(d, k.ports)) \o <<Step("replace", None)>>
      [] s = "sync" -> Manage(SyncPort(d))
      [] s = "enrich" -> <<Step("merge", None), Step("orphans", None)>> \o Manage(EnrichPort(d))
      [] s \in {"contexts", "seed"} -> <<Step("merge", None)>>
DeviceSteps(s, k, d) ==
    CASE s = "populate" -> Each("port", PortsOf(d, k.ports)) \o <<Step("replace", None)>>
      [] s = "sync" -> Manage(SyncPort(d))
      [] s = "enrich" ->
            (IF d \in Lab THEN Manage(EnrichPort(d)) ELSE <<>>)
                \o <<Step("merge", None), Step("orphans", None)>>
      [] s \in {"contexts", "seed"} -> <<Step("merge", None)>>

-----------------------------------------------------------------------------
\* A script begins and ends.

Idle(p) == script[p] = "none"
Start(p, s) ==
    /\ Idle(p) /\ s \in Offered /\ runs < MaxRuns
    /\ runs' = runs + 1
    /\ script' = [script EXCEPT ![p] = s]
    /\ copy' = [copy EXCEPT ![p] = spec]
    /\ todo' = [todo EXCEPT ![p] = Plan(s, spec)]
    /\ alone' = IF \A q \in Operators : Idle(q) THEN {p} ELSE {}
    /\ clean' = clean \cup {p}
    /\ UNCHANGED <<netbox, spec, seen>>

\* After its last step, or at a call that raises, or killed.
Stop(p) ==
    /\ ~Idle(p)
    /\ script' = [script EXCEPT ![p] = "none"]
    /\ copy' = [copy EXCEPT ![p] = LabSpec]
    /\ todo' = [todo EXCEPT ![p] = <<>>]
    /\ seen' = [seen EXCEPT ![p] = NoDevice]
    /\ alone' = alone \ {p}
    /\ clean' = clean \ {p}
    /\ UNCHANGED <<netbox, spec, runs>>

AtStep(p, op) == todo[p] # <<>> /\ Head(todo[p]).op = op
Doing(p, op, on) == AtStep(p, op) /\ Head(todo[p]).on = on
Continue(p, steps) ==
    /\ todo' = [todo EXCEPT ![p] = steps \o Tail(@)]
    /\ UNCHANGED <<script, ledgers>>
Done(p) == Continue(p, <<>>) /\ UNCHANGED <<spec, copy, clean>>
\* The step is over and only NetBox has changed.
Put(p, nb) == netbox' = nb /\ Done(p) /\ UNCHANGED seen

\* Calls in a try or a suppress: the failure is printed at most.
Caught(p) ==
    \/ \E op \in {"drop", "rack", "tag", "session"} : AtStep(p, op)
    \/ script[p] = "populate" /\ \E op \in {"address", "cable"} : AtStep(p, op)
PassOver(p) ==
    /\ Caught(p)
    /\ clean' = clean \ {p}
    /\ Continue(p, <<>>)
    /\ UNCHANGED <<netbox, spec, copy, seen>>

-----------------------------------------------------------------------------
\* Devices, interfaces, addresses and cables.

Record(d) == [dev |-> d, ctx |-> netbox.ctx[d], primary |-> netbox.primary[d]]

Create(p) == AtStep(p, "create") /\ \E d \in Devices :
    /\ Doing(p, "create", d)
    /\ netbox' = [netbox EXCEPT !.devices = @ \cup {d}]
    /\ seen' = [seen EXCEPT ![p] = Record(d)]
    /\ Continue(p, IF script[p] = "populate" THEN DeviceSteps("populate", copy[p], d) ELSE <<>>)
    /\ UNCHANGED <<spec, copy, clean>>

\* A device that is not in NetBox is passed over.
Fetch(p) == AtStep(p, "fetch") /\ \E d \in Devices :
    /\ Doing(p, "fetch", d)
    /\ IF d \in netbox.devices
       THEN /\ seen' = [seen EXCEPT ![p] = Record(d)]
            /\ Continue(p, DeviceSteps(script[p], copy[p], d))
       ELSE UNCHANGED seen /\ Continue(p, <<>>)
    /\ UNCHANGED <<netbox, spec, copy, clean>>

\* populate_cloud_aws raises when there is no dc-ce-1.
Find(p) == \E d \in netbox.devices : Doing(p, "find", d) /\ Put(p, netbox)

Port(p) == AtStep(p, "port") /\ \E i \in Ports :
    /\ Doing(p, "port", i)
    /\ netbox' = [netbox EXCEPT !.ports = @ \cup {i}]
    /\ Continue(p, IF script[p] = "populate" /\ i \in copy[p].addressed
                   THEN <<Step("address", i)>> ELSE <<>>)
    /\ UNCHANGED <<spec, copy, seen, clean>>

Exists(a) == netbox.at[a] # None
\* populate_netbox creates without looking: a duplicate is skipped.
Address(p) == AtStep(p, "address") /\ \E i \in Ports :
    /\ Doing(p, "address", i)
    /\ Exists(AddressOf(i)) \/ i \in netbox.ports
    /\ Put(p, IF Exists(AddressOf(i)) THEN netbox
              ELSE [netbox EXCEPT !.at[AddressOf(i)] = i])

AttachBug(p) == AtStep(p, "attach") /\ \E i \in netbox.ports :  \* an address that exists is left where it is
    /\ Doing(p, "attach", i)
    /\ Put(p, IF Exists(AddressOf(i)) THEN netbox
              ELSE [netbox EXCEPT !.at[AddressOf(i)] = i])

\* Get or create, then move to the interface.  A new object has a new id.
Attach(p) == AtStep(p, "attach") /\ \E i \in netbox.ports :
    /\ Doing(p, "attach", i)
    /\ netbox' = [netbox EXCEPT !.at[AddressOf(i)] = i]
    /\ seen' = [seen EXCEPT ![p].primary = IF Exists(AddressOf(i)) THEN @ ELSE None]
    /\ Done(p)

PrimaryBug(p) == \E d \in Lab :  \* the id of the device in place of the address
    /\ AtStep(p, "primary") /\ seen[p].dev = d
    /\ Put(p, [netbox EXCEPT !.primary[d] = d])
Primary(p) == \E d \in Lab :
    /\ AtStep(p, "primary") /\ seen[p].dev = d
    /\ \/ seen[p].primary = Mgmt(d) /\ Put(p, netbox)
       \/ /\ seen[p].primary # Mgmt(d) /\ Exists(Mgmt(d))
          /\ Put(p, [netbox EXCEPT !.primary[d] = Mgmt(d)])

Uncabled(S) == \A c \in netbox.cables : c \cap S = {}
CableBug(p) == \E l \in Links \cup {Tunnel} :  \* a cable on the device is taken for this one
    /\ Doing(p, "cable", l)
    /\ Put(p, IF \A c \in netbox.cables : \A i \in c, j \in l : i[1] # j[1]
              THEN [netbox EXCEPT !.cables = @ \cup {l}] ELSE netbox)
\* populate_netbox passes over a link with an end missing or taken, while
\* populate_cloud_aws looks for this very cable and creates it otherwise.
Cable(p) == AtStep(p, "cable") /\ \E l \in Links \cup {Tunnel} :
    /\ Doing(p, "cable", l)
    /\ LET free == l \subseteq netbox.ports /\ Uncabled(l)
       IN  /\ script[p] = "seed" => free \/ l \in netbox.cables
           /\ Put(p, IF free THEN [netbox EXCEPT !.cables = @ \cup {l}] ELSE netbox)

-----------------------------------------------------------------------------
\* Config contexts.  A save sends what differs from the object fetched.

Save(p, ctx) ==
    /\ netbox' = IF ctx = seen[p].ctx THEN netbox
                 ELSE [netbox EXCEPT !.ctx[seen[p].dev] = ctx]
    /\ seen' = [seen EXCEPT ![p] = [NoDevice EXCEPT !.dev = seen[p].dev]]
    /\ Done(p)

\* populate_netbox: boundary and AS number, and nothing of what was there.
FreshBug(k, d) ==  \* a boundary for managed devices only
    [boundary |-> IF d \in k.managed THEN "managed" ELSE "none",
     facts |-> AsnFacts(k, d), observed |-> {}]
Fresh(k, d) == [boundary |-> Boundary(k, d), facts |-> AsnFacts(k, d), observed |-> {}]
Replace(p) == AtStep(p, "replace") /\ Save(p, Fresh(copy[p], seen[p].dev))

\* The other scripts merge into the context they have fetched: those two and
\* populate_cloud_aws.
Observes(k, d) == IF d \in k.wan THEN {} ELSE PortsOf(d, k.observed)
MergedBug(s, k, d, ctx) ==  \* netbox_enrich starts from an empty context
    CASE s = "contexts" ->
            [boundary |-> Boundary(k, d), facts |-> ctx.facts \cup FactsFor(k, d),
             observed |-> IF Observes(k, d) = {} THEN ctx.observed ELSE Observes(k, d)]
      [] s = "enrich" -> [NoContext EXCEPT !.facts = {"enriched"}]
      [] OTHER -> IF d = Vpn THEN [ctx EXCEPT !.boundary = "excluded"]
                  ELSE [ctx EXCEPT !.facts = @ \cup {"tunnels"}, !.observed = {Tunnel0}]
Merged(s, k, d, ctx) ==
    CASE s = "contexts" ->
            [boundary |-> Boundary(k, d), facts |-> ctx.facts \cup FactsFor(k, d),
             observed |-> IF Observes(k, d) = {} THEN ctx.observed ELSE Observes(k, d)]
      [] s = "enrich" -> [ctx EXCEPT !.facts = @ \cup {"enriched"}]
      [] OTHER -> IF d = Vpn THEN [ctx EXCEPT !.boundary = "excluded"]
                  ELSE [ctx EXCEPT !.facts = @ \cup {"tunnels"}, !.observed = {Tunnel0}]
Merge(p) ==
    AtStep(p, "merge") /\ Save(p, Merged(script[p], copy[p], seen[p].dev, seen[p].ctx))

-----------------------------------------------------------------------------
\* netbox_enrich removes the interfaces its spec does not know.

Orphans(p) == \E d \in Devices :
    /\ AtStep(p, "orphans") /\ seen[p].dev = d
    /\ Continue(p, Each("free", PortsOf(d, netbox.ports) \ (copy[p].ports \cup {EnrichPort(d)})))
    /\ UNCHANGED <<netbox, spec, copy, seen, clean>>

AddressesOn(i) == {a \in Addresses : netbox.at[a] = i}
\* An address a session uses cannot be deleted.
InUse(i) == \E l \in netbox.sessions : AddressesOn(i) \cap l # {}
Freed(i) ==
    [netbox EXCEPT !.at = [a \in Addresses |-> IF @[a] = i THEN None ELSE @[a]],
        !.primary = [d \in Devices |-> IF @[d] \in AddressesOn(i) THEN None ELSE @[d]]]

\* The addresses of an orphan first, then the interface itself.
Free(p) == AtStep(p, "free") /\ \E i \in Ports :
    /\ Doing(p, "free", i) /\ ~InUse(i)
    /\ netbox' = Freed(i)
    /\ Continue(p, <<Step("drop", i)>>)
    /\ UNCHANGED <<spec, copy, seen, clean>>
Drop(p) == AtStep(p, "drop") /\ \E i \in Ports :
    /\ Doing(p, "drop", i) /\ ~InUse(i)
    /\ Put(p, [Freed(i) EXCEPT !.ports = @ \ {i}, !.cables = {c \in @ : i \notin c}])

-----------------------------------------------------------------------------
\* Organisation, racks, AS numbers and BGP sessions.

Has(o) == o \in netbox.objects
Made(o) == [netbox EXCEPT !.objects = @ \cup {o}]

Make(p, o) == Doing(p, "make", o) /\ Put(p, Made(o))
\* Manufacturers, device types, roles, platforms and sites.
Catalogue(p) == Make(p, "catalogue")
\* Tenants, regions, site groups.
Tenancy(p) == Make(p, "tenancy")
\* The registry, the AS numbers and the VRFs.
AsnRegistry(p) == Make(p, "asns")
\* The site, the type and the role of the AWS gateway.
CloudSite(p) == Make(p, "cloud")
\* VLANs, circuits and contacts: the VLAN groups belong to sites, which
\* populate_netbox creates.
Vlans(p) == AtStep(p, "vlans") /\ Has("catalogue") /\ Put(p, Made("vlans"))

\* A device that is not in NetBox gets no place and no tag.
Labelled(d, label) ==
    IF d \in netbox.devices THEN [netbox EXCEPT !.labels = @ \cup {<<label, d>>}] ELSE netbox
Rack(p) == \E d \in Placed : Doing(p, "rack", d) /\ Put(p, Labelled(d, "rack"))
Tag(p) == \E d \in Placed : Doing(p, "tag", d) /\ Put(p, Labelled(d, "tag"))

\* netbox_bgp_populate: an AS number needs the registry of the enterprise
\* script, and a spec without WAN section raises.
Asns(p) == AtStep(p, "asns") /\ Has("asns") /\ Put(p, netbox)
Speaks(k, d) == AsnFacts(k, d) # {}
Underlay(k) == {l \in k.links : l \subseteq k.addressed /\ \A i \in l : Speaks(k, i[1])}
\* Only in its own section is a WAN device looked for.
OverlayOf(k) ==
    {l \in Overlay : \A i \in l : i[1] \in (IF i[1] \in Wan THEN k.wan ELSE k.devices)}
Peerings(k) == Underlay(k) \cup OverlayOf(k)
\* So does a spec without a site of a fabric, or with no loopback for an end.
Peers(p) ==
    LET k == copy[p]
    IN  /\ AtStep(p, "peers")
        /\ k.wan # {} /\ \A F \in Fabrics : F \cap (k.devices \ k.wan) # {}
        /\ \A l \in OverlayOf(k) : l \subseteq k.addressed
        /\ Continue(p, Each("session", Peerings(k)))
        /\ UNCHANGED <<netbox, spec, copy, seen, clean>>
\* A new session needs the AS numbers of both ends, and both addresses.
Session(p) == AtStep(p, "session") /\ \E l \in Sessions :
    /\ Doing(p, "session", l)
    /\ \A i \in l : Exists(i)
    /\ l \in netbox.sessions \/ \A i \in l : Speaks(copy[p], i[1])
    /\ Put(p, [netbox EXCEPT !.sessions = @ \cup {l}])

-----------------------------------------------------------------------------
\* netbox_to_spec reads NetBox with a call for each kind of object.

Read(p, op, k) ==
    /\ AtStep(p, op)
    /\ copy' = [copy EXCEPT ![p] = k]
    /\ Continue(p, <<>>)
    /\ UNCHANGED <<netbox, spec, seen, clean>>

InventoryBug(nb) ==  \* managed unless excluded
    [devices |-> nb.devices,
     wan |-> {d \in nb.devices \cap Wan : nb.ctx[d].boundary = "excluded"},
     managed |-> {d \in nb.devices : nb.ctx[d].boundary # "excluded"},
     observed |-> UNION {nb.ctx[d].observed : d \in nb.devices},
     facts |-> Facts \cap UNION {nb.ctx[d].facts : d \in nb.devices},
     ports |-> {}, addressed |-> {}, links |-> {}]
InventoryManagedBug(nb) ==  \* contexts are read of managed devices only
    LET managed == {d \in nb.devices : nb.ctx[d].boundary = "managed"}
    IN  [devices |-> nb.devices,
         wan |-> {d \in nb.devices \cap Wan : nb.ctx[d].boundary = "excluded"},
         managed |-> managed,
         observed |-> UNION {nb.ctx[d].observed : d \in managed},
         facts |-> Facts \cap UNION {nb.ctx[d].facts : d \in managed},
         ports |-> {}, addressed |-> {}, links |-> {}]
\* A device is managed, and a WAN device is one, only where NetBox says so.
Inventory(nb) ==
    [devices |-> nb.devices,
     wan |-> {d \in nb.devices \cap Wan : nb.ctx[d].boundary = "excluded"},
     managed |-> {d \in nb.devices : nb.ctx[d].boundary = "managed"},
     observed |-> UNION {nb.ctx[d].observed : d \in nb.devices},
     facts |-> Facts \cap UNION {nb.ctx[d].facts : d \in nb.devices},
     ports |-> {}, addressed |-> {}, links |-> {}]
ReadDevices(p) == Read(p, "devices", Inventory(netbox))
ReadInterfaces(p) ==
    LET k == copy[p]
    IN  Read(p, "interfaces", [k EXCEPT !.ports = {i \in netbox.ports : i[1] \in k.devices}])
ReadAddresses(p) ==
    LET k == copy[p]
    IN  Read(p, "addresses", [k EXCEPT !.addressed = {i \in k.ports : AddressesOn(i) # {}}])
\* An interface without address and peer is left out.
ReadCables(p) ==
    LET k == copy[p]
        peers == k.ports \cap UNION netbox.cables
    IN  Read(p, "cables", [k EXCEPT !.ports = k.addressed \cup peers,
                                    !.links = {c \in netbox.cables : c \cap peers # {}}])
\* Only a spec without any device is refused.
Write(p) ==
    /\ AtStep(p, "write") /\ copy[p].devices # {}
    /\ spec' = copy[p]
    /\ Continue(p, <<>>)
    /\ UNCHANGED <<netbox, copy, seen, clean>>

-----------------------------------------------------------------------------
Call(p) ==
    \/ Create(p) \/ Fetch(p) \/ Find(p) \/ Port(p) \/ Address(p) \/ Attach(p)
    \/ Primary(p) \/ Cable(p) \/ Replace(p) \/ Merge(p)
    \/ Orphans(p) \/ Free(p) \/ Drop(p)
    \/ Catalogue(p) \/ Tenancy(p) \/ AsnRegistry(p) \/ CloudSite(p) \/ Vlans(p)
    \/ Rack(p) \/ Tag(p) \/ Asns(p) \/ Peers(p) \/ Session(p)
    \/ ReadDevices(p) \/ ReadInterfaces(p) \/ ReadAddresses(p) \/ ReadCables(p) \/ Write(p)

Next == \E p \in Operators :
    \/ \E s \in Scripts : Start(p, s)
    \/ Call(p) \/ PassOver(p) \/ Stop(p)

Spec == Init /\ [][Next]_vars

-----------------------------------------------------------------------------
SpecType ==
    [devices : SUBSET Devices, wan : SUBSET Wan, managed : SUBSET Devices,
     observed : SUBSET Ports, facts : SUBSET Facts,
     ports : SUBSET Ports, addressed : SUBSET Ports, links : SUBSET (Links \cup {Tunnel})]
ContextType ==
    [boundary : {"none", "managed", "excluded"},
     facts : SUBSET (Facts \cup {"enriched", "tunnels"}), observed : SUBSET Ports]
TypeOK ==
    /\ netbox.devices \subseteq Devices /\ netbox.ports \subseteq Ports
    /\ netbox.cables \subseteq Links \cup {Tunnel} /\ netbox.sessions \subseteq Sessions
    /\ netbox.at \in [Addresses -> Ports \cup {None}]
    /\ netbox.primary \in [Devices -> Addresses \cup {None}]
    /\ netbox.ctx \in [Devices -> ContextType]
    /\ spec \in SpecType
    /\ script \in [Operators -> Scripts \cup {"none"}]
    /\ copy \in [Operators -> SpecType]
    /\ \A p \in Operators : seen[p].dev \in Devices \cup {None} /\ seen[p].ctx \in ContextType
    /\ runs \in 0..MaxRuns
    /\ alone \subseteq Operators /\ clean \subseteq Operators

-----------------------------------------------------------------------------
\* The agent may touch what the spec lists as managed.  Whatever scripts run,
\* fail, overlap and read half-done work of one another: no device outside
\* Managed becomes managed, in NetBox or in any spec (populate_netbox.py:
\* 307-324, populate_netbox_contexts.py:84-87, netbox_to_spec.py:361-370).
BoundaryHolds ==
    /\ spec.managed \subseteq Managed
    /\ \A d \in Devices : netbox.ctx[d].boundary = "managed" => d \in Managed
    /\ \A p \in Operators : copy[p].managed \subseteq Managed

\* A script that comes to its end with no other beside it, and has passed over
\* no failure, has made NetBox what its spec asks for - whatever earlier
\* scripts, half-done ones too, had left there.
Ended(p, s) == script[p] = s /\ todo[p] = <<>> /\ p \in alone \cap clean

Stocked(nb, k) ==
    /\ k.devices \ {Vpn} \subseteq nb.devices
    /\ \A i \in k.ports : i[1] # Vpn => i \in nb.ports
    /\ \A i \in k.addressed : i[1] # Vpn => nb.at[AddressOf(i)] # None
    /\ \A l \in k.links : l \subseteq nb.ports => l \in nb.cables
Bounded(nb, k, d) ==
    nb.ctx[d].boundary = Boundary(k, d) /\ AsnFacts(k, d) \subseteq nb.ctx[d].facts
Informed(nb, k, d) ==
    /\ Bounded(nb, k, d) /\ FactsFor(k, d) \subseteq nb.ctx[d].facts
    /\ Observes(k, d) \subseteq nb.ctx[d].observed

\* populate_netbox and populate_netbox_contexts (their docstrings, lines 1-6).
InventoryRealised == \A p \in Operators :
    LET k == copy[p]
    IN  /\ Ended(p, "populate") =>
            Stocked(netbox, k) /\ \A d \in k.devices \ {Vpn} : Bounded(netbox, k, d)
        /\ Ended(p, "contexts") =>
            \A d \in k.devices \cap netbox.devices : Informed(netbox, k, d)

\* sync_netbox_mgmt_ips and netbox_enrich: the management address of every
\* device is on the interface this script uses, and is the primary one; and
\* netbox_enrich leaves no interface its spec does not know.
Reached(d, i) == netbox.at[Mgmt(d)] = i /\ netbox.primary[d] = Mgmt(d)
ManagementRealised == \A p \in Operators :
    /\ Ended(p, "sync") => \A d \in Lab \cap netbox.devices : Reached(d, SyncPort(d))
    /\ Ended(p, "enrich") => \A d \in copy[p].devices \cap netbox.devices :
            /\ d \in Lab => Reached(d, EnrichPort(d))
            /\ PortsOf(d, netbox.ports) \subseteq copy[p].ports \cup {EnrichPort(d)}
            /\ "enriched" \in netbox.ctx[d].facts

\* populate_cloud_aws, populate_netbox_enterprise and netbox_bgp_populate: the
\* tunnel, tenancy and labels, and a session for each link with an address
\* and an AS number at both ends and for each pair of the overlay.
ServicesRealised == \A p \in Operators :
    /\ Ended(p, "seed") =>
            /\ Tunnel \in netbox.cables /\ Tunnel0 \in netbox.ctx[Ce].observed
            /\ netbox.ctx[Vpn].boundary = "excluded"
    /\ Ended(p, "enterprise") =>
            /\ {"tenancy", "asns", "vlans"} \subseteq netbox.objects
            /\ {"rack", "tag"} \X (Placed \cap netbox.devices) \subseteq netbox.labels
    /\ Ended(p, "bgp") => Peerings(copy[p]) \subseteq netbox.sessions

\* The circle closes: the generator, with no script beside it, makes of a
\* NetBox that carries the lab a spec with the same devices managed and in the
\* WAN section, and with all devices, observed interfaces, AS numbers,
\* thresholds and rules, interfaces, addresses and links of the lab - also
\* when management interfaces, tunnel and sessions have been added to NetBox
\* since (netbox_to_spec.py:42-413).
Carries(nb) ==
    /\ Lab \subseteq nb.devices /\ DataPorts \subseteq nb.ports /\ Links \subseteq nb.cables
    /\ \A i \in DataPorts : nb.at[i] = i
    /\ \A d \in Lab : Informed(nb, LabSpec, d)
Complete(k) ==
    /\ k.managed = LabSpec.managed /\ k.wan = LabSpec.wan
    /\ \A f \in {"devices", "observed", "facts", "ports", "addressed", "links"} :
            LabSpec[f] \subseteq k[f]
CircleCloses == \A p \in Operators :
    (Ended(p, "generate") /\ Carries(netbox)) => Complete(spec)

\* No script that runs alone is refused a call for what earlier ones, half-done
\* ones too, have left or taken away: an interface is there before an address
\* or the tunnel is put on it, an address before it becomes primary, and
\* netbox_enrich deletes no address a session uses unless its own spec lacks
\* the interface (populate_netbox.py:239-305, populate_cloud_aws.py:157-201,
\* sync_netbox_mgmt_ips.py:45-91, netbox_enrich.py:91-198).
NothingMissing == \A p \in alone :
    /\ \A i \in Ports : Doing(p, "address", i) \/ Doing(p, "attach", i) => i \in netbox.ports
    /\ AtStep(p, "primary") => Exists(Mgmt(seen[p].dev))
    /\ script[p] = "seed" /\ AtStep(p, "cable") => Tunnel \subseteq netbox.ports
    /\ Complete(copy[p]) =>
        \A i \in Ports : Doing(p, "free", i) \/ Doing(p, "drop", i) => ~InUse(i)

\* What NetBox holds of the lab is lost only to populate_netbox, to a script
\* with another beside it, or to one whose spec lacks it: the merges, the
\* management scripts and the orphan cleanup leave the lab alone.
Runs(s) == \E p \in Operators : script[p] = s
NothingUndone ==
    [][(netbox' # netbox /\ Carries(netbox) /\ ~Carries(netbox'))
            => \E p \in Operators :
                    /\ ~Idle(p)
                    /\ AtStep(p, "replace") \/ p \notin alone \/ ~Complete(copy[p])]_vars

\* A device keeps its primary address, through every script that runs alone:
\* netbox_enrich moves the address before it deletes the interface it was on
\* (netbox_enrich.py:111-148 before 176-198).
PrimaryKept ==
    [][netbox'.primary # netbox.primary /\ alone # {} => \A d \in Devices :
            netbox.primary[d] # None => netbox'.primary[d] # None]_vars
=============================================================================
