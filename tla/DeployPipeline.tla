--------------------------- MODULE DeployPipeline ---------------------------
(***************************************************************************)
(* From NetBox to the devices: `make deploy`, `make deploy-safe`,          *)
(* `make validate-batfish` and the workflow deploy.yml, with or without    *)
(* its bypass.  A pipeline is a list of jobs, a job a list of steps; each  *)
(* step is a process that reads what the one before has left in files.     *)
(*                                                                         *)
(* Of a spec or a configuration only its version is kept: the version of   *)
(* NetBox's content it was made from.  The make recipes of one user share  *)
(* a working tree and a Batfish server; each job of a workflow has a fresh *)
(* checkout and a server of its own.  All push to the same devices.        *)
(***************************************************************************)
EXTENDS Naturals, FiniteSets, Sequences

CONSTANTS
    Devices,     \* numbers, in the order in which the steps go through them
    Inventory,   \* Inventory[v]: the devices in version v of NetBox
    Compatible,  \* versions whose configurations Batfish finds no fault with
    Pipelines,
    Targets,     \* --target: the sets of devices a workflow may be given
    MaxEdits,    \* bound on changes of NetBox
    Local,       \* the tree of the make recipes
    Garbled,     \* neither one version nor another
    NoVersion

Versions == 0..MaxEdits

ASSUME PipelineAssumption ==
    /\ MaxEdits \in Nat
    /\ Inventory \in [Versions -> SUBSET Devices]
    /\ Devices \subseteq Nat
    /\ Compatible \subseteq Versions
    /\ Targets \subseteq SUBSET Devices
    /\ Local \notin Pipelines
    /\ Garbled \notin Versions /\ NoVersion \notin Versions \cup {Garbled}

MakeRecipes == {"deploy", "deploy_safe", "validate_batfish"}
Workflows == {"workflow", "bypass"}

\* The jobs of a recipe, and the steps of a job.
Plan(r) == IF r \in Workflows THEN <<"ci", "batfish_gate", "deploy_job">> ELSE <<r>>

StepsBug ==  \* the gate before the configurations are generated anew
    [deploy |-> <<"generate", "render", "testbed", "push", "reachability">>,
     deploy_safe |->
        <<"build_snapshot", "validate", "generate", "render", "push",
          "reachability", "agent">>,
     validate_batfish |-> <<"build_snapshot", "validate">>,
     ci |-> <<"tests">>,
     batfish_gate |-> <<"checkout", "validate">>,
     deploy_job |->
        <<"checkout", "generate", "render", "push", "reachability", "agent">>]

Steps ==
    [deploy |-> <<"generate", "render", "testbed", "push", "reachability">>,
     deploy_safe |->
        <<"generate", "render", "build_snapshot", "validate", "push",
          "reachability", "agent">>,
     validate_batfish |-> <<"build_snapshot", "validate">>,
     ci |-> <<"tests">>,
     batfish_gate |-> <<"checkout", "validate">>,
     deploy_job |->
        <<"checkout", "generate", "render", "push", "reachability", "agent">>]

Jobs == DOMAIN Steps

VARIABLES
    netbox,   \* version of NetBox's content
    live,     \* the version each device was given last
    spec,     \* lab_spec.yaml of each tree: its version, and is it whole?
    files,    \* configs/generated of each tree: the version of each device's file
    snap,     \* batfish/snapshot of each tree: is it there, and its files
    server,   \* the snapshot "validation" on each tree's Batfish server
    recipe,   \* what each pipeline is
    target,   \* the devices it is for
    job,      \* the place of its current or next job in the plan
    outcome,  \* of its jobs: "none", "success", "failure", "skipped"
    steps,    \* the steps the current job has still to do
    at,       \* how far it is in the first of these
    hand,     \* the version of the spec the step has read, and its devices
    todo,     \* devices the step has still to deal with
    read,     \* version its spec was generated from
    judged,   \* files its gate has judged, and did they pass?
    pushed,   \* devices and versions it has pushed
    loss,     \* packets its reachability test has seen lost
    met       \* pipelines that were under way at the same time

treeVars == <<spec, files, snap, server>>
runVars == <<job, outcome, steps, at, hand, todo>>
ledgerVars == <<read, judged, pushed, loss>>
fixedVars == <<recipe, target>>
vars == <<netbox, live, treeVars, runVars, ledgerVars, fixedVars, met>>

Trees == Pipelines \cup {Local}
Tree(p) == IF recipe[p] \in Workflows THEN p ELSE Local

Nothing == [d \in Devices |-> NoVersion]
NoSpec == [version |-> NoVersion, devices |-> {}]
Committed == [d \in Devices |-> IF d \in Inventory[0] THEN 0 ELSE NoVersion]

\* The next device of T.
Least(T) == {d \in T : \A e \in T : d <= e}

Present(f) == {d \in Devices : f[d] # NoVersion}

Running(p) == steps[p] # <<>>
At(p, s, x) == Running(p) /\ Head(steps[p]) = s /\ at[p] = x

\* Has p come to its end?  The last job says how.
Over(p) == job[p] > Len(Plan(recipe[p]))
Job(p) == Plan(recipe[p])[job[p]]
UnderWay(p) == ~Over(p) /\ (Running(p) \/ job[p] > 1)
Green(p) == Over(p) /\ outcome[p][Plan(recipe[p])[job[p] - 1]] = "success"

Init ==
    /\ netbox = 0
    /\ live = [d \in Devices |-> 0]
    /\ spec = [t \in Trees |-> [version |-> 0, whole |-> TRUE]]
    /\ files = [t \in Trees |-> Committed]
    /\ snap = [t \in Trees |-> [there |-> FALSE, files |-> Nothing]]
    /\ server = [t \in Trees |-> Nothing]
    /\ recipe \in [Pipelines -> MakeRecipes \cup Workflows]
    /\ target \in [Pipelines -> Targets \cup {Devices}]
    /\ \A p \in Pipelines : recipe[p] \in MakeRecipes => target[p] = Devices
    /\ job = [p \in Pipelines |-> 1]
    /\ outcome = [p \in Pipelines |-> [j \in Jobs |-> "none"]]
    /\ steps = [p \in Pipelines |-> <<>>]
    /\ at = [p \in Pipelines |-> "start"]
    /\ hand = [p \in Pipelines |-> NoSpec]
    /\ todo = [p \in Pipelines |-> {}]
    /\ read = [p \in Pipelines |-> NoVersion]
    /\ judged = [p \in Pipelines |-> [files |-> Nothing, passed |-> FALSE]]
    /\ pushed = [p \in Pipelines |-> {}]
    /\ loss = [p \in Pipelines |-> 0]
    /\ met = [p \in Pipelines |-> {}]

-----------------------------------------------------------------------------
(* Jobs.                                                                   *)

MayStartBug(p, j) ==  \* without needs.ci.result == 'success'
    /\ j = "batfish_gate" => outcome[p].ci = "success" /\ recipe[p] # "bypass"
    /\ j = "deploy_job" => outcome[p].batfish_gate \in {"success", "skipped"}

\* `needs` and `if` of a job.
MayStart(p, j) ==
    /\ j = "batfish_gate" => outcome[p].ci = "success" /\ recipe[p] # "bypass"
    /\ j = "deploy_job" =>
          outcome[p].ci = "success" /\ outcome[p].batfish_gate \in {"success", "skipped"}

StartJob(p) ==
    /\ ~Running(p) /\ ~Over(p)
    /\ MayStart(p, Job(p))
    /\ steps' = [steps EXCEPT ![p] = Steps[Job(p)]]
    /\ LET others == {q \in Pipelines \ {p} : UnderWay(q)} IN
          met' = [q \in Pipelines |->
                    IF q = p THEN met[q] \cup others
                    ELSE IF q \in others THEN met[q] \cup {p} ELSE met[q]]
    /\ UNCHANGED <<netbox, live, treeVars, job, outcome, at, hand, todo, ledgerVars, fixedVars>>

\* The current job of p has an outcome.
Ends(p, o) ==
    /\ outcome' = [outcome EXCEPT ![p][Job(p)] = o]
    /\ job' = [job EXCEPT ![p] = @ + 1]

SkipJob(p) ==
    /\ ~Running(p) /\ ~Over(p)
    /\ ~MayStart(p, Job(p))
    /\ Ends(p, "skipped")
    /\ UNCHANGED <<netbox, live, treeVars, steps, at, hand, todo, ledgerVars, fixedVars, met>>

\* The step of p goes on at x, with spec h in hand and devices T to do.
Continue(p, x, h, T) ==
    /\ at' = [at EXCEPT ![p] = x]
    /\ hand' = [hand EXCEPT ![p] = h]
    /\ todo' = [todo EXCEPT ![p] = T]
    /\ UNCHANGED <<job, outcome, steps>>

\* Between two steps nothing is kept in memory.
Forget(p) ==
    /\ at' = [at EXCEPT ![p] = "start"]
    /\ hand' = [hand EXCEPT ![p] = NoSpec]
    /\ todo' = [todo EXCEPT ![p] = {}]

\* It exits with status 0; after the last step the job has succeeded.
Succeeds(p) ==
    /\ steps' = [steps EXCEPT ![p] = Tail(@)]
    /\ IF Len(steps[p]) = 1 THEN Ends(p, "success") ELSE UNCHANGED <<job, outcome>>
    /\ Forget(p)

FailsBug(p) ==  \* the steps after it are run all the same
    /\ steps' = [steps EXCEPT ![p] = Tail(@)]
    /\ Ends(p, "failure")
    /\ Forget(p)

\* It exits with another status, and so does the job.
Fails(p) ==
    /\ steps' = [steps EXCEPT ![p] = <<>>]
    /\ Ends(p, "failure")
    /\ Forget(p)

\* At any point, with what has been written so far: an exception, a missing
\* or unreadable spec, NetBox or Batfish out of reach, no template, a device
\* not pushed to, an unreachable host, a failed check, Ctrl-C.
StepFails(p) ==
    /\ Running(p)
    /\ Fails(p)
    /\ UNCHANGED <<netbox, live, treeVars, ledgerVars, fixedVars, met>>

-----------------------------------------------------------------------------
(* The steps.                                                              *)

Checkout(p) ==
    /\ At(p, "checkout", "start")
    /\ spec' = [spec EXCEPT ![Tree(p)] = [version |-> 0, whole |-> TRUE]]
    /\ files' = [files EXCEPT ![Tree(p)] = Committed]
    /\ snap' = [snap EXCEPT ![Tree(p)] = [there |-> FALSE, files |-> Nothing]]
    /\ server' = [server EXCEPT ![Tree(p)] = Nothing]
    /\ Succeeds(p)
    /\ UNCHANGED <<netbox, live, ledgerVars, fixedVars, met>>

\* netbox_to_spec: read NetBox, which must have devices; truncate the file;
\* write it.
ReadNetBox(p) ==
    /\ At(p, "generate", "start")
    /\ Inventory[netbox] # {}
    /\ Continue(p, "open", [version |-> netbox, devices |-> Inventory[netbox]], {})
    /\ read' = [read EXCEPT ![p] = netbox]
    /\ UNCHANGED <<netbox, live, treeVars, judged, pushed, loss, fixedVars, met>>

OpenSpec(p) ==
    /\ At(p, "generate", "open")
    /\ spec' = [spec EXCEPT ![Tree(p)] = [version |-> hand[p].version, whole |-> FALSE]]
    /\ Continue(p, "dump", hand[p], {})
    /\ UNCHANGED <<netbox, live, files, snap, server, ledgerVars, fixedVars, met>>

DumpSpec(p) ==
    /\ At(p, "generate", "dump")
    /\ spec' = [spec EXCEPT ![Tree(p)] = [version |-> hand[p].version, whole |-> TRUE]]
    /\ Succeeds(p)
    /\ UNCHANGED <<netbox, live, files, snap, server, ledgerVars, fixedVars, met>>

\* What yaml.safe_load makes of the spec: of half a file, the first of its
\* devices, if any, with their neighbours missing.
SpecRead(p) ==
    LET s == spec[Tree(p)]
        I == Inventory[s.version] IN
    IF s.whole THEN {[version |-> s.version, devices |-> I]}
    ELSE {[version |-> Garbled, devices |-> {e \in I : e < d}] : d \in Devices}

\* Every other step begins by reading the spec.
ReadSpec(p) ==
    /\ \E h \in SpecRead(p) :
          \/ At(p, "render", "start") /\ Continue(p, "write", h, h.devices)
          \/ /\ At(p, "build_snapshot", "start") \/ At(p, "validate", "start")
             /\ Continue(p, "clear", h, {})
          \/ At(p, "push", "start") /\ Continue(p, "send", h, h.devices \cap target[p])
          \/ At(p, "reachability", "start") /\ Continue(p, "ping", h, {})
          \/ At(p, "testbed", "start") /\ Continue(p, "check", h, {})
    /\ UNCHANGED <<netbox, live, treeVars, ledgerVars, fixedVars, met>>

\* render_all_configs: a file for each device of the spec.  The files of
\* devices that are gone stay.
RenderFile(p) ==
    /\ At(p, "render", "write")
    /\ \E d \in Least(todo[p]) :
          /\ files' = [files EXCEPT ![Tree(p)][d] = hand[p].version]
          /\ Continue(p, "write", hand[p], todo[p] \ {d})
    /\ UNCHANGED <<netbox, live, spec, snap, server, ledgerVars, fixedVars, met>>

Rendered(p) ==
    /\ At(p, "render", "write") /\ todo[p] = {}
    /\ Succeeds(p)
    /\ UNCHANGED <<netbox, live, treeVars, ledgerVars, fixedVars, met>>

\* build_snapshot: remove the directory, make it, copy the files that are
\* there, write the topology.
Building(p, x) == At(p, "build_snapshot", x) \/ At(p, "validate", x)

ClearSnapshot(p) ==
    /\ Building(p, "clear")
    /\ snap' = [snap EXCEPT ![Tree(p)] = [there |-> FALSE, files |-> Nothing]]
    /\ Continue(p, "mkdir", hand[p], {})
    /\ UNCHANGED <<netbox, live, spec, files, server, ledgerVars, fixedVars, met>>

MakeSnapshot(p) ==
    /\ Building(p, "mkdir")
    /\ snap' = [snap EXCEPT ![Tree(p)].there = TRUE]
    /\ Continue(p, "copy", hand[p], Present(files[Tree(p)]))
    /\ UNCHANGED <<netbox, live, spec, files, server, ledgerVars, fixedVars, met>>

CopyFile(p) ==
    /\ Building(p, "copy")
    /\ snap[Tree(p)].there
    /\ \E d \in Least(todo[p]) :
          /\ snap' = [snap EXCEPT ![Tree(p)].files[d] = files[Tree(p)][d]]
          /\ Continue(p, "copy", hand[p], todo[p] \ {d})
    /\ UNCHANGED <<netbox, live, spec, files, server, ledgerVars, fixedVars, met>>

\* The directory must still be there when the topology is written.
SnapshotBuilt(p) ==
    /\ Building(p, "copy") /\ todo[p] = {}
    /\ snap[Tree(p)].there
    /\ IF At(p, "validate", "copy") THEN Continue(p, "upload", hand[p], {}) ELSE Succeeds(p)
    /\ UNCHANGED <<netbox, live, treeVars, ledgerVars, fixedVars, met>>

\* init_batfish: one network, one name of a snapshot, overwrite=True.
Upload(p) ==
    /\ At(p, "validate", "upload")
    /\ snap[Tree(p)].there
    /\ server' = [server EXCEPT ![Tree(p)] = snap[Tree(p)].files]
    /\ Continue(p, "query", hand[p], {})
    /\ UNCHANGED <<netbox, live, spec, files, snap, ledgerVars, fixedVars, met>>

\* Are the BGP sessions of these files compatible?  Of files of several
\* versions nobody knows.
Verdicts(f) ==
    LET V == {f[d] : d \in Present(f)} IN
    IF V \subseteq {Garbled} \/ Cardinality(V) > 1 THEN BOOLEAN ELSE {V \subseteq Compatible}

\* Only --strict, which the workflow gives and the Makefile does not, makes
\* critical issues an exit status.
Strict(p) == recipe[p] \in Workflows

Query(p) ==
    /\ At(p, "validate", "query")
    /\ \E v \in Verdicts(server[Tree(p)]) :
          /\ judged' = [judged EXCEPT ![p] = [files |-> server[Tree(p)], passed |-> v]]
          /\ IF Strict(p) /\ ~v THEN Fails(p) ELSE Succeeds(p)
    /\ UNCHANGED <<netbox, live, treeVars, read, pushed, loss, fixedVars, met>>

\* push_all_configs: every device, those after one that fails too.
PushDevice(p) ==
    /\ At(p, "push", "send") \/ At(p, "push", "send_on")
    /\ \E d \in Least(todo[p]) :
          LET v == files[Tree(p)][d] IN
          \/ /\ v # NoVersion
             /\ live' = [live EXCEPT ![d] = v]
             /\ pushed' = [pushed EXCEPT ![p] = @ \cup {<<d, v>>}]
             /\ Continue(p, at[p], hand[p], todo[p] \ {d})
          \/ /\ live' \in {live} \cup {[live EXCEPT ![d] = Garbled] : w \in {v} \ {NoVersion}}
             /\ Continue(p, "send_on", hand[p], todo[p] \ {d})
             /\ UNCHANGED pushed
    /\ UNCHANGED <<netbox, treeVars, read, judged, loss, fixedVars, met>>

PushedBug(p) ==  \* exit status of success although a device has failed
    /\ At(p, "push", "send") \/ At(p, "push", "send_on")
    /\ todo[p] = {}
    /\ Succeeds(p)
    /\ UNCHANGED <<netbox, live, treeVars, ledgerVars, fixedVars, met>>

\* Exit status 1 if any has failed, which is StepFails.
Pushed(p) ==
    /\ At(p, "push", "send") /\ todo[p] = {}
    /\ Succeeds(p)
    /\ UNCHANGED <<netbox, live, treeVars, ledgerVars, fixedVars, met>>

(***************************************************************************)
(* run_reachability pings with Count packets and looks for the text        *)
(* "0% packet loss" in the output, which is also the end of "100% packet   *)
(* loss".                                                                  *)
(***************************************************************************)
Count == 3
Percent(lost) == (100 * lost) \div Count
PingPasses(lost) == Percent(lost) % 10 = 0

Reachability(p) ==
    /\ At(p, "reachability", "ping")
    /\ \E lost \in 0..Count :
          /\ PingPasses(lost)
          /\ loss' = [loss EXCEPT ![p] = lost]
    /\ Succeeds(p)
    /\ UNCHANGED <<netbox, live, treeVars, read, judged, pushed, fixedVars, met>>

\* Steps that change none of the artefacts kept here: generate_testbed writes
\* agent/testbed.yaml, which no step of these pipelines reads.
Check(p) ==
    /\ At(p, "tests", "start") \/ At(p, "testbed", "check") \/ At(p, "agent", "start")
    /\ Succeeds(p)
    /\ UNCHANGED <<netbox, live, treeVars, ledgerVars, fixedVars, met>>

-----------------------------------------------------------------------------
\* Environment: somebody edits NetBox.
EditNetBox ==
    /\ netbox < MaxEdits
    /\ netbox' = netbox + 1
    /\ UNCHANGED <<live, treeVars, runVars, ledgerVars, fixedVars, met>>

Next ==
    \/ EditNetBox
    \/ \E p \in Pipelines :
          \/ StartJob(p) \/ SkipJob(p) \/ StepFails(p) \/ Checkout(p)
          \/ ReadNetBox(p) \/ OpenSpec(p) \/ DumpSpec(p) \/ ReadSpec(p)
          \/ RenderFile(p) \/ Rendered(p)
          \/ ClearSnapshot(p) \/ MakeSnapshot(p) \/ CopyFile(p) \/ SnapshotBuilt(p)
          \/ Upload(p) \/ Query(p) \/ PushDevice(p) \/ Pushed(p)
          \/ Reachability(p) \/ Check(p)

Spec == Init /\ [][Next]_vars

-----------------------------------------------------------------------------
(* Properties.                                                             *)

\* Types; besides, a step has nothing in hand before it has read the spec.
TypeOK ==
    /\ netbox \in Versions
    /\ live \in [Devices -> Versions \cup {Garbled}]
    /\ spec \in [Trees -> [version : Versions, whole : BOOLEAN]]
    /\ files \in [Trees -> [Devices -> Versions \cup {Garbled, NoVersion}]]
    /\ snap \in [Trees -> [there : BOOLEAN,
                           files : [Devices -> Versions \cup {Garbled, NoVersion}]]]
    /\ server \in [Trees -> [Devices -> Versions \cup {Garbled, NoVersion}]]
    /\ \A p \in Pipelines : job[p] \in 1..(Len(Plan(recipe[p])) + 1)
    /\ outcome \in [Pipelines -> [Jobs -> {"none", "success", "failure", "skipped"}]]
    /\ \A p \in Pipelines :
          /\ Running(p) => ~Over(p)
          /\ at[p] = "start" => hand[p] = NoSpec /\ todo[p] = {}
          /\ todo[p] \subseteq Devices
    /\ read \in [Pipelines -> Versions \cup {NoVersion}]
    /\ loss \in [Pipelines -> 0..Count]
    /\ met \in [Pipelines -> SUBSET Pipelines]

\* A pipeline that succeeds, with no other deploying meanwhile, has given
\* every device it is for, and that NetBox lists, the configuration of the
\* version of NetBox it has read: whatever pipelines that failed halfway or
\* were broken off before it have left in the tree and on the devices.
Deploys(r) == r # "validate_batfish"

GreenIsDeployed ==
    [][\A p \in Pipelines :
          /\ ~Green(p) /\ Green(p)'
          /\ Deploys(recipe[p])
          /\ \A q \in met[p] : ~Deploys(recipe[q])
          => \A d \in Inventory[read[p]] \cap target[p] : live'[d] = read[p]]_vars

\* deploy-safe pushes what its gate has looked at, when no other pipeline
\* works in the tree at the same time.
GateSawPushed ==
    \A p \in Pipelines :
        recipe[p] = "deploy_safe" /\ met[p] = {} =>
            \A x \in pushed[p] : judged[p].files[x[1]] = x[2]

\* The workflow touches no device unless its tests have passed, and unless
\* the gate has passed or was bypassed on purpose: a gate skipped for
\* another reason is no pass.  What the gate has passed is the checkout, not
\* what the last job generates and pushes.
PushedWasChecked ==
    \A p \in Pipelines :
        recipe[p] \in Workflows /\ pushed[p] # {} =>
            /\ outcome[p].ci = "success"
            /\ recipe[p] = "bypass" \/ judged[p].passed

\* "Exits non-zero if any path fails": no pipeline succeeds when no packet
\* has come through.
GreenIsReachable == \A p \in Pipelines : Green(p) => loss[p] = 0
=============================================================================
