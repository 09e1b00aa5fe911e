# Verification of the AI Infra Lab

TLA+ models of the programs in this repository that change state other
programs depend on: the MCP server, the configuration push, the chaos test, the
agent with its NetBox journal, the scripts that fill NetBox, the
troubleshooting scenarios and the deploy pipeline.  The models are written from
the Python source, checked with TLC on small instances, and the main safety
properties are proved with TLAPS for all values of the constants.  `PROJECT.json` maps every definition to its lines.

The laboratory has 21 network devices (Arista EOS, Cisco IOS-XE, FortiOS, Linux
hosts) in EVE-NG, described in NetBox.  A spec is generated from NetBox,
configurations are rendered from the spec, Batfish validates them,
`push_configs` sends them to the devices, an agent checks the devices and
reports to Telegram and NetBox, and a chaos test breaks devices to see whether
the agent notices.  An MCP server offers all of this as tools to several
clients at once.

## 1. Inventory

For every component: the state it keeps, its operations, whom it meets, what is
hard about it, what makes it correct.

**MCP server** (`mcp_server.py`).  State: one `asyncio.Lock` per device, one for
Batfish, one semaphore of `MAX_CONCURRENT_DEVICES`, all created lazily on one
event loop; the executor's queue and threads.  Operations: nine tools, each a
coroutine that takes a lock, a permit, or both, and hands blocking work to
`asyncio.to_thread`.  Meets: the agent's skills, the chaos test and Batfish, which it calls in
its threads.  Hard: two primitives acquired one after the other; FIFO
hand-over; cancellation, which releases what a call holds while its thread
goes on; a bounded executor below a bounded semaphore.  Correct if: two locked
tools never have sessions to one device, sessions are capped, Batfish work is
serialised, nothing is held by a call that is gone, every call returns.

**Configuration push** (`scripts/push_configs.py`).  State: none of its own; the
running and startup configuration of the device.  Operations: connect, send
lines, save, verify, report True or False; `push_all_configs` does it for all
devices.  Meets: deploys, rollbacks and operators pushing to the same device,
with no coordination whatever.  Hard: a push is a merge and not atomic; devices
restart half-way; refused lines; FortiOS is written to without waiting for
answers.  Correct if: a push that returns True leaves the device without the
faults the file can take back.

**Chaos test** (`scripts/chaos_test.py`).  State: the selected fault, a result
record, a SIGALRM handler.  Operations: select, inject, run the agent, verify
detection, roll back in a `finally`.  Meets: the push, the agent's skills, the
MCP server, which runs it in a worker thread.  Hard: an asynchronous exception
raised by a signal handler; signals outside the main thread; exceptions and
Ctrl-C anywhere, the `finally` block included; two cycles on one device.
Correct if: every fault injected is either gone or known to be there, and the
rollback is attempted or its failure to begin reaches the caller.

**Agent runner and Telegram notifier** (`agent/runner.py`,
`agent/telegram_notifier.py`).  State: result counts per skill, `_last_alert`
time stamps per process, the schedule.  Operations: three skills that visit the
managed devices, alerts, summaries, `--schedule`.  Meets: NetBox reconciler,
MCP server (skills as tools, in threads that share `_last_alert`).  Hard: one
`except` around check, count and notifier; a cooldown stamped before the message
is sent; exceptions that escape into the schedule loop.  Correct if: no failure
is missing from the counts, alerts come a cooldown apart, a lasting fault is
known to the operator in the end.

**NetBox reconciler** (`agent/netbox_reconciler.py`).  State: journal entries in
NetBox, a process-wide failure counter.  Operations: read the journal, drop
duplicates of the last hour, create an entry; count consecutive failures.  Hard:
read, check and create are three steps of possibly several processes; lost
responses; a failed read counts as an empty journal; the counter's threshold is
tested for equality by several threads.  Correct if: no drift is journalled
twice within the hour and an outage is escalated.

**Batfish snapshot and validation** (`batfish/`).  State: one snapshot directory,
deleted and rebuilt by every validation.  Hard: the server's lock covers one
process, command line and server share the directory.  Correct if: a verdict is
about the configurations it names.

**Deploy pipeline** (`Makefile`, `.github/workflows/`).  State: spec, rendered
files, verdicts of gates.  Hard: what is validated is not what is pushed;
exit codes that do not say what was found; a bypass that must be told from a
failure.  Correct if: nothing is pushed that the gate has not passed, unless
bypassed on purpose.

**Troubleshooting** (`troubleshooting/`).  State: 13 scenarios, faults on the
devices.  Operations: inject, status, fix, restore.  Hard: one scenario spans
two devices; `restore` merges and knows the primary device only.  Correct if: a
restore that prints OK leaves no fault of the scenario.

**Spec generation and rendering** (`generator/`).  Pure functions over NetBox
records and files written in place.  Correct if: every managed device is in the
spec once, with its peers symmetric, and a reader never sees half a file.

**EVE-NG client and topology** (`scripts/eve_client.py`,
`scripts/create_topology.py`).  State: nodes, networks and links in EVE-NG.
Hard: retries of calls that are not idempotent, a run that fails half-way.

**NetBox population and synchronisation** (`scripts/populate_*.py`,
`scripts/netbox_enrich.py`, `scripts/netbox_bgp_populate.py`,
`scripts/sync_netbox_mgmt_ips.py`).  State: NetBox itself; each script holds the
spec it has read and the device object it has fetched.  Operations: get or
create, attach and move addresses, replace or merge config contexts, delete
orphan interfaces.  Meets: the generator, which reads what they write and writes
what they read; each other.  Hard: a script may stop at any of its calls and is
run again; half of the failures are passed over; two scripts disagree about the
name of the management interface; stale objects are saved.  Correct if: a script
that comes to its end has made NetBox what the spec asks for, whatever earlier
ones left there; what the scripts put into NetBox of a spec the generator puts
into the next one; no device becomes managed that is not.

**Skill parsers, automation, operations scripts, laboratory tools.**  Text
parsing, a Nornir inventory, shell around docker and systemd, diagnosis; no
state of their own that outlives a call.

`PROJECT.json` lists the hazards of all components with the properties that
cover them.

## 2. Modules

| module | models | state | composes |
|---|---|---|---|
| `DeviceGate` | what the server's concurrency control promises: one call per exclusive resource, at most `Capacity` counted calls | `inside` | |
| `McpServer` | locks, semaphore, executor, sessions, cancellation | `pc`, `req`, lock and permit owners and queues, `jobs`, `running`, `job`, `todo`, `session` | implements `DeviceGate` |
| `ConfigPush` | one push, the device it changes, restarts | `running`, `startup`, `on`, `at`, `toSend`, `ssh` | |
| `ChaosCycle` | chaos cycles beside deploys | cycle and result variables, `alarm`, `nextDev`, `fails` | extends `ConfigPush` |
| `AgentRunner` | skills, counts, alerts, drift journal, schedule, tool calls | `pc`, `skill`, `left`, `seen`, results, `age`, `heard`, `chat`, `journal`, `entries` | |
| `NetBoxSync` | seven scripts that fill NetBox and the generator that reads it | `netbox`, `spec`, `script`, `copy`, `todo`, `seen`, ledgers | |
| `Troubleshooting` | inject, fix, restore and status of the thirteen scenarios, routes and sessions | `verb`, `scenario`, `left`, `inForce`, `down`, `open`, `met` | extends `ConfigPush` |
| `DeployPipeline` | make recipes and workflow: NetBox, spec, files, snapshot, gate, devices | artefacts by version, `job`, `outcome`, `steps`, ledger of reads, verdicts and pushes | |
| `MC...` | values for TLC | | |
| `..._proofs` | proofs | | |

### McpServer

A call is a slot in `Calls`; `req` says which tool it serves and on what.
`UsesLock` and `UsesPermit` are the tools' choices between
`_run_with_device_limit`, `_run_with_device_lock` and `_run_with_batfish_lock`.
One step of a coroutine is what it does up to its next suspension: an
uncontended `acquire` does not suspend, so `CallTakesLock` also enters the
semaphore and submits the job.  `LeaveLock` and `LeaveSemaphore` are
`async with` being left, by the owner (direct hand-over to the first waiter) or
by a waiter that was cancelled.  `Cancel` leaves both at once; `AbandonJob` is
what `concurrent.futures` does with the job: dropped when not begun, else the
thread goes on as an `Orphan`.  A thread follows `Itinerary`, opens a session to
one device at a time and may fail to connect or raise.

### ConfigPush and ChaosCycle

Of a configuration only the faults in it are kept: the ways it deviates from
the generated file.  `Restores` is the set of faults the file has a line for,
read off the templates; a push removes those line by line (`PushLine`) and
leaves the rest, because sending a file merges.  `PushLineIneffective` is a
line without effect, `PushSave` is `write memory`, `Reload` brings the startup
configuration back and ends sessions.  FortiOS saves at once and does not wait
for answers.

A cycle is the body of `run_chaos_cycle`: `Select`, `Inject`, `CheckFabric`,
`CheckCompliance`, then the `finally` block.  `BodyRaises` is an exception in
the body, `AlarmFires` the SIGALRM handler, `InterruptRollback` Ctrl-C,
`Kill` the end of the process.  `FinallyRaises` ends the `finally` block before
its push, at any statement of it: a second Ctrl-C in `conn.disconnect()`, where
only `Exception` is suppressed, the `SystemExit` of `require_credentials`, an
error of `get_mgmt_ips`.  `RollbackInThread` is the `ValueError` of
`signal.signal` outside the main thread.  `raised` tells an exception of the
body from one of the `finally` block.  Of a FortiGate `CheckCompliance` may
report a drift no fault has caused: on the standby unit of a pair `runner.py`
compares the management interface only, and `compare_interfaces` reports all
others as missing.  Deploys are `push_all_configs`.

### AgentRunner

One action per outcome of a device's check, with the notifier split where
another thread may come in between: looking up the cooldown (`RateLimited`,
`NotLimited`), stamping it (`Stamp`), the answer of Telegram (`Delivered`,
`Refused`, `SendRaises`).  A time stamp is kept as its age in ticks of the
schedule, up to the cooldown; messages and NetBox calls take no time on that
scale.  `chat` and `heard` are what the operator knows.

A drift is journalled after its alert (`Alerted`): `NewDrift` and `Duplicate`
are the look for an entry in the dedup window, `Post` the creation,
`NetBoxFails` everything that raises on the way.  A journal that cannot be read
counts as an empty one (`"blind"`).  `journal` keeps the age of the youngest
entry about a device, `entries` is a ledger of those made after a look.  A
device has one drift, always the same, and the reconciler's count of failures,
of which only its log tells, is left out.

### NetBoxSync

A script is the list of its API calls, drawn up from the spec it read when it
began (`Plan`) and from the device object it has fetched (`DeviceSteps`);
`Next` makes one call of one operator.  A guard that does not hold is a call
that raises; `Stop` ends a script there, or anywhere, or at its end; `PassOver`
is a failure the code catches and prints.  `Inventory` and the three reads that
follow are `netbox_to_spec`, with a call for each kind of object, so that a
script may write in between; `Write` is the new spec.  `alone` and `clean` are
ledgers: who has had no other script beside it, who has passed over nothing.

Of NetBox the model keeps devices, interfaces, cables, sessions, contexts, where
each address is attached and which is primary, and what NetBox does of itself:
an interface takes its addresses and cable with it, an address its being
primary, an address in use by a session cannot be deleted.  A device but for the
firewalls has a Loopback0 (`Looped`), an interface with an address and no cable.
The sessions `netbox_bgp_populate` draws up are `Underlay`, of links between
speakers, and `OverlayOf`, between loopbacks: the iBGP session of the PEs, the
EVPN sessions of the DC spines with their clients and that of the DR leaves are
one set of pairs, `Overlay`.  A spec without WAN section, without a site of a
fabric (`Fabrics`) or with no loopback at an end is a `KeyError`, before any
session is made (`Peers`).  Rack and tenant are one label, tags another, VLANs, circuits and contacts one object; tenants of
single devices, prefixes and serial numbers are left out; an interface deleted
and made again is the same; get-or-create is one step.

### Troubleshooting

A scenario is a record of its device, the lines of its `inject` and those of
its `fix`; a line adds a fault to a device's running configuration, takes one
back, or clears the BGP table softly.  `CmdInject`, `CmdFix` and `CmdRestore`
begin a command, `SendLine` sends one line, `Raises` is an exception at any of
them, and `restore` is the push of `ConfigPush`.  Routes do not follow the
configuration at once: `inForce` is the inbound policy they were learnt under,
`down` the session to the primary provider, and `Relearn`, `SessionFalls` and
`SessionRises` are the network.  `Detect` is what the scenarios' `detect`
answers from them.  `open` is a ledger, not code: the scenarios injected and
not repaired since.

### DeployPipeline

Of NetBox, a spec, a rendered file or a pushed configuration only its version
is kept.  A pipeline is a list of jobs (`Plan`), a job a list of steps
(`Steps`); `MayStart` is `needs` and `if` of a job, `Succeeds`, `Fails` and
`StepFails` are exit statuses.  The make recipes share one working tree and one
Batfish server, each workflow has a checkout of its own, and all push to the
same devices.  Each step has its own actions where another process may come in
between: `OpenSpec` truncates the spec and `DumpSpec` fills it, `RenderFile`
writes one file, `ClearSnapshot`, `MakeSnapshot` and `CopyFile` rebuild the
snapshot, `Upload` and `Query` are the gate, `PushDevice` one device.  What a
push does to a device is `ConfigPush`'s matter.  `read`, `judged`, `pushed`,
`loss` and `met` are ledgers the properties compare.

Assumed: NetBox does not change during one read of it; of two processes that
write the spec at the same moment the last wins; a template renders something;
a cancelled job is a failed one.

## 3. Runs

`CHECK_DEADLOCK FALSE` is set where the system may stop: all cycles ended, a
scheduled agent dead with no client calling, all commands given, all pipelines
over, all scripts run.

| run | instance | shows |
|---|---|---|
| `McpServer_safety` | 3 calls, 3 threads, 2 permits, 2 devices, a locked tool, a sweep and a Batfish tool, cancellation | types, exclusion per device, cap, Batfish serialised, no leak, lock order, refinement of `DeviceGate` |
| `McpServer_live` | 3 calls, 2 threads, 1 permit, a locked tool and a chaos test, cancellation | every call returns |
| `McpServer_overlap` | a locked tool and a sweep | **violation**: while the locked tool's call holds its device's lock and has a session to it, a sweep, which takes no lock, opens another |
| `ChaosCycle_account` | 2 cycles and a deploy, router managed, a restart | faults answered for, in the running and the startup configuration; a cycle ends without a rollback only with an exception of its `finally` block; alarm scoped |
| `ChaosCycle_live` | 2 cycles, one in a server thread, firewall and leaf, refused lines, a restart | every cycle ends, with or without a rollback; no drift of the leaf counts as detected that no cycle has caused |
| `ChaosCycle_thread` | 1 cycle in a server thread | **violation**: no rollback is attempted |
| `AgentRunner_sweeps` | a schedule of two skills, one of which visits nothing, and a tool call; one device, every trouble, cooldown 2, window 1 | counts hide no failure, alerts a cooldown apart, a lasting failure is known in the end, a lasting drift is journalled again and again and at most once per runner and window |
| `NetBoxSync_circle` | 2 operators, any 3 of the 7 scripts and the generator, on an empty or a seeded NetBox, stopped anywhere | who runs alone is refused no call for what earlier scripts left out; who ends alone has made NetBox what the spec asks for; devices, boundary and WAN section, observed interfaces, AS numbers, thresholds and rules, interfaces, addresses and links come back from a NetBox that carries the lab; nothing is undone, no primary address is lost; the agent boundary never widens |
| `Troubleshooting_users` | 2 users, any 2 commands about the 13 scenarios, any 3 about the 6 that meet | every fault belongs to a scenario not repaired; `status` is right about a settled device |
| `Troubleshooting_restore` | the same | **violation**: `restore` says OK and the fault is still there |
| `DeployPipeline_paths` | 2 pipelines of any kind, 3 devices, one edit of NetBox, failures anywhere | deploy-safe pushes what its gate saw; a workflow pushes only after its tests have passed and its gate has passed, on the checkout, or was bypassed; success means the devices were given what was read |
| `DeployPipeline_lossy` | 1 pipeline | **violation**: success although every ping was lost |

**Bounds.**  Three calls are the fewest with an owner, a waiter and a third
that overtakes or is cancelled; one permit fewer than calls makes the semaphore
contended, one thread fewer the executor.  Two cycles on one device are the
fewest in which one injects while the other rolls back, and the deploy is a
third process between the two; one restart falls between any two steps of any
of them.  One device and a second skill that has none to visit let the runner and
the tool call meet in the same alert and the same journal entry (that what a
device's failure leaves of the others is proved, for any number of them); a
cooldown of two ticks separates "limited" from "expired".  Three scripts are
one that stops half-way, one beside or after it, and the generator; a managed
leaf, an excluded router at the other end of its link and the AWS gateway are
the kinds of device the scripts tell apart, but for the firewall.  The instance
has dc-ce-1, the excluded router, in the WAN section; the committed spec lists it
as managed, and the theorems cover both.  One pair of loopbacks, of leaf and
router, stands for the three sorts of overlay sessions, which the script makes
alike.  (An orphan beside a BGP session, of which the last part of `NothingMissing` speaks, takes a
fourth script: there the theorem says more than the run.)  Three commands
are an injection, another user's on the same router, and a repair between the
two; which scenarios meet at all is seen from their devices and faults.  Two
pipelines are one and whoever disturbs it, or one after one that failed; one
edit of NetBox takes a device out, puts one in and makes the sessions
incompatible.  The bounds in guards are `MaxReloads` (restarts; what TLC shows
under it is proved without it), an exercise's `commands`, `MaxEdits` (edits of
NetBox), and `MaxRuns` (scripts started).  `FewLeft` in `MCNetBoxSync` leaves out
states in which more than two of the four data interfaces and loopbacks are
without the address they should have, or more than one in the last run: a script
that has passed over three addresses and goes on leaves the next one more of
the same to do.  The theorems know no such bound.  Symmetry is used in safety runs only.

**Fairness.**  Weak fairness of each coroutine's, thread's, cycle's and
runner's own steps: the event loop runs ready coroutines, the executor takes
jobs when a thread is free, and every Netmiko, Telegram and NetBox call has a
timeout, so none blocks for good.  In `AgentRunner` exceptions end a step as
fairly as answers do.  Strong fairness is assumed there of four outcomes of
scheduled runners: a device that fails and is checked again and again does not
make every check raise, Telegram does not lose every message, and NetBox
answers both of its calls at last.  `Tick` is strongly fair because tool calls
that follow one another without a pause could otherwise keep the clock from
advancing.  Nothing is assumed of clients, signals, restarts, operators or the
network.

## 4. Proofs

TLAPS, for every value of the constants that satisfies the module's assumptions
(`ServerAssumption`, `PushAssumption`, `CycleAssumption`, `RunnerAssumption`,
`LabAssumption`, `PipelineAssumption`, and those of `NetBoxSync`).  The
assumptions of `NetBoxSync` say of the inventory what the code relies on:

- `InventoryAssumption`: dc-ce-1 is in the laboratory and the AWS gateway is not;
  the agent's, WAN and placed devices are the laboratory's.
- `FiniteAssumption`: the spec lists finitely many devices and links, over which
  the scripts loop; `MaxRunsAssumption`: the bound is a number.
- `LinksAssumption`: a link has two interfaces of laboratory devices and an
  interface one link, as NetBox allows one cable to an interface; loopbacks,
  management interfaces and the tunnel carry no data link.
- `OverlayAssumption`: loopbacks and overlay sessions are of laboratory devices,
  and those with an overlay session have an AS number.
- `AgentAssumption`: `populate_netbox_contexts` writes observed interfaces of
  site devices only, and dc-ce-1's are what `populate_cloud_aws` writes;
  thresholds and rules are stored with managed devices, so policy without a
  managed device has no place in NetBox.

`McpServer_proofs`: `TypeCorrect`, from three layers.  `HoldInv`: a call past a
lock owns it, a call past the semaphore has a permit, no more permits are out
than there are.  `ExecInv`: a job is queued once or run by one thread, for a
call that awaits it; that queues hold no call twice is needed because an
awaited job must not be started twice.  `McpServerLocks_proofs` derives
`DeviceLocksExclude`, `BatfishLockExcludes` and `SemaphoreCaps`, the last by an
injection from threads with a session into permits.  `QueueInv` gives
`ReleasesAreComplete` and `PermitsWork`: a queue holds only calls that wait for
it, each once and never the holder, and what is free has no waiter.  "Each once"
is what makes it inductive: a cancelled waiter takes one place out of the queue
and must not leave another behind.  Its second part, `ServerImplementsGate`,
shows that every step of the server is a step of the gate or a stutter.

`ChaosCycle_proofs`: that every fault is answered for is not inductive, since a
cycle that ends must know its fault is gone.  `RunningOwed` strengthens it: a
fault that is on a reliable device is owed by a cycle whose push has *not yet*
taken it back.  No cycle past that line counts, so two cycles cannot name each
other and both end.  `StartupOwed` is the same of the startup configuration and
carries the argument over a restart, which also ends every session, so that
a push interrupted by it can no longer succeed.  `FaultsInjected` and
`VerdictFresh` give `DetectionIsSound`, of EOS and IOS-XE devices: of a FortiGate
it is false (section 5).  The instance TLC checks has one managed
router; the theorem covers every platform, and several devices.
`RollbackIsAttempted` has no hypothesis: a cycle that ends has come out of its
push, or an exception of the `finally` block has reached the caller, the
`ValueError` in a server thread among them.  Without the second part it is
`RollbackGuaranteed`, which is false (`ChaosCycle_thread`).

`DeployPipeline_proofs`: `PushedWasChecked` is about pushes, but what makes it
true is how far a workflow has come.  `Progress` says, for each place in the
plan, which steps can be left and what the jobs before have come to; a push
step is then in the last job, a verdict in the gate's, and a skipped gate means
the bypass once the tests have passed.  The argument is by value (`StepKeeps`,
`LastStepKeeps`, `FailureKeeps` about any workflow) and then by action.
`TypeInv` adds what a step has in hand.  `GateSawPushed` is `PushIsWhatGateSaw`:
two pipelines that run have met (`Meetings`), so nobody else works in the tree
of one that has met no other, and `SawFiles` follows the files it has rendered
into the snapshot, device by device, to the server and the verdict, until the
push sends them.

`DeployPipelineGreen_proofs`: `GreenIsDeployed`.  As long as no other pipeline
deploys, what runs beside one is a `validate_batfish`, which builds and judges
snapshots and writes neither spec, files nor devices (`OthersMade`).  `Made` says,
by the step the pipeline is at, what is of the version it has read: the spec
after it is written, the files of the devices dealt with, then all, then the
devices pushed to, then all its targets; what others left there before is
overwritten on the way.  A pipeline turns green with its last step only
(`GreenMade`), which leaves the devices.

`AgentRunner_proofs`: `Sound` says of one runner how its counts, its results and
the devices still to visit belong together; a device has a result exactly when
it is not to visit any more, and a verdict under way is already counted.  From
that `TypeCorrect` and `NothingHidden`.  `Budget` counts a runner past its look
at the journal as if it had posted, which gives `EntriesStayBounded`; `Spaced`
does the same for the time stamp.  `AlertsKeepDistance` has the hypothesis that
no two runners share a process: two threads can both find the cooldown expired
before either stamps it.

`Troubleshooting_proofs`: `NothingLeftBehind` is `FaultsOpen` for any number of
users and commands.  `Undoes` is established of each of the thirteen scenarios
by looking at its lines: the fix clears every fault the injection sets, and
learns the routes anew after that.  `BookInv`: an injection in progress is open,
and every repair beside it has met it.  `CleanInv`: a fault a repair has taken
back and met no injection of is gone, and stays so whatever others send, since
only an injection adds faults and routes follow what is configured.  The
hypothesis `~Rejections` is necessary: a restore whose lines are refused reports
success all the same.

`StatusIsRight` is `DetectRight`: what each scenario's injection sets, and its
`detect` looks at, is computed from its lines, and the types of `BookInv` say
which faults and policies a device can have.

`NetBoxSync_proofs`: `BoundaryKept` for any laboratory.  What a script has in
hand may be arbitrarily old, but it was safe when it was read, and nothing safe
becomes unsafe; so `Safe`, stated of NetBox, the spec and every copy, is
inductive.

What the scripts promise needs much more, since a script's steps are computed as
it goes and what it does not find, an earlier one may have left out.  The
invariant is `Realising`, in five parts:

- `Typed`: types, `NetBoxType` and `SpecType` among them.
- `PlanInv`: what is ahead of a script are steps that script may have, for the
  spec and the device in its hands (`Wants`), in an order that `Later` gives for
  each script.  The order of a set's elements does not matter, only that each is
  there (`EachAhead`).
- `Sound`: an address is on an interface that goes by it, a primary address is
  the management address of its device, a spec is about its own devices.
- `Current`: of a script that runs alone, the context it will save is the one
  NetBox has, and the management address is off an orphan before the orphan is
  deleted.  This is where `alone` is needed: beside another script, a context in
  hand is stale and the save takes away what the other wrote.
- `Progress`: for each script, whatever it is to put into NetBox is there or is
  still ahead.  A script that passed over a failure has lost it, hence `clean`.

With nothing ahead, `Progress` is what `InventoryComes`, `ManagementComes`,
`ServicesCome` and, for the generator, `CircleIsClosed` say; none of them asks
how NetBox came to be as the script found it.  `ServicesCome` is about the
sessions of links and of the overlay; a script that lacks what a session needs
raises or passes over it, and the theorem is about one that came to its end and
passed over nothing.  `CircleIsClosed` is about what `LabSpec` keeps of the
committed spec; what it leaves out, and what of that cannot come back, is in
sections 5 and 6.  `NothingIsUndone` and
`PrimaryIsKept` are proved of each call under the same invariant.
`NothingIsMissing` takes one more, `Footing`: the interface under an address, the
address that is to become primary and the ends of the tunnel are there or are
made by a step still ahead; by the order of `PlanInv` that step comes first.

Only model-checked: the four liveness properties, `EveryCallReturns`,
`EveryCycleEnds`, `OperatorInformed` and `DriftRecorded`; liveness is out of the
prover's reach, as are `ENABLED` and what a recursive definition computes for
every input.  The properties of the runs that expect a violation are of course
not proved either.

## 5. What the code does not do

Promises of docs and comments that TLC refutes; the quotations are in
`PROJECT.json`.

- "Per-device locks prevent overlapping SSH to the same device": only between
  single-device tools; sweeps and the chaos test take the semaphore alone.
- "Rollback is guaranteed via try/finally": not in the MCP server, where
  `signal.signal` raises in a worker thread before the push.
- `restore` "always restores a known-good state": it merges a file that has no
  line against a password, a prefix-list, timers, an MTU or, on EOS, a shut
  interface, and knows one device of a scenario that has two.
- The reachability test "exits non-zero if any path fails": it looks for
  "0% packet loss", which "100% packet loss" contains.

Plain from the models without a run of their own:

- The semaphore caps the sessions of calls, not those of threads whose call was
  cancelled (`Orphan`).
- A cycle reports `rolled_back` although an interface it shut is still shut on
  EOS: only the IOS-XE templates say `no shutdown` (`Restores`).
- The rollback's timeout is swallowed on FortiOS, whose loop has `except
  Exception: pass` around each read (`AlarmFires`).
- `--schedule` ends with the first exception of Telegram's summary, or of
  `_connect` other than an authentication failure or a timeout.
- "failed device alerts are sent at most once per cooldown period"
  (`telegram_notifier.py:6-7`): not with two tool calls in one process.
- "Logs escalating warnings when consecutive failures exceed the threshold"
  (`netbox_reconciler.py:172-173`): not in an outage of NetBox, since
  `create_journal_entry` returns False for every API error and False is not
  counted as a failure.
- `populate_netbox` is "Idempotent — safe to run multiple times" (lines 4-6),
  but a second run replaces every config context by boundary and AS number
  (lines 322-324), with which the spec loses thresholds, compliance rules and
  observed interfaces at the next generation; `make refresh-netbox` runs it
  without `populate_netbox_contexts`.  `NothingUndone` names it as the exception.
  Lost with them are keys the model does not have: `evpn_overlay`,
  `vxlan_config`, `ha_config`, `security_zones`, `security_policies` and
  `vpn_tunnels`.
- Two parts of the committed spec cannot come back from NetBox, whatever it
  holds.  `tests.reachability_matrix` (`lab_spec.yaml:734-750`) is between leaves
  and edge routers, and the generator rebuilds one between hosts
  (`netbox_to_spec.py:393, 416-432`).  `ha_role` of the firewalls' heartbeat interfaces (lines 592, 611, 656,
  675) is never written by `_device` (lines 92-137), and `fortigate_ha.j2:28`
  and `netbox_bgp_populate.py:136` read it: a FortiGate's configuration rendered
  after a round trip is another.  `CircleCloses` lists what does come back.
- A standby FortiGate has a "drift detected" without any fault.  `runner.py:293`
  means to "skip data-plane interfaces on standby units", but lines 297-303 drop
  them from the live interfaces only, and `compare_interfaces` reports each one
  the spec has as missing (`spec_compliance/skill.py:111-129`).  A chaos cycle on
  it counts as detected; `DetectionSound` is stated of EOS and IOS-XE.
- A `finally` block that raises before its push ends the cycle without one, in
  the command-line program too (`FinallyRaises`): `RollbackAttempted` says that
  nothing else does, and that the exception then reaches the caller.
- A WAN device's observed interfaces, once so lost, no script puts back
  (`Observes`).
- `sync_netbox_mgmt_ips` and `netbox_enrich` move the management address to
  `Management1` and `Mgmt1`, and each undoes the other.
- `netbox_enrich` between `populate_cloud_aws` and the next generation deletes
  the tunnel interface of dc-ce-1 and its cable as orphans.
- The tunnels `populate_cloud_aws` seeds are never read by the generator, which
  looks for them on another device.
- A generation after a half-done `populate_netbox` writes a spec without the
  rest, which no script can put back: only a spec with no device is refused.
- The workflow's gate validates the configurations that were checked out, and
  the deploy job pushes others, generated anew from NetBox, so what it pushes no
  gate has judged: `GateSawPushed` is stated of `deploy-safe` only, and
  `PushedWasChecked` says of the workflow that its gate has passed, not on what.
- `deploy-safe` runs its gate without `--strict` and goes on after critical
  issues: `PushedWasChecked` is stated of the workflow only (`Strict`).
- The gate calls an unreachable path a warning, its docstring a failure.

Conditions in the properties that are limits of the code, not of the model:
`FaultsAnswered` is about reliable devices (a refused line, or FortiOS after a
restart, leaves the fault while the push reports success); `AlertsApart` is
about one runner per process; `EntriesBounded` allows each runner an entry, since
read, check and create are not one step; `NetBoxSync`'s properties are about
scripts that ran alone and passed over no failure; `GateSawPushed` and `GreenIsDeployed` are about pipelines
that no other has disturbed, since nothing locks the working tree, the snapshot
or the devices; `FaultsOpen` lets a repair count only when no injection of the
same fault overlapped it; `DetectRight` is about devices with no other
scenario's faults.

## 6. Not modelled, and the plan

The text of commands, templates, show output, logs and messages is left out;
the models keep the verdicts.  Devices are as they are pushed to; routing
protocols appear only as "a fault may take a session down".

The role `cloud-vpn` is not told apart: `render_configs` writes no file for it,
`push_all_configs` leaves out hosts only, so once such a device is in the spec
every push to all devices counts one failure.  The committed spec has none.

EVE-NG (`eve_client.py`, `create_topology.py`): one script, nothing beside it.
A refused call is made again after a pause, which is meant for the lab lock; a
node that cannot be added is printed and passed over, its links fail one by
one, and a second run adds all nodes again.  The script promises nothing of
such a run that could be stated as a property.  Skill parsers and automation compute from text;
operations scripts are shell around docker and systemd; the laboratory tools
only look.

Of modelled components: sweeps over several devices are proved, not checked;
the reconciler's failure counter; the text of templates, PSK injection and the
filtering of lines in `ConfigPush`; `agent/testbed.yaml`, which `generate_testbed`
writes, `sync_netbox_mgmt_ips` reads, and no step of a pipeline does.

Of `NetBoxSync`: hosts, prefixes and, in TLC's instance, firewalls; the context
keys `_fabric` (lines 140-215), `_security` (218-235) and `_branch_routing`
(238-254) of the generator read; `ha_role`; the reachability matrix.

A continuation would take up `EveTopology`: the creation of nodes and links with
calls that fail for good, run again after a deletion.
