--------------------------- MODULE Troubleshooting ---------------------------
(***************************************************************************)
(* troubleshooting/: thirteen scenarios that break a device on purpose.    *)
(* `inject` sends the lines of a fault, `fix` those of its repair,         *)
(* `restore` pushes the generated file (ConfigPush), `status` looks        *)
(* whether the fault is there.  Each is a process of its own; several      *)
(* users run them at the same time and nothing coordinates them.           *)
(*                                                                         *)
(* A line adds a fault to a configuration or takes it back.  The routes a  *)
(* router has learnt do not follow its inbound policy until they are       *)
(* learnt anew, by `clear ip bgp ... soft in` or for some other reason:    *)
(* inForce is the policy they were learnt under.                           *)
(***************************************************************************)
EXTENDS ConfigPush, Sequences, SequencesExt

CONSTANTS
    Exercises      \* what users may undertake: scenarios, and a bound on commands

VARIABLES
    exercise,    \* the one undertaken
    verb,        \* the command each user runs: "none", "inject", "fix", "restore"
    scenario,    \* the scenario it is about
    left,        \* the lines it has still to send
    inForce,     \* faults of inbound policy in the routes of each device
    down,        \* is a device's session to its primary provider down?
    commands,    \* commands so far
    open,        \* scenarios injected, and not repaired since
    met          \* scenarios whose injection overlapped each user's command

cliVars == <<verb, scenario, left>>
routeVars == <<inForce, down>>
ledgerVars == <<exercise, commands, open, met>>
vars == <<deviceVars, pushVars, cliVars, routeVars, ledgerVars>>

-----------------------------------------------------------------------------
(* Lines, and inbound policy.                                              *)

Line(d, S, C, P) == [on |-> d, sets |-> S, clears |-> C, relearns |-> P]
Sets(d, f) == Line(d, {f}, {}, {})
Clears(d, f) == Line(d, {}, {f}, {})
Soft(d, P) == Line(d, {}, {}, P)

FromPrimary == {"lp_primary", "deny_bound"}
FromSecondary == {"lp_secondary"}

\* The inbound policy d is configured with.  A neighbour bound to a
\* prefix-list that does not exist is not filtered.
Policy(d) ==
    {f \in running[d] \cap (FromPrimary \cup FromSecondary) :
        f = "deny_bound" => "deny_list" \in running[d]}

Relearnt(d, P) == (inForce[d] \ P) \cup (Policy(d) \cap P)

\* Does d's table hold a path from its primary provider?
PrimaryPath(d) == ~down[d] /\ "deny_bound" \notin inForce[d]

-----------------------------------------------------------------------------
(* The scenarios: the device of each, and the lines of inject and fix.     *)

IfaceAdminDown ==
    LET d == "dc-border-1" IN
    [device |-> d,
     inject |-> <<Sets(d, "shut_interface")>>,
     fix |-> <<Clears(d, "shut_interface")>>]

IfaceDescriptionSwap ==
    LET d == "dc-border-1" IN
    [device |-> d,
     inject |-> <<Sets(d, "label_1"), Sets(d, "label_2")>>,
     fix |-> <<Clears(d, "label_1"), Clears(d, "label_2")>>]

LocalprefReversed ==
    LET d == "dc-ce-1"
        SoftInBoth == <<Soft(d, FromPrimary), Soft(d, FromSecondary)>> IN
    [device |-> d,
     inject |-> <<Sets(d, "lp_primary"), Sets(d, "lp_secondary")>> \o SoftInBoth,
     fix |-> <<Clears(d, "lp_primary"), Clears(d, "lp_secondary")>> \o SoftInBoth]

BgpTimerMismatch ==
    LET d == "dc-ce-1" IN
    [device |-> d,
     inject |-> <<Sets(d, "timers")>>,
     fix |-> <<Clears(d, "timers")>>]

PrefixFilterTypoBug ==  \* the list itself stays
    LET d == "dc-ce-1" IN
    [device |-> d,
     inject |-> <<Sets(d, "deny_list"), Sets(d, "deny_bound"), Soft(d, FromPrimary)>>,
     fix |-> <<Clears(d, "deny_bound"), Soft(d, FromPrimary)>>]

PrefixFilterTypo ==
    LET d == "dc-ce-1" IN
    [device |-> d,
     inject |-> <<Sets(d, "deny_list"), Sets(d, "deny_bound"), Soft(d, FromPrimary)>>,
     fix |-> <<Clears(d, "deny_bound"), Clears(d, "deny_list"), Soft(d, FromPrimary)>>]

Md5AuthMismatch ==
    LET d == "dc-ce-1" IN
    [device |-> d,
     inject |-> <<Sets(d, "password")>>,
     fix |-> <<Clears(d, "password")>>]

\* Its `clear ... soft out` concerns what the providers have learnt.
AspathPrependWrongDirection ==
    LET d == "dr-ce-1" IN
    [device |-> d,
     inject |-> <<Sets(d, "prepend_unbound"), Sets(d, "prepend_primary")>>,
     fix |-> <<Clears(d, "prepend_primary"), Clears(d, "prepend_unbound")>>]

VniMappingMissing ==
    LET d == "dc-leaf-2" IN
    [device |-> d,
     inject |-> <<Sets(d, "remove_vni")>>,
     fix |-> <<Clears(d, "remove_vni")>>]

RrPeerMissing ==
    LET d == "dc-spine-1" IN
    [device |-> d,
     inject |-> <<Sets(d, "evpn_inactive")>>,
     fix |-> <<Clears(d, "evpn_inactive")>>]

WrongRtImport ==
    LET d == "dc-leaf-2" IN
    [device |-> d,
     inject |-> <<Sets(d, "rt_missing"), Sets(d, "rt_wrong")>>,
     fix |-> <<Clears(d, "rt_wrong"), Clears(d, "rt_missing")>>]

AnycastGwMacMismatch ==
    LET d == "dc-leaf-1" IN
    [device |-> d,
     inject |-> <<Sets(d, "gw_mac")>>,
     fix |-> <<Clears(d, "gw_mac")>>]

MtuMismatch ==
    LET d == "dc-leaf-1" IN
    [device |-> d,
     inject |-> <<Sets(d, "mtu")>>,
     fix |-> <<Clears(d, "mtu")>>]

\* The lines for the second device go over a connection opened after those
\* for the first have been sent.
MultiFault ==
    [device |-> LocalprefReversed.device,
     inject |-> LocalprefReversed.inject \o IfaceAdminDown.inject,
     fix |-> LocalprefReversed.fix \o IfaceAdminDown.fix]

\* The registry.
Scenario ==
    [l1_iface_admin_down |-> IfaceAdminDown,
     l1_iface_description_swap |-> IfaceDescriptionSwap,
     wan_localpref_reversed |-> LocalprefReversed,
     wan_bgp_timer_mismatch |-> BgpTimerMismatch,
     wan_prefix_filter_typo |-> PrefixFilterTypo,
     wan_md5_auth_mismatch |-> Md5AuthMismatch,
     wan_aspath_prepend_wrong_direction |-> AspathPrependWrongDirection,
     evpn_vni_mapping_missing |-> VniMappingMissing,
     evpn_rr_peer_missing |-> RrPeerMissing,
     evpn_wrong_rt_import |-> WrongRtImport,
     evpn_anycast_gw_mac_mismatch |-> AnycastGwMacMismatch,
     underlay_mtu_mismatch |-> MtuMismatch,
     multi_fault_localpref_and_iface |-> MultiFault]

\* The faults a scenario puts on its devices.
Effects ==
    [s \in DOMAIN Scenario |->
        UNION {{l.on} \X l.sets : l \in ToSet(Scenario[s].inject)}]

ASSUME LabAssumption ==
    /\ {"dc-ce-1", "dr-ce-1", "dc-border-1", "dc-leaf-1", "dc-leaf-2", "dc-spine-1"}
          \subseteq Devices
    /\ \A e \in Exercises : e.scenarios \subseteq DOMAIN Scenario /\ e.commands \in Nat

Offered == exercise.scenarios

Present == UNION {{d} \X running[d] : d \in Devices}
InForce == UNION {{d} \X inForce[d] : d \in Devices}

-----------------------------------------------------------------------------
(* What detect answers; TRUE is "fault present".                           *)

LocalprefSeenBug ==  \* the comparison the wrong way round
    /\ PrimaryPath("dc-ce-1")
    /\ inForce["dc-ce-1"] \cap {"lp_primary", "lp_secondary"} = {}

\* By the paths in the table; with one missing the answer is FALSE.
LocalprefSeen ==
    /\ PrimaryPath("dc-ce-1")
    /\ inForce["dc-ce-1"] \cap {"lp_primary", "lp_secondary"} # {}

PrefixSeen == ~PrimaryPath("dc-ce-1")

\* By the state of the session, not by the line.
Md5Seen == down["dc-ce-1"]

\* Bound to both providers, or to neither, is FALSE.
PrependSeen == {"prepend_unbound", "prepend_primary"} \subseteq running["dr-ce-1"]

\* The first import line decides: of two, the device may print either first.
RtSeen ==
    IF "rt_missing" \in running["dc-leaf-2"] THEN {TRUE}
    ELSE {FALSE, "rt_wrong" \in running["dc-leaf-2"]}

\* The other scenarios look for any of their lines.
Detect(s) ==
    CASE s = "wan_localpref_reversed" -> {LocalprefSeen}
      [] s = "wan_prefix_filter_typo" -> {PrefixSeen}
      [] s = "wan_md5_auth_mismatch" -> {Md5Seen}
      [] s = "wan_aspath_prepend_wrong_direction" -> {PrependSeen}
      [] s = "evpn_wrong_rt_import" -> RtSeen
      [] s = "multi_fault_localpref_and_iface" ->
            {LocalprefSeen \/ "shut_interface" \in running["dc-border-1"]}
      [] OTHER -> {Effects[s] \cap Present # {}}

-----------------------------------------------------------------------------
Init ==
    /\ PushInit
    /\ exercise \in Exercises
    /\ verb = [u \in Procs |-> "none"]
    /\ scenario = [u \in Procs |-> "none"]
    /\ left = [u \in Procs |-> <<>>]
    /\ inForce = [d \in Devices |-> {}]
    /\ down = [d \in Devices |-> FALSE]
    /\ commands = 0
    /\ open = {}
    /\ met = [u \in Procs |-> {}]

\* The command of u begins; it has met the commands in progress.
Starts(u, v, s) ==
    /\ verb[u] = "none"
    /\ commands < exercise.commands
    /\ commands' = commands + 1
    /\ verb' = [verb EXCEPT ![u] = v]
    /\ scenario' = [scenario EXCEPT ![u] = s]
    /\ UNCHANGED exercise
    /\ met' = [w \in Procs |->
                 IF w = u THEN {scenario[x] : x \in {y \in Procs : verb[y] = "inject"}}
                 ELSE IF v = "inject" /\ verb[w] # "none" THEN met[w] \cup {s}
                 ELSE met[w]]

\* cmd_inject, cmd_fix: connect to the scenario's device, then its lines.
CmdInject(u, s) ==
    /\ Starts(u, "inject", s)
    /\ left' = [left EXCEPT ![u] = Scenario[s].inject]
    /\ open' = open \cup {s}
    /\ UNCHANGED <<deviceVars, pushVars, routeVars>>

CmdFix(u, s) ==
    /\ Starts(u, "fix", s)
    /\ left' = [left EXCEPT ![u] = Scenario[s].fix]
    /\ UNCHANGED <<deviceVars, pushVars, routeVars, open>>

\* cmd_restore: restore_clean_config for the scenario's device.
CmdRestore(u, s) ==
    /\ Starts(u, "restore", s)
    /\ on' = [on EXCEPT ![u] = Scenario[s].device]
    /\ at' = [at EXCEPT ![u] = "connect"]
    /\ UNCHANGED <<deviceVars, toSend, ssh, left, routeVars, open>>

\* A device takes a line.
SendLine(u) ==
    /\ left[u] # <<>>
    /\ LET l == Head(left[u]) IN
          /\ Configure(l.on, (running[l.on] \ l.clears) \cup l.sets)
          /\ inForce' = [inForce EXCEPT ![l.on] = Relearnt(l.on, l.relearns)]
    /\ left' = [left EXCEPT ![u] = Tail(@)]
    /\ UNCHANGED <<pushVars, verb, scenario, down, ledgerVars>>

EndsBug(u) ==  \* an exception leaves lines to send
    /\ verb' = [verb EXCEPT ![u] = "none"]
    /\ scenario' = [scenario EXCEPT ![u] = "none"]
    /\ met' = [met EXCEPT ![u] = {}]
    /\ UNCHANGED left

Ends(u) ==
    /\ verb' = [verb EXCEPT ![u] = "none"]
    /\ scenario' = [scenario EXCEPT ![u] = "none"]
    /\ left' = [left EXCEPT ![u] = <<>>]
    /\ met' = [met EXCEPT ![u] = {}]

\* Ended well, u's command has repaired every scenario whose faults are
\* among the repaired ones, unless an injection of these overlapped it.
Closes(u, repaired) ==
    open' = {s \in open :
                \/ ~(Effects[s] \subseteq repaired)
                \/ \E t \in met[u] : Effects[t] \cap Effects[s] # {}}

EndInject(u) ==
    /\ verb[u] = "inject" /\ left[u] = <<>>
    /\ Ends(u)
    /\ UNCHANGED <<deviceVars, pushVars, routeVars, exercise, commands, open>>

EndFix(u) ==
    /\ verb[u] = "fix" /\ left[u] = <<>>
    /\ Closes(u, Effects[scenario[u]])
    /\ Ends(u)
    /\ UNCHANGED <<deviceVars, pushVars, routeVars, exercise, commands>>

\* "Restore: OK" or "Restore FAILED".  A push relearns no routes.
EndRestore(u) ==
    /\ verb[u] = "restore" /\ at[u] \in Returned
    /\ IF at[u] = "ok"
       THEN Closes(u, {on[u]} \X (Restores(on[u]) \ (FromPrimary \cup FromSecondary)))
       ELSE UNCHANGED open
    /\ at' = [at EXCEPT ![u] = "off"]
    /\ on' = [on EXCEPT ![u] = NoDevice]
    /\ Ends(u)
    /\ UNCHANGED <<deviceVars, toSend, ssh, routeVars, exercise, commands>>

\* An exception ends inject or fix: at the connection, at a line, at the
\* connection to the second device, or Ctrl-C.
Raises(u) ==
    /\ verb[u] \in {"inject", "fix"}
    /\ Ends(u)
    /\ UNCHANGED <<deviceVars, pushVars, routeVars, exercise, commands, open>>

Push(u) == PushStep(u) /\ UNCHANGED <<cliVars, routeVars, ledgerVars>>

-----------------------------------------------------------------------------
(* The network: routes are learnt anew, the session to the primary         *)
(* provider goes down on a password or tight timers and comes up without a *)
(* password.                                                               *)

Relearn(d, P) ==
    /\ Relearnt(d, P) # inForce[d]
    /\ inForce' = [inForce EXCEPT ![d] = Relearnt(d, P)]
    /\ UNCHANGED <<deviceVars, pushVars, cliVars, down, ledgerVars>>

SessionFalls(d) ==
    /\ ~down[d]
    /\ running[d] \cap {"password", "timers"} # {}
    /\ down' = [down EXCEPT ![d] = TRUE]
    /\ UNCHANGED <<deviceVars, pushVars, cliVars, inForce, ledgerVars>>

SessionRises(d) ==
    /\ down[d] /\ "password" \notin running[d]
    /\ down' = [down EXCEPT ![d] = FALSE]
    /\ inForce' = [inForce EXCEPT ![d] = Relearnt(d, FromPrimary)]
    /\ UNCHANGED <<deviceVars, pushVars, cliVars, ledgerVars>>

Next ==
    \/ \E u \in Procs, s \in Offered : CmdInject(u, s) \/ CmdFix(u, s) \/ CmdRestore(u, s)
    \/ \E u \in Procs :
          SendLine(u) \/ EndInject(u) \/ EndFix(u) \/ EndRestore(u) \/ Raises(u) \/ Push(u)
    \/ \E d \in Devices :
          \/ \E P \in {FromPrimary, FromSecondary} : Relearn(d, P)
          \/ SessionFalls(d) \/ SessionRises(d)

Spec == Init /\ [][Next]_vars

-----------------------------------------------------------------------------
(* Properties.                                                             *)

\* Types; besides, every line is one of the command that is running.
TypeOK ==
    /\ PushTypeOK
    /\ verb \in [Procs -> {"none", "inject", "fix", "restore"}]
    /\ scenario \in [Procs -> Offered \cup {"none"}]
    /\ inForce \in [Devices -> SUBSET (FromPrimary \cup FromSecondary)]
    /\ down \in [Devices -> BOOLEAN]
    /\ exercise \in Exercises
    /\ commands \in 0..exercise.commands
    /\ open \subseteq Offered
    /\ met \in [Procs -> SUBSET Offered]
    /\ \A u \in Procs :
          left[u] # <<>> =>
             \/ verb[u] = "inject" /\ IsSuffix(left[u], Scenario[scenario[u]].inject)
             \/ verb[u] = "fix" /\ IsSuffix(left[u], Scenario[scenario[u]].fix)

\* Whatever is wrong with a device, in its configuration or in the routes it
\* goes by, belongs to a scenario that has not been repaired since it was
\* last injected: a `fix` that ends, or a `restore` of faults the generated
\* file can take back, leaves nothing of its scenario behind, whatever other
\* commands do to the same device at the same time or broke off halfway.
FaultsOpen == Present \cup InForce \subseteq UNION {Effects[s] : s \in open}

\* `status` tells the truth of a device that has no other scenario's faults
\* and whose routes and session have caught up with its configuration.
Settled(d) ==
    inForce[d] = Policy(d) /\ down[d] = ("password" \in running[d])

DetectRight ==
    \A s \in Offered :
        LET E == Effects[s] IN
        /\ \A e \in E : Settled(e[1])
        /\ \A e \in Present : e[1] \in {x[1] : x \in E} => e \in E
        => /\ E \subseteq Present => Detect(s) = {TRUE}
           /\ E \cap Present = {} => Detect(s) = {FALSE}

\* "Always restores a known-good state regardless of how badly the user
\* mangled the device": after a restore that succeeded, with no injection
\* during it, nothing is wrong with the device.
RestoreIsClean ==
    \A u \in Procs :
        verb[u] = "restore" /\ at[u] = "ok" /\ met[u] = {} => running[on[u]] = {}
=============================================================================
