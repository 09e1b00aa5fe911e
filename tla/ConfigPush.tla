----------------------------- MODULE ConfigPush -----------------------------
(***************************************************************************)
(* scripts/push_configs.py: pushing a generated configuration to a device. *)
(*                                                                         *)
(* A device holds a running and a startup configuration.  Of each we keep  *)
(* only the faults in it, the ways in which it deviates from the spec, and *)
(* of these the Kinds that an instance of the model tells apart.  A        *)
(* push merges the generated file into the running configuration: it takes *)
(* back the faults for which the file has a line, one line after another,  *)
(* and nothing else; then it saves the result as startup configuration.    *)
(*                                                                         *)
(* Several processes push at the same time, to the same device too: a      *)
(* deploy, an operator's manual fix, a chaos test's rollback.  Nothing     *)
(* between them coordinates.  This module has the steps of one push; the   *)
(* modules that extend it say who pushes and when.                         *)
(***************************************************************************)
EXTENDS Naturals, FiniteSets

CONSTANTS
    Devices,
    Platform,    \* Platform[d]: the device's operating system
    Procs,       \* processes that push
    Kinds,       \* faults told apart
    Configured,  \* devices with a management address and a generated file
    Rejections,  \* may a device refuse a line it is sent?
    MaxReloads,  \* bound on restarts of devices
    NoDevice

Platforms == {"arista_eos", "cisco_iosxe", "fortinet_fortios"}

\* The faults of the chaos test and of the troubleshooting scenarios for
\* which a generated file has a line, by the place of that line.
Place == [label_1 |-> 1, change_ip |-> 2, shut_interface |-> 3, label_2 |-> 4,
          remove_vni |-> 5, gw_mac |-> 6, lp_primary |-> 7, lp_secondary |-> 8,
          wrong_asn |-> 9, prepend_unbound |-> 10, evpn_inactive |-> 11,
          rt_missing |-> 12]

\* Faults no generated file has a line against, on any platform.
Leftovers == {"prepend_primary", "rt_wrong", "mtu", "timers", "password",
              "deny_list", "deny_bound"}

Faults == DOMAIN Place \cup Leftovers

ASSUME PushAssumption ==
    /\ Platform \in [Devices -> Platforms]
    /\ Configured \subseteq Devices
    /\ Kinds \subseteq Faults
    /\ Rejections \in BOOLEAN
    /\ MaxReloads \in Nat
    /\ NoDevice \notin Devices

VARIABLES
    running,  \* the faults in each device's running configuration
    startup,  \* the faults in its startup configuration
    on,       \* the device each process works on
    at,       \* how far its push is
    toSend,   \* the faults for which lines are still to be sent
    ssh,      \* its session: "none", "up", or "lost" since the device restarted
    reloads   \* restarts so far

deviceVars == <<running, startup, reloads>>
pushVars == <<on, at, toSend, ssh>>

InPush == {"connect", "lines", "verify"}
Returned == {"ok", "failed"}

Fortinet(d) == Platform[d] = "fortinet_fortios"

(***************************************************************************)
(* The faults the generated file has a line against.  Every file sets      *)
(* addresses and neighbours; only the IOS-XE templates write "no           *)
(* shutdown", so an interface shut on EOS or FortiOS stays shut.           *)
(***************************************************************************)
Restores(d) ==
    Kinds \cap
      ({"change_ip"}
        \cup (IF Fortinet(d) THEN {} ELSE {"wrong_asn", "label_1", "label_2"})
        \cup (IF Platform[d] = "arista_eos"
              THEN {"remove_vni", "gw_mac", "evpn_inactive", "rt_missing"} ELSE {})
        \cup (IF Platform[d] = "cisco_iosxe"
              THEN {"shut_interface", "lp_primary", "lp_secondary", "prepend_unbound"}
              ELSE {}))

\* f's line is the next one of the file.
NextLine(p, f) == f \in toSend[p] /\ \A g \in toSend[p] : Place[f] <= Place[g]

PushInit ==
    /\ running = [d \in Devices |-> {}]
    /\ startup = [d \in Devices |-> {}]
    /\ on = [p \in Procs |-> NoDevice]
    /\ at = [p \in Procs |-> "off"]
    /\ toSend = [p \in Procs |-> {}]
    /\ ssh = [p \in Procs |-> "none"]
    /\ reloads = 0

\* The running configuration of d becomes c.  FortiOS saves every change,
\* the others when told to.
Configure(d, c) ==
    /\ running' = [running EXCEPT ![d] = c]
    /\ startup' = IF Fortinet(d) THEN [startup EXCEPT ![d] = c] ELSE startup
    /\ UNCHANGED reloads

\* The push of p ends, with outcome o.
LeavePush(p, o) ==
    /\ at' = [at EXCEPT ![p] = o]
    /\ ssh' = [ssh EXCEPT ![p] = "none"]
    /\ toSend' = [toSend EXCEPT ![p] = {}]

-----------------------------------------------------------------------------
(* One push by process p to the device on[p].                              *)

\* ConnectHandler, enable, backup of the running configuration.
PushConnect(p) ==
    /\ at[p] = "connect"
    /\ at' = [at EXCEPT ![p] = "lines"]
    /\ ssh' = [ssh EXCEPT ![p] = "up"]
    /\ toSend' = [toSend EXCEPT ![p] = Restores(on[p])]
    /\ UNCHANGED <<deviceVars, on>>

\* The device takes a line.
PushLine(p) ==
    /\ at[p] = "lines" /\ ssh[p] = "up"
    /\ \E f \in toSend[p] :
          /\ NextLine(p, f)
          /\ toSend' = [toSend EXCEPT ![p] = @ \ {f}]
          /\ Configure(on[p], running[on[p]] \ {f})
    /\ UNCHANGED <<on, at, ssh>>

\* A line has no effect, and the push goes on: the device refuses it
\* (send_config_set has no error pattern, the FortiOS loop only logs), or
\* FortiOS lines are written to a session whose device has restarted.
PushLineIneffective(p) ==
    /\ at[p] = "lines"
    /\ (ssh[p] = "up" /\ Rejections) \/ (ssh[p] = "lost" /\ Fortinet(on[p]))
    /\ \E f \in toSend[p] :
          NextLine(p, f) /\ toSend' = [toSend EXCEPT ![p] = @ \ {f}]
    /\ UNCHANGED <<deviceVars, on, at, ssh>>

PushSaveBug(p) ==  \* saved before the last line
    /\ at[p] = "lines"
    /\ ~Fortinet(on[p]) /\ ssh[p] = "up"
    /\ startup' = [startup EXCEPT ![on[p]] = running[on[p]]]
    /\ at' = [at EXCEPT ![p] = "verify"]
    /\ UNCHANGED <<running, reloads, on, toSend, ssh>>

\* write memory, on the platforms that need it.
PushSave(p) ==
    /\ at[p] = "lines" /\ toSend[p] = {}
    /\ ~Fortinet(on[p]) /\ ssh[p] = "up"
    /\ startup' = [startup EXCEPT ![on[p]] = running[on[p]]]
    /\ at' = [at EXCEPT ![p] = "verify"]
    /\ UNCHANGED <<running, reloads, on, toSend, ssh>>

\* Read the hostname back (not on FortiOS), disconnect, return True.
PushDone(p) ==
    /\ \/ at[p] = "verify" /\ ssh[p] = "up"
       \/ at[p] = "lines" /\ toSend[p] = {} /\ Fortinet(on[p])
    /\ LeavePush(p, "ok")
    /\ UNCHANGED <<deviceVars, on>>

\* Any exception on the way, a Netmiko timeout above all: return False.
PushFails(p) ==
    /\ at[p] \in InPush
    /\ LeavePush(p, "failed")
    /\ UNCHANGED <<deviceVars, on>>

PushStep(p) ==
    \/ PushConnect(p) \/ PushLine(p) \/ PushLineIneffective(p)
    \/ PushSave(p) \/ PushDone(p) \/ PushFails(p)

-----------------------------------------------------------------------------
\* Environment: a device restarts with its startup configuration, and the
\* sessions to it are gone.
Reload(d) ==
    /\ reloads < MaxReloads
    /\ reloads' = reloads + 1
    /\ running' = [running EXCEPT ![d] = startup[d]]
    /\ ssh' = [p \in Procs |->
                 IF on[p] = d /\ ssh[p] = "up" THEN "lost" ELSE ssh[p]]
    /\ UNCHANGED <<startup, on, at, toSend>>

PushTypeOK ==
    /\ running \in [Devices -> SUBSET Faults]
    /\ startup \in [Devices -> SUBSET Faults]
    /\ on \in [Procs -> Devices \cup {NoDevice}]
    /\ at \in [Procs -> {"off"} \cup InPush \cup Returned]
    /\ toSend \in [Procs -> SUBSET Faults]
    /\ ssh \in [Procs -> {"none", "up", "lost"}]
    /\ reloads \in 0..MaxReloads
=============================================================================
