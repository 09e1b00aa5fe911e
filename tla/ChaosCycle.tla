----------------------------- MODULE ChaosCycle -----------------------------
(***************************************************************************)
(* scripts/chaos_test.py: cycles that inject a fault into a live device,   *)
(* run the agent to see whether it is detected, and roll back by pushing   *)
(* the generated configuration (ConfigPush).  Cycles run from the command  *)
(* line or as a tool call in a thread of the MCP server, several at once,  *)
(* beside deploys (push_all_configs) of all devices.                       *)
(*                                                                         *)
(* A rollback is bounded by SIGALRM, whose handler raises TimeoutError     *)
(* wherever the main thread happens to be.  Python lets only the main      *)
(* thread install the handler: in a server thread signal.signal raises     *)
(* ValueError, before the push has started.                                *)
(***************************************************************************)
EXTENDS ConfigPush, Sequences

CONSTANTS
    Cycles,       \* chaos cycles, each run once
    Deploys,      \* runs of push_all_configs
    InThread,     \* the cycles started through the MCP server
    Managed,      \* devices inside the agent boundary: eligible targets
    Leaves,       \* those of role leaf
    DeployOrder,  \* the devices a deploy visits, in order
    NoFault

ASSUME CycleAssumption ==
    /\ Procs = Cycles \cup Deploys /\ Cycles \cap Deploys = {}
    /\ InThread \subseteq Cycles
    /\ Managed \subseteq Devices /\ Leaves \subseteq Devices
    /\ DeployOrder \in Seq(Devices)
    /\ NoFault \notin [device : Devices, type : Faults]

\* get_fault_types_for_platform over FAULT_CATALOG
FaultTypes(d) ==
    {"shut_interface", "change_ip"}
      \cup (IF Fortinet(d) THEN {} ELSE {"wrong_asn"})
      \cup (IF Platform[d] = "arista_eos" /\ d \in Leaves THEN {"remove_vni"} ELSE {})

ExpectedSkill(t) ==
    IF t \in {"shut_interface", "wrong_asn"} THEN "fabric_health" ELSE "spec_compliance"

VARIABLES
    pc,        \* where each cycle stands
    fault,     \* the fault it has selected
    injected,  \* has the device taken it?
    verdict,   \* what the expected skill reports of the target
    detected,  \* result["detected"]
    rolled,    \* result["rolled_back"]
    raised,    \* where the exception that reaches its caller comes from:
               \* "no" exception, the try's "body", or the "finally" block
    alarm,     \* SIGALRM: "off", "armed", "fired"
    nextDev,   \* how far each deploy is in DeployOrder
    fails      \* its count of failures

resultVars == <<verdict, detected, rolled, raised>>
cycleVars == <<pc, fault, injected, resultVars, alarm>>
deployVars == <<nextDev, fails>>
vars == <<deviceVars, pushVars, cycleVars, deployVars>>

Init ==
    /\ PushInit
    /\ pc = [c \in Cycles |-> "idle"]
    /\ fault = [c \in Cycles |-> NoFault]
    /\ injected = [c \in Cycles |-> FALSE]
    /\ verdict = [c \in Cycles |-> "absent"]
    /\ detected = [c \in Cycles |-> FALSE]
    /\ rolled = [c \in Cycles |-> FALSE]
    /\ raised = [c \in Cycles |-> "no"]
    /\ alarm = [c \in Cycles |-> "off"]
    /\ nextDev = [p \in Deploys |-> 1]
    /\ fails = [p \in Deploys |-> 0]

Goto(c, l) == pc' = [pc EXCEPT ![c] = l]

-----------------------------------------------------------------------------
(* The body of the try statement.                                          *)

\* select_random_fault
Select(c) ==
    /\ pc[c] = "idle"
    /\ \E d \in Managed : \E t \in FaultTypes(d) :
          /\ fault' = [fault EXCEPT ![c] = [device |-> d, type |-> t]]
          /\ on' = [on EXCEPT ![c] = d]
    /\ Goto(c, "inject")
    /\ UNCHANGED <<deviceVars, at, toSend, ssh, injected, resultVars, alarm, deployVars>>

\* Connect, send the commands of build_fault_commands, disconnect.
Inject(c) ==
    /\ pc[c] = "inject"
    /\ Configure(on[c], running[on[c]] \cup {fault[c].type})
    /\ injected' = [injected EXCEPT ![c] = TRUE]
    /\ Goto(c, "fabric_health")
    /\ UNCHANGED <<pushVars, fault, resultVars, alarm, deployVars>>

\* Only the expected skill's entry for the target is ever looked at.
Report(c, skill, v) ==
    verdict' = IF ExpectedSkill(fault[c].type) = skill
               THEN [verdict EXCEPT ![c] = v] ELSE verdict

(***************************************************************************)
(* run_fabric_health visits EOS devices only.  A shut interface, a wrong   *)
(* AS number or a wrong address takes BGP sessions down; without one they  *)
(* may still be down on account of a neighbour.  Then                      *)
(* run_branch_connectivity, which no fault names as its expected skill.    *)
(***************************************************************************)
CheckFabric(c) ==
    /\ pc[c] = "fabric_health"
    /\ \/ /\ Platform[on[c]] # "arista_eos"
          /\ Report(c, "fabric_health", "absent")
       \/ /\ Platform[on[c]] = "arista_eos"
          /\ \E v \in {"unreachable", "clean", "faulty"} :
                /\ v = "clean" => running[on[c]] \subseteq {"remove_vni"}
                /\ Report(c, "fabric_health", v)
    /\ Goto(c, "spec_compliance")
    /\ UNCHANGED <<deviceVars, pushVars, fault, injected, detected, rolled, raised,
                   alarm, deployVars>>

CheckComplianceBug(c) ==  \* a device without an answer reads as faulty
    /\ pc[c] = "spec_compliance"
    /\ \E v \in {"unreachable", "clean", "faulty"} :
          /\ v = "clean" => "change_ip" \notin running[on[c]] \/ Fortinet(on[c])
          /\ v = "faulty" => "change_ip" \in running[on[c]] \/ Fortinet(on[c])
          /\ Report(c, "spec_compliance", v)
    /\ detected' = [detected EXCEPT ![c] = verdict'[c] # "clean"]
    /\ Goto(c, "rollback")
    /\ UNCHANGED <<deviceVars, pushVars, fault, injected, rolled, raised,
                   alarm, deployVars>>

(***************************************************************************)
(* run_spec_compliance compares addresses (and the local AS number, which  *)
(* no fault changes).  Of a standby FortiGate it keeps the management port *)
(* only and then misses every other interface of the spec: drifts without  *)
(* a fault.  Which unit is standby changes by failover.                    *)
(* verify_detection: no entry and no verdict read as healthy.              *)
(***************************************************************************)
CheckCompliance(c) ==
    /\ pc[c] = "spec_compliance"
    /\ \E v \in {"unreachable", "clean", "faulty"} :
          /\ v = "clean" => "change_ip" \notin running[on[c]] \/ Fortinet(on[c])
          /\ v = "faulty" => "change_ip" \in running[on[c]] \/ Fortinet(on[c])
          /\ Report(c, "spec_compliance", v)
    /\ detected' = [detected EXCEPT ![c] = verdict'[c] = "faulty"]
    /\ Goto(c, "rollback")
    /\ UNCHANGED <<deviceVars, pushVars, fault, injected, rolled, raised,
                   alarm, deployVars>>

Body == {"inject", "fabric_health", "spec_compliance"}

BodyRaisesBug(c) ==  \* rollback after the body instead of in its finally
    /\ pc[c] \in Body
    /\ raised' = [raised EXCEPT ![c] = "body"]
    /\ verdict' = [verdict EXCEPT ![c] = "absent"]
    /\ Goto(c, "ended")
    /\ UNCHANGED <<deviceVars, pushVars, fault, injected, detected, rolled, alarm,
                   deployVars>>

\* The body raises: a failed connection, a crash of the agent, Ctrl-C.
BodyRaises(c) ==
    /\ pc[c] \in Body
    /\ raised' = [raised EXCEPT ![c] = "body"]
    /\ verdict' = [verdict EXCEPT ![c] = "absent"]
    /\ Goto(c, "rollback")
    /\ UNCHANGED <<deviceVars, pushVars, fault, injected, detected, rolled, alarm,
                   deployVars>>

-----------------------------------------------------------------------------
(* The finally block: rollback_fault.                                      *)

\* No address or no file: return False.
RollbackImpossible(c) ==
    /\ pc[c] = "rollback" /\ on[c] \notin Configured
    /\ Goto(c, "ended")
    /\ UNCHANGED <<deviceVars, pushVars, fault, injected, resultVars, alarm, deployVars>>

\* The finally block breaks off before the push: Ctrl-C while it disconnects
\* (contextlib.suppress is for an Exception), credentials that are gone, a
\* file of addresses that cannot be read.
FinallyRaises(c) ==
    /\ pc[c] = "rollback"
    /\ raised' = [raised EXCEPT ![c] = "finally"]
    /\ Goto(c, "ended")
    /\ UNCHANGED <<deviceVars, pushVars, fault, injected, verdict, detected, rolled,
                   alarm, deployVars>>

\* signal.signal raises ValueError outside the main thread.
RollbackInThread(c) ==
    /\ pc[c] = "rollback" /\ on[c] \in Configured /\ c \in InThread
    /\ raised' = [raised EXCEPT ![c] = "finally"]
    /\ Goto(c, "ended")
    /\ UNCHANGED <<deviceVars, pushVars, fault, injected, verdict, detected, rolled,
                   alarm, deployVars>>

\* Arm the alarm, enter push_config_to_device.
Rollback(c) ==
    /\ pc[c] = "rollback" /\ on[c] \in Configured /\ c \notin InThread
    /\ alarm' = [alarm EXCEPT ![c] = "armed"]
    /\ at' = [at EXCEPT ![c] = "connect"]
    /\ verdict' = [verdict EXCEPT ![c] = "absent"]
    /\ Goto(c, "pushing")
    /\ UNCHANGED <<deviceVars, on, toSend, ssh, fault, injected, detected, rolled,
                   raised, deployVars>>

(***************************************************************************)
(* The handler raises TimeoutError.  In the push, its own "except          *)
(* Exception" turns that into a failed push; in the FortiOS loop, between  *)
(* a line and the next, "except Exception: pass" may swallow it.  Once the *)
(* push has returned, "except OSError" around signal.alarm(0) does.        *)
(***************************************************************************)
AlarmFires(c) ==
    /\ alarm[c] = "armed"
    /\ alarm' = [alarm EXCEPT ![c] = "fired"]
    /\ \/ /\ at[c] \in InPush
          /\ LeavePush(c, "failed")
       \/ /\ at[c] = "lines" /\ Fortinet(on[c])
          /\ UNCHANGED <<at, ssh, toSend>>
       \/ /\ at[c] \in Returned
          /\ UNCHANGED <<at, ssh, toSend>>
    /\ UNCHANGED <<deviceVars, on, pc, fault, injected, resultVars, deployVars>>

EndArmedBug(c) ==  \* alarm cancelled only after a successful push
    /\ pc[c] = "pushing" /\ at[c] \in Returned
    /\ alarm' = [alarm EXCEPT ![c] = IF at[c] = "ok" THEN "off" ELSE @]
    /\ rolled' = [rolled EXCEPT ![c] = at[c] = "ok"]
    /\ Goto(c, "ended")
    /\ UNCHANGED <<deviceVars, pushVars, fault, injected, verdict, detected, raised,
                   deployVars>>

EndTrueBug(c) ==  \* the push's answer not looked at
    /\ pc[c] = "pushing" /\ at[c] \in Returned
    /\ alarm' = [alarm EXCEPT ![c] = "off"]
    /\ rolled' = [rolled EXCEPT ![c] = TRUE]
    /\ Goto(c, "ended")
    /\ UNCHANGED <<deviceVars, pushVars, fault, injected, verdict, detected, raised,
                   deployVars>>

EndRetryBug(c) ==  \* a failed rollback tried again, without limit
    /\ pc[c] = "pushing" /\ at[c] \in Returned
    /\ alarm' = [alarm EXCEPT ![c] = "off"]
    /\ rolled' = [rolled EXCEPT ![c] = at[c] = "ok"]
    /\ Goto(c, IF at[c] = "ok" THEN "ended" ELSE "rollback")
    /\ UNCHANGED <<deviceVars, pushVars, fault, injected, verdict, detected, raised,
                   deployVars>>

\* signal.alarm(0), return to the caller.
End(c) ==
    /\ pc[c] = "pushing" /\ at[c] \in Returned
    /\ alarm' = [alarm EXCEPT ![c] = "off"]
    /\ rolled' = [rolled EXCEPT ![c] = at[c] = "ok"]
    /\ Goto(c, "ended")
    /\ UNCHANGED <<deviceVars, pushVars, fault, injected, verdict, detected, raised,
                   deployVars>>

\* Ctrl-C is no Exception: it leaves the push, or what follows it and, past
\* signal.alarm(0), the program.
InterruptRollback(c) ==
    /\ pc[c] = "pushing"
    /\ \/ at[c] \in InPush /\ LeavePush(c, "failed")
       \/ at[c] \in Returned /\ UNCHANGED <<at, ssh, toSend>>
    /\ alarm' = [alarm EXCEPT ![c] = "off"]
    /\ raised' = [raised EXCEPT ![c] = "finally"]
    /\ Goto(c, "ended")
    /\ UNCHANGED <<deviceVars, on, fault, injected, verdict, detected, rolled, deployVars>>

\* The process is killed, or the MCP server stops: no finally runs.
Kill(c) ==
    /\ pc[c] \notin {"idle", "ended", "killed"}
    /\ Goto(c, "killed")
    /\ LeavePush(c, "off")
    /\ alarm' = [alarm EXCEPT ![c] = "off"]
    /\ UNCHANGED <<deviceVars, on, fault, injected, resultVars, deployVars>>

-----------------------------------------------------------------------------
(* push_all_configs: one device after the other, failures counted.         *)

DeployMore(p) == nextDev[p] <= Len(DeployOrder)

\* No management address, or no file: a failure without a session.
DeploySkips(p) ==
    /\ DeployMore(p) /\ at[p] = "off" /\ DeployOrder[nextDev[p]] \notin Configured
    /\ fails' = [fails EXCEPT ![p] = @ + 1]
    /\ nextDev' = [nextDev EXCEPT ![p] = @ + 1]
    /\ UNCHANGED <<deviceVars, pushVars, cycleVars>>

DeployNext(p) ==
    /\ DeployMore(p) /\ at[p] = "off" /\ DeployOrder[nextDev[p]] \in Configured
    /\ on' = [on EXCEPT ![p] = DeployOrder[nextDev[p]]]
    /\ at' = [at EXCEPT ![p] = "connect"]
    /\ UNCHANGED <<deviceVars, toSend, ssh, cycleVars, deployVars>>

DeployCountsBug(p) ==  \* a failed device is pushed again, without limit
    /\ at[p] \in Returned
    /\ fails' = [fails EXCEPT ![p] = IF at[p] = "ok" THEN @ ELSE @ + 1]
    /\ nextDev' = [nextDev EXCEPT ![p] = IF at[p] = "ok" THEN @ + 1 ELSE @]
    /\ at' = [at EXCEPT ![p] = "off"]
    /\ UNCHANGED <<deviceVars, on, toSend, ssh, cycleVars>>

DeployCounts(p) ==
    /\ at[p] \in Returned
    /\ fails' = [fails EXCEPT ![p] = IF at[p] = "ok" THEN @ ELSE @ + 1]
    /\ nextDev' = [nextDev EXCEPT ![p] = @ + 1]
    /\ at' = [at EXCEPT ![p] = "off"]
    /\ UNCHANGED <<deviceVars, on, toSend, ssh, cycleVars>>

-----------------------------------------------------------------------------
PushBy(p) == PushStep(p) /\ UNCHANGED <<cycleVars, deployVars>>

\* What a cycle does of itself, or its timeouts make it do.
CycleStep(c) ==
    \/ Inject(c) \/ CheckFabric(c) \/ CheckCompliance(c) \/ BodyRaises(c)
    \/ RollbackImpossible(c) \/ RollbackInThread(c) \/ Rollback(c) \/ End(c)
    \/ PushBy(c)

DeployStep(p) == DeploySkips(p) \/ DeployNext(p) \/ DeployCounts(p) \/ PushBy(p)

Next ==
    \/ \E c \in Cycles :
          \/ Select(c) \/ CycleStep(c)
          \/ FinallyRaises(c) \/ AlarmFires(c) \/ InterruptRollback(c) \/ Kill(c)
    \/ \E p \in Deploys : DeployStep(p)
    \/ \E d \in Devices : Reload(d) /\ UNCHANGED <<cycleVars, deployVars>>

Spec == Init /\ [][Next]_vars

(***************************************************************************)
(* Fairness: every process runs on, because every blocking call of Netmiko *)
(* ends, by an answer or by its own timeout.  No step of the environment   *)
(* (alarm, Ctrl-C, failing finally block, kill, restart) is owed.          *)
(***************************************************************************)
Fairness ==
    /\ \A c \in Cycles : WF_vars(CycleStep(c))
    /\ \A p \in Deploys : WF_vars(DeployStep(p))

FairSpec == Spec /\ Fairness

-----------------------------------------------------------------------------
\* Every variable keeps its type; a deploy counts no device twice.
TypeOK ==
    /\ PushTypeOK
    /\ pc \in [Cycles -> {"idle", "rollback", "pushing", "ended", "killed"} \cup Body]
    /\ fault \in [Cycles -> [device : Devices, type : Faults] \cup {NoFault}]
    /\ injected \in [Cycles -> BOOLEAN]
    /\ verdict \in [Cycles -> {"absent", "unreachable", "clean", "faulty"}]
    /\ detected \in [Cycles -> BOOLEAN]
    /\ rolled \in [Cycles -> BOOLEAN]
    /\ raised \in [Cycles -> {"no", "body", "finally"}]
    /\ alarm \in [Cycles -> {"off", "armed", "fired"}]
    /\ nextDev \in [Deploys -> 1..(Len(DeployOrder) + 1)]
    /\ fails \in [Deploys -> 0..Len(DeployOrder)]
-----------------------------------------------------------------------------
(* Safety.                                                                 *)

Over(c) == pc[c] \in {"ended", "killed"}

\* Somebody answers for fault f on device d: the cycle that injected it is
\* still at work, or was killed, or has not claimed to have rolled back.
Answered(d, f) ==
    \E c \in Cycles :
        /\ fault[c] = [device |-> d, type |-> f] /\ injected[c]
        /\ ~(pc[c] = "ended" /\ rolled[c])

\* A device that takes or refuses every line in an answer the push waits
\* for, and refuses none: FortiOS is written to without waiting.
Reliable(d) == ~Fortinet(d) /\ ~Rejections

\* A rollback that reports success has removed its fault, whatever other
\* cycles, deploys and restarts of the device come in between: on a reliable
\* device a fault the generated file can take back is there only while it is
\* answered for.
FaultsAnswered ==
    \A d \in Devices : Reliable(d) =>
        \A f \in running[d] \cap Restores(d) : Answered(d, f)

\* The same of the startup configuration: "write memory" may save somebody
\* else's fault, but not for good.
SavedFaultsAnswered ==
    \A d \in Devices : Reliable(d) =>
        \A f \in startup[d] \cap Restores(d) : Answered(d, f)

\* The finally block: whatever the body raises, a crash of the agent or
\* Ctrl-C, a cycle that ends has pushed the configuration back or tried to.
\* Only an exception of the finally block itself can come in between, and
\* that one reaches the caller: no cycle gives up in silence.
RollbackAttempted ==
    \A c \in Cycles : pc[c] = "ended" /\ on[c] \in Configured =>
        at[c] \in Returned \/ raised[c] = "finally"

\* "Rollback is guaranteed via try/finally even if the agent crashes":
\* a cycle that has ended has pushed the configuration back, or tried to.
RollbackGuaranteed ==
    \A c \in Cycles :
        pc[c] = "ended" /\ on[c] \in Configured => at[c] \in Returned

\* On EOS and IOS-XE a drift is detected only where some cycle has caused
\* one: nothing but a changed address counts, a device that cannot be reached
\* least of all.  It may be another cycle's: a VNI removed is "detected" by
\* that alone.  A FortiGate is left out: see CheckCompliance.
DetectionSound ==
    \A c \in Cycles :
        /\ detected[c] /\ ~Fortinet(on[c])
        /\ ExpectedSkill(fault[c].type) = "spec_compliance"
        => \E k \in Cycles :
                injected[k] /\ fault[k] = [device |-> on[c], type |-> "change_ip"]

\* The alarm can go off only inside the rollback it bounds: a TimeoutError
\* out of nowhere would hit whatever the process does next.
AlarmScoped == \A c \in Cycles : alarm[c] = "armed" => pc[c] = "pushing"

-----------------------------------------------------------------------------
(* Liveness.                                                               *)

\* Every cycle comes to its end: neither a device that never answers nor an
\* exception, of the body or of the finally block, can hold it up.
EveryCycleEnds == \A c \in Cycles : pc[c] # "idle" ~> Over(c)
=============================================================================
