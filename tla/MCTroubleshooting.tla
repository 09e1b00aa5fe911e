-------------------------- MODULE MCTroubleshooting --------------------------
(* Values for TLC: two users of the troubleshooting laboratory.            *)
EXTENDS Troubleshooting, TLC

MCDevices == {"dc-ce-1", "dr-ce-1", "dc-border-1", "dc-leaf-1", "dc-leaf-2", "dc-spine-1"}
MCPlatform ==
    [d \in Devices |-> IF d \in {"dc-ce-1", "dr-ce-1"} THEN "cisco_iosxe" ELSE "arista_eos"]

\* Everything a scenario does; a chaos test's faults are left out.
MCKinds == Faults \ {"change_ip", "wrong_asn"}

\* Any two commands; and three about scenarios that meet on one router, on
\* one fault or on two devices.
MCMeeting ==
    {"wan_localpref_reversed", "wan_bgp_timer_mismatch", "wan_prefix_filter_typo",
     "wan_md5_auth_mismatch", "l1_iface_admin_down", "multi_fault_localpref_and_iface"}
MCExercises ==
    {[scenarios |-> DOMAIN Scenario, commands |-> 2],
     [scenarios |-> MCMeeting, commands |-> 3]}

Symmetric == Permutations(Procs)
=============================================================================
