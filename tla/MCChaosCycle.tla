---------------------------- MODULE MCChaosCycle ----------------------------
(* Values for TLC: chaos cycles beside a deploy, on one or two devices.     *)
EXTENDS ChaosCycle, TLC

CONSTANTS ce, leaf, fw

MCRouter == {ce}
MCLeaf == {leaf}
MCFirewall == {fw}
MCTwo == {ce, leaf}
MCMixed == {leaf, fw}

MCPlatform ==
    [d \in Devices |->
        CASE d = ce -> "cisco_iosxe"
          [] d = leaf -> "arista_eos"
          [] d = fw -> "fortinet_fortios"]

MCKinds == {"shut_interface", "wrong_asn", "remove_vni", "change_ip"}
MCProcs == Cycles \cup Deploys
MCLeaves == Devices \cap {leaf}
MCOneDevice == <<CHOOSE d \in Devices : TRUE>>
MCDeployTwo == <<leaf, ce>>
MCDeployMixed == <<leaf, fw>>

Symmetric == Permutations(Cycles)
=============================================================================
