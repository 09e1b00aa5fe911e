--------------------------- MODULE MCMcpServer ---------------------------
(* Values for TLC: a managed and an excluded device, tools of all kinds.    *)
EXTENDS McpServer, TLC

CONSTANTS d1, d2

MCDevices == {d1, d2}
MCManaged == {d1}

\* d2 stands for a provider router: it has a management address but is
\* outside the agent boundary, so no sweep visits it.
MCSweep ==
    [t \in SweepTools |->
        CASE t = "check_fabric_health" -> <<d1>>
          [] t = "check_branch_connectivity" -> <<>>
          [] t = "check_spec_compliance" -> <<d1>>]

State(d) == [tool |-> "get_device_state", target |-> d]
Comply   == [tool |-> "check_spec_compliance", target |-> NoDevice]
Chaos(d) == [tool |-> "run_chaos_test", target |-> d]
Blast    == [tool |-> "blast_radius", target |-> NoDevice]

\* A device lock and the semaphore, the semaphore only, the Batfish lock only.
MCAllKinds == {State(d1), Comply, Blast}
\* A locked tool and a chaos test, whose thread visits the device three times.
MCChaos == {State(d1), Chaos(d1)}

Symmetric == Permutations(Calls) \cup Permutations(Workers)
=============================================================================
