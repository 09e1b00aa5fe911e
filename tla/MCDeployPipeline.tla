-------------------------- MODULE MCDeployPipeline --------------------------
(* Values for TLC: an edit of NetBox takes a device out, puts another in   *)
(* and makes the sessions incompatible.                                    *)
EXTENDS DeployPipeline, TLC

MCInventory == 0 :> {1, 2} @@ 1 :> {2, 3}
MCTargets == {{1, 2}}

Symmetric == Permutations(Pipelines)
=============================================================================
