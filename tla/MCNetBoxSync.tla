----------------------------- MODULE MCNetBoxSync ----------------------------
(***************************************************************************)
(* A managed leaf and the excluded CE, joined by one link, and the AWS     *)
(* gateway: every kind of device the scripts and the generator tell apart  *)
(* but the firewall.  One overlay session stands for the three sorts of    *)
(* them: one end is looked for in the WAN section, one at the fabric's     *)
(* site.                                                                   *)
(***************************************************************************)
EXTENDS NetBoxSync, TLC

CONSTANTS leaf, ce, vpn, asnLeaf, asnCe, policy

McLab == {leaf, ce}
McManaged == {leaf}
McWan == {ce}
McPlaced == {leaf}
McLinks == {{<<leaf, "e1">>, <<ce, "g2">>}}
McLooped == {leaf, ce}
McOverlay == {{Loopback(leaf), Loopback(ce)}}
McFabrics == {{leaf}}
McObserved == {<<leaf, "e1">>}
McAsn == (leaf :> asnLeaf) @@ (ce :> asnCe)
McPolicy == {policy}

\* Bound: interfaces at a time without the address they should have, the last
\* run with one less.
MaxLeft == IF runs < MaxRuns THEN 2 ELSE 1
FewLeft == Cardinality({i \in DataPorts \cap netbox.ports : ~Exists(i)}) <= MaxLeft

Symmetry == Permutations(Operators)
=============================================================================
