--------------------------- MODULE MCAgentRunner ---------------------------
(* Values for TLC: two skills, one with no device to visit, and one device. *)
EXTENDS AgentRunner, TLC

CONSTANTS d1

MCDevices == {d1}
MCSkills == <<"branch_connectivity", "spec_compliance">>
\* There may be no branch router to check.
MCVisits == [s \in SkillNames |-> IF s = "branch_connectivity" THEN <<>> ELSE <<d1>>]
=============================================================================
