------------------------- MODULE ChaosCycle_proofs -------------------------
(***************************************************************************)
(* Proofs about ChaosCycle, for any devices, cycles, deploys and number of *)
(* restarts.                                                               *)
(*                                                                         *)
(* That every fault is answered for is not inductive: a cycle that ends    *)
(* must know that its fault is gone.  RunningOwed and StartupOwed say who  *)
(* still owes a fault that is there: a cycle whose push has not yet taken  *)
(* it back.  No cycle past that line counts, so that two cycles cannot     *)
(* name each other and both end.                                           *)
(***************************************************************************)
EXTENDS ChaosCycle, TLAPS

-----------------------------------------------------------------------------
(* The inductive invariant.                                                *)

\* A cycle pushes only from its finally block, and rolled_back is set by it.
Phase ==
    /\ \A c \in Cycles : pc[c] \in {"idle", "rollback"} \cup Body => at[c] = "off"
    /\ \A c \in Cycles : pc[c] # "idle" => fault[c] # NoFault /\ on[c] = fault[c].device
    /\ \A p \in Procs : at[p] # "off" => on[p] \in Devices
    /\ \A c \in Cycles : at[c] \in InPush => pc[c] = "pushing"
    /\ \A c \in Cycles : pc[c] = "pushing" => at[c] \in InPush \cup Returned
    /\ \A c \in Cycles : pc[c] = "idle" => ~injected[c] /\ ~detected[c]
    /\ \A c \in Cycles : rolled[c] => pc[c] = "ended" /\ at[c] = "ok"

\* A deploy that pushes is not through its list.
DeployPhase ==
    \A p \in Deploys : fails[p] < nextDev[p] /\ (at[p] # "off" => DeployMore(p))

\* The push of cycle k has taken its fault out of the running configuration,
\* and out of the startup configuration.
TakenBack(k) ==
    \/ at[k] = "lines" /\ ssh[k] = "up" /\ fault[k].type \notin toSend[k]
    \/ at[k] = "verify" /\ ssh[k] = "up"
    \/ at[k] = "ok"

TakenBackSaved(k) == (at[k] = "verify" /\ ssh[k] = "up") \/ at[k] = "ok"

Injected(k, d, f) == injected[k] /\ fault[k] = [device |-> d, type |-> f]

RunningOwed ==
    \A d \in Devices : Reliable(d) =>
        \A f \in running[d] \cap Restores(d) :
            \E k \in Cycles : Injected(k, d, f) /\ ~TakenBack(k)

StartupOwed ==
    \A d \in Devices : Reliable(d) =>
        \A f \in startup[d] \cap Restores(d) :
            \E k \in Cycles : Injected(k, d, f) /\ ~TakenBackSaved(k)

\* No fault comes from anywhere but an injection.
FaultsInjected ==
    \A d \in Devices : \A f \in running[d] \cup startup[d] :
        \E k \in Cycles : Injected(k, d, f)

\* verify_detection reads what the expected skill, and no other, has said.
VerdictFresh ==
    \A c \in Cycles :
        /\ pc[c] \in {"idle", "inject", "fabric_health"} => verdict[c] = "absent"
        /\ pc[c] = "spec_compliance" /\ ExpectedSkill(fault[c].type) = "spec_compliance"
              => verdict[c] = "absent"
-----------------------------------------------------------------------------
(* Types.                                                                  *)

LEMMA Restorable ==
  ASSUME NEW d \in Devices
  PROVE  Restores(d) \subseteq Faults /\ FaultTypes(d) \subseteq Faults
BY PushAssumption DEF Restores, Faults, Place, Platforms, FaultTypes

LEMMA TypeInit == Init => TypeOK
<1> SUFFICES ASSUME Init PROVE TypeOK
  OBVIOUS
<1>1. PushTypeOK
  BY PushAssumption DEF Init, PushInit, PushTypeOK
<1>2. Len(DeployOrder) \in Nat
  BY CycleAssumption
<1>3. QED
  BY <1>1, <1>2 DEF Init, TypeOK

LEMMA TypeStep == TypeOK /\ Phase /\ DeployPhase /\ [Next]_vars => TypeOK'
<1> SUFFICES ASSUME TypeOK, Phase, DeployPhase, [Next]_vars PROVE TypeOK'
  OBVIOUS
<1> USE DEF TypeOK, PushTypeOK, Goto, InPush, Returned, Body,
            deviceVars, pushVars, cycleVars, resultVars, deployVars
<1>0. Cycles \subseteq Procs /\ Deploys \subseteq Procs /\ Cycles \cap Deploys = {}
  BY CycleAssumption
<1>1. ASSUME NEW c \in Cycles, Select(c) PROVE TypeOK'
  <2>1. PICK d \in Managed : \E t \in FaultTypes(d) :
          /\ fault' = [fault EXCEPT ![c] = [device |-> d, type |-> t]]
          /\ on' = [on EXCEPT ![c] = d]
    BY <1>1 DEF Select
  <2>2. d \in Devices
    BY CycleAssumption
  <2>3. PICK t \in Faults : fault' = [fault EXCEPT ![c] = [device |-> d, type |-> t]]
    BY <2>1, <2>2, Restorable
  <2>4. QED
    BY <1>0, <1>1, <2>1, <2>2, <2>3 DEF Select
<1>2. ASSUME NEW c \in Cycles, Inject(c) PROVE TypeOK'
  <2>1. on[c] \in Devices /\ fault[c].type \in Faults
    BY <1>2 DEF Inject, Phase
  <2>2. QED
    BY <1>0, <1>2, <2>1 DEF Inject, Configure
<1>3. ASSUME NEW c \in Cycles, CheckFabric(c) PROVE TypeOK'
  BY <1>0, <1>3 DEF CheckFabric, Report
<1>4. ASSUME NEW c \in Cycles, CheckCompliance(c) PROVE TypeOK'
  BY <1>0, <1>4 DEF CheckCompliance, Report
<1>5. ASSUME NEW c \in Cycles, BodyRaises(c) PROVE TypeOK'
  BY <1>0, <1>5 DEF BodyRaises
<1>6. ASSUME NEW c \in Cycles, RollbackImpossible(c) PROVE TypeOK'
  BY <1>0, <1>6 DEF RollbackImpossible
<1>7. ASSUME NEW c \in Cycles, RollbackInThread(c) PROVE TypeOK'
  BY <1>0, <1>7 DEF RollbackInThread
<1>7a. ASSUME NEW c \in Cycles, FinallyRaises(c) PROVE TypeOK'
  BY <1>0, <1>7a DEF FinallyRaises
<1>8. ASSUME NEW c \in Cycles, Rollback(c) PROVE TypeOK'
  BY <1>0, <1>8 DEF Rollback
<1>9. ASSUME NEW c \in Cycles, End(c) PROVE TypeOK'
  BY <1>0, <1>9 DEF End
<1>10. ASSUME NEW c \in Cycles, AlarmFires(c) PROVE TypeOK'
  <2>1. /\ at' \in [Procs -> {"off"} \cup InPush \cup Returned]
        /\ ssh' \in [Procs -> {"none", "up", "lost"}]
        /\ toSend' \in [Procs -> SUBSET Faults]
    <3>1. CASE UNCHANGED <<at, ssh, toSend>>
      BY <3>1
    <3>2. CASE LeavePush(c, "failed")
      BY <1>0, <3>2 DEF LeavePush
    <3>3. QED
      BY <1>10, <3>1, <3>2 DEF AlarmFires
  <2>2. alarm' \in [Cycles -> {"off", "armed", "fired"}]
    BY <1>10 DEF AlarmFires
  <2>3. QED
    BY <1>10, <2>1, <2>2 DEF AlarmFires
<1>11. ASSUME NEW c \in Cycles, InterruptRollback(c) PROVE TypeOK'
  <2>1. CASE LeavePush(c, "failed")
    BY <1>0, <1>11, <2>1 DEF InterruptRollback, LeavePush
  <2>2. CASE UNCHANGED <<at, ssh, toSend>>
    BY <1>0, <1>11, <2>2 DEF InterruptRollback
  <2>3. QED
    BY <1>11, <2>1, <2>2 DEF InterruptRollback
<1>12. ASSUME NEW c \in Cycles, Kill(c) PROVE TypeOK'
  BY <1>0, <1>12 DEF Kill, LeavePush
<1>13. ASSUME NEW p \in Procs, PushConnect(p), UNCHANGED <<cycleVars, deployVars>> PROVE TypeOK'
  <2>1. on[p] \in Devices
    BY <1>13 DEF PushConnect, Phase
  <2>2. QED
    BY <1>13, <2>1, Restorable DEF PushConnect
<1>14. ASSUME NEW p \in Procs, PushLine(p), UNCHANGED <<cycleVars, deployVars>> PROVE TypeOK'
  <2>1. on[p] \in Devices
    BY <1>14 DEF PushLine, Phase
  <2>2. QED
    BY <1>14, <2>1 DEF PushLine, Configure
<1>15. ASSUME NEW p \in Procs, PushLineIneffective(p), UNCHANGED <<cycleVars, deployVars>> PROVE TypeOK'
  BY <1>15, Restorable DEF PushLineIneffective
<1>16. ASSUME NEW p \in Procs, PushSave(p), UNCHANGED <<cycleVars, deployVars>> PROVE TypeOK'
  BY <1>16, Restorable DEF PushSave
<1>17. ASSUME NEW p \in Procs, PushDone(p), UNCHANGED <<cycleVars, deployVars>> PROVE TypeOK'
  BY <1>17, Restorable DEF PushDone, LeavePush
<1>18. ASSUME NEW p \in Procs, PushFails(p), UNCHANGED <<cycleVars, deployVars>> PROVE TypeOK'
  BY <1>18, Restorable DEF PushFails, LeavePush
<1>19. ASSUME NEW p \in Deploys, DeploySkips(p) PROVE TypeOK'
  BY <1>0, <1>19, CycleAssumption DEF DeploySkips, DeployPhase, DeployMore
<1>20. ASSUME NEW p \in Deploys, DeployNext(p) PROVE TypeOK'
  BY <1>0, <1>20, CycleAssumption DEF DeployNext, DeployPhase, DeployMore
<1>21. ASSUME NEW p \in Deploys, DeployCounts(p) PROVE TypeOK'
  <2>1. /\ Len(DeployOrder) \in Nat
        /\ nextDev[p] \in Nat /\ fails[p] \in Nat
        /\ fails[p] < nextDev[p] /\ nextDev[p] <= Len(DeployOrder)
    BY <1>21, CycleAssumption DEF DeployCounts, DeployPhase, DeployMore
  <2>2. nextDev' \in [Deploys -> 1..(Len(DeployOrder) + 1)]
    BY <1>21, <2>1 DEF DeployCounts
  <2>3. fails' \in [Deploys -> 0..Len(DeployOrder)]
    BY <1>21, <2>1 DEF DeployCounts
  <2>4. at' \in [Procs -> {"off"} \cup InPush \cup Returned]
    BY <1>21 DEF DeployCounts
  <2>5. QED
    BY <1>21, <2>2, <2>3, <2>4 DEF DeployCounts
<1>22. ASSUME NEW d \in Devices, Reload(d), UNCHANGED <<cycleVars, deployVars>> PROVE TypeOK'
  BY <1>22, PushAssumption DEF Reload
<1>23. CASE UNCHANGED vars
  BY <1>23 DEF vars
<1>24. QED
  BY <1>0, <1>1, <1>2, <1>3, <1>4, <1>5, <1>6, <1>7, <1>7a, <1>8, <1>9, <1>10, <1>11,
     <1>12, <1>13, <1>14, <1>15, <1>16, <1>17, <1>18, <1>19, <1>20, <1>21, <1>22, <1>23
     DEF Next, CycleStep, DeployStep, PushBy, PushStep

-----------------------------------------------------------------------------
(* Where cycles, pushes and deploys stand.                                 *)

LEMMA PhaseInit == Init => Phase /\ DeployPhase
BY CycleAssumption DEF Init, PushInit, Phase, DeployPhase, InPush, Body

LEMMA PhaseStep == TypeOK /\ Phase /\ [Next]_vars => Phase'
<1> SUFFICES ASSUME TypeOK, Phase, [Next]_vars PROVE Phase'
  OBVIOUS
<1> USE DEF TypeOK, PushTypeOK, Phase, Goto, InPush, Returned, Body,
            deviceVars, pushVars, cycleVars, resultVars, deployVars
<1>0. Cycles \subseteq Procs /\ Deploys \subseteq Procs /\ Cycles \cap Deploys = {}
  BY CycleAssumption
<1>1. ASSUME NEW c \in Cycles, Select(c) PROVE Phase'
  <2>1. PICK d \in Devices, t \in Faults :
          /\ fault' = [fault EXCEPT ![c] = [device |-> d, type |-> t]]
          /\ on' = [on EXCEPT ![c] = d]
    <3>1. Managed \subseteq Devices
      BY CycleAssumption
    <3>2. QED
      BY <1>1, <3>1, Restorable DEF Select
  <2>2. /\ [device |-> d, type |-> t] # NoFault
        /\ [device |-> d, type |-> t].device = d
    BY CycleAssumption
  <2>3. /\ fault'[c] = [device |-> d, type |-> t] /\ on'[c] = d
        /\ \A k \in Procs \ {c} : on'[k] = on[k]
        /\ \A k \in Cycles \ {c} : fault'[k] = fault[k] /\ pc'[k] = pc[k]
        /\ pc'[c] = "inject"
    BY <1>0, <1>1, <2>1 DEF Select
  <2>4. QED
    BY <1>0, <1>1, <2>2, <2>3 DEF Select
<1>2. ASSUME NEW c \in Cycles, Inject(c) PROVE Phase'
  BY <1>0, <1>2 DEF Inject, Configure
<1>3. ASSUME NEW c \in Cycles, CheckFabric(c) PROVE Phase'
  BY <1>0, <1>3 DEF CheckFabric, Report
<1>4. ASSUME NEW c \in Cycles, CheckCompliance(c) PROVE Phase'
  BY <1>0, <1>4 DEF CheckCompliance, Report
<1>5. ASSUME NEW c \in Cycles, BodyRaises(c) PROVE Phase'
  BY <1>0, <1>5 DEF BodyRaises
<1>6. ASSUME NEW c \in Cycles, RollbackImpossible(c) PROVE Phase'
  BY <1>0, <1>6 DEF RollbackImpossible
<1>7. ASSUME NEW c \in Cycles, RollbackInThread(c) PROVE Phase'
  BY <1>0, <1>7 DEF RollbackInThread
<1>7a. ASSUME NEW c \in Cycles, FinallyRaises(c) PROVE Phase'
  BY <1>0, <1>7a DEF FinallyRaises
<1>8. ASSUME NEW c \in Cycles, Rollback(c) PROVE Phase'
  BY <1>0, <1>8 DEF Rollback
<1>9. ASSUME NEW c \in Cycles, End(c) PROVE Phase'
  BY <1>0, <1>9 DEF End
<1>10. ASSUME NEW c \in Cycles, AlarmFires(c) PROVE Phase'
  <2>1. CASE UNCHANGED <<at, ssh, toSend>>
    BY <1>0, <1>10, <2>1 DEF AlarmFires
  <2>2. CASE at[c] \in InPush /\ LeavePush(c, "failed")
    BY <1>0, <1>10, <2>2 DEF AlarmFires, LeavePush
  <2>3. QED
    BY <1>10, <2>1, <2>2 DEF AlarmFires
<1>11. ASSUME NEW c \in Cycles, InterruptRollback(c) PROVE Phase'
  BY <1>0, <1>11 DEF InterruptRollback, LeavePush
<1>12. ASSUME NEW c \in Cycles, Kill(c) PROVE Phase'
  BY <1>0, <1>12 DEF Kill, LeavePush
<1>13. ASSUME NEW p \in Procs, PushConnect(p), UNCHANGED <<cycleVars, deployVars>> PROVE Phase'
  BY <1>0, <1>13 DEF PushConnect
<1>14. ASSUME NEW p \in Procs, PushLine(p), UNCHANGED <<cycleVars, deployVars>> PROVE Phase'
  BY <1>0, <1>14 DEF PushLine, Configure
<1>15. ASSUME NEW p \in Procs, PushLineIneffective(p), UNCHANGED <<cycleVars, deployVars>> PROVE Phase'
  BY <1>0, <1>15 DEF PushLineIneffective
<1>16. ASSUME NEW p \in Procs, PushSave(p), UNCHANGED <<cycleVars, deployVars>> PROVE Phase'
  BY <1>0, <1>16 DEF PushSave
<1>17. ASSUME NEW p \in Procs, PushDone(p), UNCHANGED <<cycleVars, deployVars>> PROVE Phase'
  BY <1>0, <1>17 DEF PushDone, LeavePush
<1>18. ASSUME NEW p \in Procs, PushFails(p), UNCHANGED <<cycleVars, deployVars>> PROVE Phase'
  BY <1>0, <1>18 DEF PushFails, LeavePush
<1>19. ASSUME NEW p \in Deploys, DeploySkips(p) PROVE Phase'
  BY <1>0, <1>19 DEF DeploySkips
<1>20. ASSUME NEW p \in Deploys, DeployNext(p) PROVE Phase'
  <2>1. DeployOrder[nextDev[p]] \in Devices
    BY <1>20, PushAssumption DEF DeployNext
  <2>2. QED
    BY <1>0, <1>20, <2>1 DEF DeployNext
<1>21. ASSUME NEW p \in Deploys, DeployCounts(p) PROVE Phase'
  BY <1>0, <1>21 DEF DeployCounts
<1>22. ASSUME NEW d \in Devices, Reload(d), UNCHANGED <<cycleVars, deployVars>> PROVE Phase'
  BY <1>0, <1>22 DEF Reload
<1>23. CASE UNCHANGED vars
  BY <1>0, <1>23 DEF vars
<1>24. QED
  BY <1>0, <1>1, <1>2, <1>3, <1>4, <1>5, <1>6, <1>7, <1>7a, <1>8, <1>9, <1>10, <1>11,
     <1>12, <1>13, <1>14, <1>15, <1>16, <1>17, <1>18, <1>19, <1>20, <1>21, <1>22, <1>23
     DEF Next, CycleStep, DeployStep, PushBy, PushStep

LEMMA DeployPhaseStep == TypeOK /\ Phase /\ DeployPhase /\ [Next]_vars => DeployPhase'
<1> SUFFICES ASSUME TypeOK, Phase, DeployPhase, [Next]_vars PROVE DeployPhase'
  OBVIOUS
<1> USE DEF TypeOK, PushTypeOK, DeployPhase, DeployMore, Goto, InPush, Returned, Body,
            deviceVars, pushVars, cycleVars, resultVars, deployVars
<1>0. Cycles \subseteq Procs /\ Deploys \subseteq Procs /\ Cycles \cap Deploys = {}
  BY CycleAssumption
<1>1. ASSUME NEW c \in Cycles, Select(c) PROVE DeployPhase'
  BY <1>0, <1>1 DEF Select
<1>2. ASSUME NEW c \in Cycles, Inject(c) PROVE DeployPhase'
  BY <1>0, <1>2 DEF Inject, Configure
<1>3. ASSUME NEW c \in Cycles, CheckFabric(c) PROVE DeployPhase'
  BY <1>0, <1>3 DEF CheckFabric, Report
<1>4. ASSUME NEW c \in Cycles, CheckCompliance(c) PROVE DeployPhase'
  BY <1>0, <1>4 DEF CheckCompliance, Report
<1>5. ASSUME NEW c \in Cycles, BodyRaises(c) PROVE DeployPhase'
  BY <1>0, <1>5 DEF BodyRaises
<1>6. ASSUME NEW c \in Cycles, RollbackImpossible(c) PROVE DeployPhase'
  BY <1>0, <1>6 DEF RollbackImpossible
<1>7. ASSUME NEW c \in Cycles, RollbackInThread(c) PROVE DeployPhase'
  BY <1>0, <1>7 DEF RollbackInThread
<1>7a. ASSUME NEW c \in Cycles, FinallyRaises(c) PROVE DeployPhase'
  BY <1>0, <1>7a DEF FinallyRaises
<1>8. ASSUME NEW c \in Cycles, Rollback(c) PROVE DeployPhase'
  BY <1>0, <1>8 DEF Rollback
<1>9. ASSUME NEW c \in Cycles, End(c) PROVE DeployPhase'
  BY <1>0, <1>9 DEF End
<1>10. ASSUME NEW c \in Cycles, AlarmFires(c) PROVE DeployPhase'
  BY <1>0, <1>10 DEF AlarmFires, LeavePush
<1>11. ASSUME NEW c \in Cycles, InterruptRollback(c) PROVE DeployPhase'
  BY <1>0, <1>11 DEF InterruptRollback, LeavePush
<1>12. ASSUME NEW c \in Cycles, Kill(c) PROVE DeployPhase'
  BY <1>0, <1>12 DEF Kill, LeavePush
<1>13. ASSUME NEW p \in Procs, PushConnect(p), UNCHANGED <<cycleVars, deployVars>> PROVE DeployPhase'
  BY <1>0, <1>13 DEF PushConnect
<1>14. ASSUME NEW p \in Procs, PushLine(p), UNCHANGED <<cycleVars, deployVars>> PROVE DeployPhase'
  BY <1>0, <1>14 DEF PushLine, Configure
<1>15. ASSUME NEW p \in Procs, PushLineIneffective(p), UNCHANGED <<cycleVars, deployVars>> PROVE DeployPhase'
  BY <1>0, <1>15 DEF PushLineIneffective
<1>16. ASSUME NEW p \in Procs, PushSave(p), UNCHANGED <<cycleVars, deployVars>> PROVE DeployPhase'
  BY <1>0, <1>16 DEF PushSave
<1>17. ASSUME NEW p \in Procs, PushDone(p), UNCHANGED <<cycleVars, deployVars>> PROVE DeployPhase'
  BY <1>0, <1>17 DEF PushDone, LeavePush
<1>18. ASSUME NEW p \in Procs, PushFails(p), UNCHANGED <<cycleVars, deployVars>> PROVE DeployPhase'
  BY <1>0, <1>18 DEF PushFails, LeavePush
<1>19. ASSUME NEW p \in Deploys, DeploySkips(p) PROVE DeployPhase'
  BY <1>0, <1>19 DEF DeploySkips
<1>20. ASSUME NEW p \in Deploys, DeployNext(p) PROVE DeployPhase'
  BY <1>0, <1>20 DEF DeployNext
<1>21. ASSUME NEW p \in Deploys, DeployCounts(p) PROVE DeployPhase'
  BY <1>0, <1>21 DEF DeployCounts
<1>22. ASSUME NEW d \in Devices, Reload(d), UNCHANGED <<cycleVars, deployVars>> PROVE DeployPhase'
  BY <1>0, <1>22 DEF Reload
<1>23. CASE UNCHANGED vars
  BY <1>0, <1>23 DEF vars
<1>24. QED
  BY <1>0, <1>1, <1>2, <1>3, <1>4, <1>5, <1>6, <1>7, <1>7a, <1>8, <1>9, <1>10, <1>11,
     <1>12, <1>13, <1>14, <1>15, <1>16, <1>17, <1>18, <1>19, <1>20, <1>21, <1>22, <1>23
     DEF Next, CycleStep, DeployStep, PushBy, PushStep

-----------------------------------------------------------------------------
(* Who owes the faults.                                                    *)

LEMMA OwedInit == Init => RunningOwed /\ StartupOwed
BY DEF Init, PushInit, RunningOwed, StartupOwed

LEMMA RunningOwedStep ==
  TypeOK /\ Phase /\ RunningOwed /\ StartupOwed /\ [Next]_vars => RunningOwed'
<1> SUFFICES ASSUME TypeOK, Phase, RunningOwed, StartupOwed, [Next]_vars,
                    NEW d \in Devices, Reliable(d), NEW f \in running'[d] \cap Restores(d)
             PROVE  \E k \in Cycles : Injected(k, d, f)' /\ ~TakenBack(k)'
  BY DEF RunningOwed, Reliable, Restores, Fortinet
<1> DEFINE Owed == \E k \in Cycles : Injected(k, d, f)' /\ ~TakenBack(k)'
<1> USE DEF TypeOK, PushTypeOK, Goto, InPush, Returned, Body, Injected, TakenBack,
            deviceVars, pushVars, cycleVars, resultVars, deployVars
<1>0. /\ Cycles \subseteq Procs /\ Deploys \subseteq Procs /\ Cycles \cap Deploys = {}
      /\ f \in running[d] => \E k \in Cycles : Injected(k, d, f) /\ ~TakenBack(k)
      /\ \A k \in Cycles : pc[k] # "idle" => on[k] = fault[k].device
      /\ \A k \in Cycles : pc[k] \in {"idle", "rollback"} \cup Body => at[k] = "off"
      /\ \A k \in Cycles : pc[k] = "idle" => ~injected[k]
  BY CycleAssumption DEF RunningOwed, Phase
<1>1. ASSUME NEW c \in Cycles, Select(c) PROVE Owed
  BY <1>0, <1>1 DEF Select
<1>2. ASSUME NEW c \in Cycles, Inject(c) PROVE Owed
  <2>1. CASE f \in running[d]
    BY <1>0, <1>2, <2>1 DEF Inject, Configure
  <2>2. CASE f \notin running[d]
    <3>1. on[c] = d /\ fault[c].type = f
      BY <1>2, <2>2 DEF Inject, Configure
    <3>2. fault[c] = [device |-> d, type |-> f]
      BY <1>0, <1>2, <3>1 DEF Inject, Phase
    <3>3. Injected(c, d, f)' /\ at'[c] = "off"
      BY <1>0, <1>2, <3>2 DEF Inject
    <3>4. QED
      BY <3>3
  <2>3. QED
    BY <2>1, <2>2
<1>3. ASSUME NEW c \in Cycles, CheckFabric(c) PROVE Owed
  BY <1>0, <1>3 DEF CheckFabric, Report
<1>4. ASSUME NEW c \in Cycles, CheckCompliance(c) PROVE Owed
  BY <1>0, <1>4 DEF CheckCompliance, Report
<1>5. ASSUME NEW c \in Cycles, BodyRaises(c) PROVE Owed
  BY <1>0, <1>5 DEF BodyRaises
<1>6. ASSUME NEW c \in Cycles, RollbackImpossible(c) PROVE Owed
  BY <1>0, <1>6 DEF RollbackImpossible
<1>7. ASSUME NEW c \in Cycles, RollbackInThread(c) PROVE Owed
  BY <1>0, <1>7 DEF RollbackInThread
<1>7a. ASSUME NEW c \in Cycles, FinallyRaises(c) PROVE Owed
  BY <1>0, <1>7a DEF FinallyRaises
<1>8. ASSUME NEW c \in Cycles, Rollback(c) PROVE Owed
  BY <1>0, <1>8 DEF Rollback
<1>9. ASSUME NEW c \in Cycles, End(c) PROVE Owed
  BY <1>0, <1>9 DEF End
<1>10. ASSUME NEW c \in Cycles, AlarmFires(c) PROVE Owed
  BY <1>0, <1>10 DEF AlarmFires, LeavePush
<1>11. ASSUME NEW c \in Cycles, InterruptRollback(c) PROVE Owed
  BY <1>0, <1>11 DEF InterruptRollback, LeavePush
<1>12. ASSUME NEW c \in Cycles, Kill(c) PROVE Owed
  BY <1>0, <1>12 DEF Kill, LeavePush
<1>13. ASSUME NEW p \in Procs, PushConnect(p), UNCHANGED <<cycleVars, deployVars>> PROVE Owed
  BY <1>0, <1>13 DEF PushConnect
<1>14. ASSUME NEW p \in Procs, PushLine(p), UNCHANGED <<cycleVars, deployVars>> PROVE Owed
  <2>1. PICK g \in toSend[p] :
          /\ toSend' = [toSend EXCEPT ![p] = toSend[p] \ {g}]
          /\ running' = [running EXCEPT ![on[p]] = running[on[p]] \ {g}]
    BY <1>14 DEF PushLine, Configure
  <2>2. f \in running[d] /\ (on[p] = d => f # g)
    BY <2>1
  <2>3. PICK k \in Cycles : Injected(k, d, f) /\ ~TakenBack(k)
    BY <1>0, <2>2
  <2>4. CASE k # p
    BY <1>0, <1>14, <2>1, <2>3, <2>4 DEF PushLine
  <2>5. CASE k = p
    BY <1>0, <1>14, <2>1, <2>2, <2>3, <2>5 DEF PushLine
  <2>6. QED
    BY <2>4, <2>5
<1>15. ASSUME NEW p \in Procs, PushLineIneffective(p), UNCHANGED <<cycleVars, deployVars>> PROVE Owed
  <2>1. PICK k \in Cycles : Injected(k, d, f) /\ ~TakenBack(k)
    BY <1>0, <1>15 DEF PushLineIneffective
  <2>2. on[k] = d
    BY <1>0, <2>1
  <2>3. k # p
    BY <1>15, <2>2 DEF PushLineIneffective, Reliable
  <2>4. QED
    BY <1>0, <1>15, <2>1, <2>3 DEF PushLineIneffective
<1>16. ASSUME NEW p \in Procs, PushSave(p), UNCHANGED <<cycleVars, deployVars>> PROVE Owed
  BY <1>0, <1>16 DEF PushSave
<1>17. ASSUME NEW p \in Procs, PushDone(p), UNCHANGED <<cycleVars, deployVars>> PROVE Owed
  <2>1. PICK k \in Cycles : Injected(k, d, f) /\ ~TakenBack(k)
    BY <1>0, <1>17 DEF PushDone
  <2>2. on[k] = d
    BY <1>0, <2>1
  <2>3. k # p
    BY <1>17, <2>1, <2>2 DEF PushDone, Reliable
  <2>4. QED
    BY <1>0, <1>17, <2>1, <2>3 DEF PushDone, LeavePush
<1>18. ASSUME NEW p \in Procs, PushFails(p), UNCHANGED <<cycleVars, deployVars>> PROVE Owed
  BY <1>0, <1>18 DEF PushFails, LeavePush
<1>19. ASSUME NEW p \in Deploys, DeploySkips(p) PROVE Owed
  BY <1>0, <1>19 DEF DeploySkips
<1>20. ASSUME NEW p \in Deploys, DeployNext(p) PROVE Owed
  BY <1>0, <1>20 DEF DeployNext
<1>21. ASSUME NEW p \in Deploys, DeployCounts(p) PROVE Owed
  BY <1>0, <1>21 DEF DeployCounts
<1>22. ASSUME NEW e \in Devices, Reload(e), UNCHANGED <<cycleVars, deployVars>> PROVE Owed
  <2>1. CASE e # d
    <3>1. PICK k \in Cycles : Injected(k, d, f) /\ ~TakenBack(k)
      BY <1>0, <1>22, <2>1 DEF Reload
    <3>2. on[k] = d
      BY <1>0, <3>1
    <3>3. QED
      BY <1>0, <1>22, <2>1, <3>1, <3>2 DEF Reload
  <2>2. CASE e = d
    <3>1. f \in startup[d]
      BY <1>22, <2>2 DEF Reload
    <3>2. PICK k \in Cycles : Injected(k, d, f) /\ ~TakenBackSaved(k)
      BY <3>1 DEF StartupOwed
    <3>3. on[k] = d
      BY <1>0, <3>2
    <3>4. QED
      BY <1>0, <1>22, <2>2, <3>2, <3>3 DEF Reload, TakenBackSaved
  <2>3. QED
    BY <2>1, <2>2
<1>23. CASE UNCHANGED vars
  BY <1>0, <1>23 DEF vars
<1>24. QED
  BY <1>0, <1>1, <1>2, <1>3, <1>4, <1>5, <1>6, <1>7, <1>7a, <1>8, <1>9, <1>10, <1>11,
     <1>12, <1>13, <1>14, <1>15, <1>16, <1>17, <1>18, <1>19, <1>20, <1>21, <1>22, <1>23
     DEF Next, CycleStep, DeployStep, PushBy, PushStep

LEMMA StartupOwedStep ==
  TypeOK /\ Phase /\ RunningOwed /\ StartupOwed /\ [Next]_vars => StartupOwed'
<1> SUFFICES ASSUME TypeOK, Phase, RunningOwed, StartupOwed, [Next]_vars,
                    NEW d \in Devices, Reliable(d), NEW f \in startup'[d] \cap Restores(d)
             PROVE  \E k \in Cycles : Injected(k, d, f)' /\ ~TakenBackSaved(k)'
  BY DEF StartupOwed, Reliable, Restores, Fortinet
<1> DEFINE Owed == \E k \in Cycles : Injected(k, d, f)' /\ ~TakenBackSaved(k)'
<1> USE DEF TypeOK, PushTypeOK, Goto, InPush, Returned, Body, Injected, TakenBackSaved,
            deviceVars, pushVars, cycleVars, resultVars, deployVars
<1>0. /\ Cycles \subseteq Procs /\ Deploys \subseteq Procs /\ Cycles \cap Deploys = {}
      /\ f \in startup[d] => \E k \in Cycles : Injected(k, d, f) /\ ~TakenBackSaved(k)
      /\ \A k \in Cycles : pc[k] # "idle" => on[k] = fault[k].device
      /\ \A k \in Cycles : pc[k] \in {"idle", "rollback"} \cup Body => at[k] = "off"
      /\ \A k \in Cycles : pc[k] = "idle" => ~injected[k]
      /\ ~Fortinet(d)
  BY CycleAssumption DEF StartupOwed, Phase, Reliable
<1>1. ASSUME NEW c \in Cycles, Select(c) PROVE Owed
  BY <1>0, <1>1 DEF Select
<1>2. ASSUME NEW c \in Cycles, Inject(c) PROVE Owed
  <2>1. f \in startup[d]
    BY <1>0, <1>2 DEF Inject, Configure
  <2>2. QED
    BY <1>0, <1>2, <2>1 DEF Inject
<1>3. ASSUME NEW c \in Cycles, CheckFabric(c) PROVE Owed
  BY <1>0, <1>3 DEF CheckFabric, Report
<1>4. ASSUME NEW c \in Cycles, CheckCompliance(c) PROVE Owed
  BY <1>0, <1>4 DEF CheckCompliance, Report
<1>5. ASSUME NEW c \in Cycles, BodyRaises(c) PROVE Owed
  BY <1>0, <1>5 DEF BodyRaises
<1>6. ASSUME NEW c \in Cycles, RollbackImpossible(c) PROVE Owed
  BY <1>0, <1>6 DEF RollbackImpossible
<1>7. ASSUME NEW c \in Cycles, RollbackInThread(c) PROVE Owed
  BY <1>0, <1>7 DEF RollbackInThread
<1>7a. ASSUME NEW c \in Cycles, FinallyRaises(c) PROVE Owed
  BY <1>0, <1>7a DEF FinallyRaises
<1>8. ASSUME NEW c \in Cycles, Rollback(c) PROVE Owed
  BY <1>0, <1>8 DEF Rollback
<1>9. ASSUME NEW c \in Cycles, End(c) PROVE Owed
  BY <1>0, <1>9 DEF End
<1>10. ASSUME NEW c \in Cycles, AlarmFires(c) PROVE Owed
  BY <1>0, <1>10 DEF AlarmFires, LeavePush
<1>11. ASSUME NEW c \in Cycles, InterruptRollback(c) PROVE Owed
  BY <1>0, <1>11 DEF InterruptRollback, LeavePush
<1>12. ASSUME NEW c \in Cycles, Kill(c) PROVE Owed
  BY <1>0, <1>12 DEF Kill, LeavePush
<1>13. ASSUME NEW p \in Procs, PushConnect(p), UNCHANGED <<cycleVars, deployVars>> PROVE Owed
  BY <1>0, <1>13 DEF PushConnect
<1>14. ASSUME NEW p \in Procs, PushLine(p), UNCHANGED <<cycleVars, deployVars>> PROVE Owed
  <2>1. f \in startup[d]
    BY <1>0, <1>14 DEF PushLine, Configure
  <2>2. QED
    BY <1>0, <1>14, <2>1 DEF PushLine
<1>15. ASSUME NEW p \in Procs, PushLineIneffective(p), UNCHANGED <<cycleVars, deployVars>> PROVE Owed
  BY <1>0, <1>15 DEF PushLineIneffective
<1>16. ASSUME NEW p \in Procs, PushSave(p), UNCHANGED <<cycleVars, deployVars>> PROVE Owed
  <2>1. CASE on[p] # d
    BY <1>0, <1>16, <2>1 DEF PushSave
  <2>2. CASE on[p] = d
    <3>1. PICK k \in Cycles : Injected(k, d, f) /\ ~TakenBack(k)
      BY <1>16, <2>2 DEF PushSave, RunningOwed
    <3>2. k # p
      BY <1>16, <3>1 DEF PushSave, TakenBack
    <3>3. QED
      BY <1>0, <1>16, <3>1, <3>2 DEF PushSave, TakenBack
  <2>3. QED
    BY <2>1, <2>2
<1>17. ASSUME NEW p \in Procs, PushDone(p), UNCHANGED <<cycleVars, deployVars>> PROVE Owed
  <2>1. PICK k \in Cycles : Injected(k, d, f) /\ ~TakenBackSaved(k)
    BY <1>0, <1>17 DEF PushDone
  <2>2. on[k] = d
    BY <1>0, <2>1
  <2>3. k # p
    BY <1>17, <2>1, <2>2, <1>0 DEF PushDone
  <2>4. QED
    BY <1>0, <1>17, <2>1, <2>3 DEF PushDone, LeavePush
<1>18. ASSUME NEW p \in Procs, PushFails(p), UNCHANGED <<cycleVars, deployVars>> PROVE Owed
  BY <1>0, <1>18 DEF PushFails, LeavePush
<1>19. ASSUME NEW p \in Deploys, DeploySkips(p) PROVE Owed
  BY <1>0, <1>19 DEF DeploySkips
<1>20. ASSUME NEW p \in Deploys, DeployNext(p) PROVE Owed
  BY <1>0, <1>20 DEF DeployNext
<1>21. ASSUME NEW p \in Deploys, DeployCounts(p) PROVE Owed
  BY <1>0, <1>21 DEF DeployCounts
<1>22. ASSUME NEW e \in Devices, Reload(e), UNCHANGED <<cycleVars, deployVars>> PROVE Owed
  BY <1>0, <1>22 DEF Reload
<1>23. CASE UNCHANGED vars
  BY <1>0, <1>23 DEF vars
<1>24. QED
  BY <1>0, <1>1, <1>2, <1>3, <1>4, <1>5, <1>6, <1>7, <1>7a, <1>8, <1>9, <1>10, <1>11,
     <1>12, <1>13, <1>14, <1>15, <1>16, <1>17, <1>18, <1>19, <1>20, <1>21, <1>22, <1>23
     DEF Next, CycleStep, DeployStep, PushBy, PushStep

-----------------------------------------------------------------------------
(* Where faults and verdicts come from.                                    *)

LEMMA OriginInit == Init => FaultsInjected /\ VerdictFresh
BY DEF Init, PushInit, FaultsInjected, VerdictFresh

LEMMA FaultsInjectedStep == TypeOK /\ Phase /\ FaultsInjected /\ [Next]_vars => FaultsInjected'
<1> SUFFICES ASSUME TypeOK, Phase, FaultsInjected, [Next]_vars,
                    NEW d \in Devices, NEW f \in running'[d] \cup startup'[d]
             PROVE  \E k \in Cycles : Injected(k, d, f)'
  BY DEF FaultsInjected
<1> DEFINE Known == \E k \in Cycles : Injected(k, d, f)'
<1> USE DEF TypeOK, PushTypeOK, Goto, Injected,
            deviceVars, pushVars, cycleVars, resultVars, deployVars
<1>0. /\ Cycles \subseteq Procs /\ Deploys \subseteq Procs
      /\ f \in running[d] \cup startup[d] => \E k \in Cycles : Injected(k, d, f)
      /\ \A k \in Cycles : pc[k] = "idle" => ~injected[k]
  BY CycleAssumption DEF FaultsInjected, Phase
<1>1. ASSUME NEW c \in Cycles, Select(c) PROVE Known
  BY <1>0, <1>1 DEF Select
<1>2. ASSUME NEW c \in Cycles, Inject(c) PROVE Known
  <2>1. \A k \in Cycles : Injected(k, d, f) => Injected(k, d, f)'
    BY <1>2 DEF Inject
  <2>2. CASE f \in running[d] \cup startup[d]
    BY <1>0, <2>1, <2>2
  <2>3. CASE f \notin running[d] \cup startup[d]
    <3>1. on[c] = d /\ fault[c].type = f
      BY <1>2, <2>3 DEF Inject, Configure
    <3>2. fault[c] = [device |-> d, type |-> f]
      BY <1>2, <3>1 DEF Inject, Phase, Body
    <3>3. QED
      BY <1>2, <3>2 DEF Inject
  <2>4. QED
    BY <2>2, <2>3
<1>3. ASSUME NEW c \in Cycles, CheckFabric(c) PROVE Known
  BY <1>0, <1>3 DEF CheckFabric, Report
<1>4. ASSUME NEW c \in Cycles, CheckCompliance(c) PROVE Known
  BY <1>0, <1>4 DEF CheckCompliance, Report
<1>5. ASSUME NEW c \in Cycles, BodyRaises(c) PROVE Known
  BY <1>0, <1>5 DEF BodyRaises
<1>6. ASSUME NEW c \in Cycles, RollbackImpossible(c) PROVE Known
  BY <1>0, <1>6 DEF RollbackImpossible
<1>7. ASSUME NEW c \in Cycles, RollbackInThread(c) PROVE Known
  BY <1>0, <1>7 DEF RollbackInThread
<1>7a. ASSUME NEW c \in Cycles, FinallyRaises(c) PROVE Known
  BY <1>0, <1>7a DEF FinallyRaises
<1>8. ASSUME NEW c \in Cycles, Rollback(c) PROVE Known
  BY <1>0, <1>8 DEF Rollback
<1>9. ASSUME NEW c \in Cycles, End(c) PROVE Known
  BY <1>0, <1>9 DEF End
<1>10. ASSUME NEW c \in Cycles, AlarmFires(c) PROVE Known
  BY <1>0, <1>10 DEF AlarmFires, LeavePush
<1>11. ASSUME NEW c \in Cycles, InterruptRollback(c) PROVE Known
  BY <1>0, <1>11 DEF InterruptRollback, LeavePush
<1>12. ASSUME NEW c \in Cycles, Kill(c) PROVE Known
  BY <1>0, <1>12 DEF Kill, LeavePush
<1>13. ASSUME NEW p \in Procs, PushConnect(p), UNCHANGED <<cycleVars, deployVars>> PROVE Known
  BY <1>0, <1>13 DEF PushConnect
<1>14. ASSUME NEW p \in Procs, PushLine(p), UNCHANGED <<cycleVars, deployVars>> PROVE Known
  <2>1. f \in running[d] \cup startup[d]
    BY <1>14 DEF PushLine, Configure
  <2>2. QED
    BY <1>0, <1>14, <2>1
<1>15. ASSUME NEW p \in Procs, PushLineIneffective(p), UNCHANGED <<cycleVars, deployVars>> PROVE Known
  BY <1>0, <1>15 DEF PushLineIneffective
<1>16. ASSUME NEW p \in Procs, PushSave(p), UNCHANGED <<cycleVars, deployVars>> PROVE Known
  BY <1>0, <1>16 DEF PushSave
<1>17. ASSUME NEW p \in Procs, PushDone(p), UNCHANGED <<cycleVars, deployVars>> PROVE Known
  BY <1>0, <1>17 DEF PushDone, LeavePush
<1>18. ASSUME NEW p \in Procs, PushFails(p), UNCHANGED <<cycleVars, deployVars>> PROVE Known
  BY <1>0, <1>18 DEF PushFails, LeavePush
<1>19. ASSUME NEW p \in Deploys, DeploySkips(p) PROVE Known
  BY <1>0, <1>19 DEF DeploySkips
<1>20. ASSUME NEW p \in Deploys, DeployNext(p) PROVE Known
  BY <1>0, <1>20 DEF DeployNext
<1>21. ASSUME NEW p \in Deploys, DeployCounts(p) PROVE Known
  BY <1>0, <1>21 DEF DeployCounts
<1>22. ASSUME NEW e \in Devices, Reload(e), UNCHANGED <<cycleVars, deployVars>> PROVE Known
  BY <1>0, <1>22 DEF Reload
<1>23. CASE UNCHANGED vars
  BY <1>0, <1>23 DEF vars
<1>24. QED
  BY <1>0, <1>1, <1>2, <1>3, <1>4, <1>5, <1>6, <1>7, <1>7a, <1>8, <1>9, <1>10, <1>11,
     <1>12, <1>13, <1>14, <1>15, <1>16, <1>17, <1>18, <1>19, <1>20, <1>21, <1>22, <1>23
     DEF Next, CycleStep, DeployStep, PushBy, PushStep

LEMMA VerdictFreshStep == TypeOK /\ Phase /\ VerdictFresh /\ [Next]_vars => VerdictFresh'
<1> SUFFICES ASSUME TypeOK, Phase, VerdictFresh, [Next]_vars PROVE VerdictFresh'
  OBVIOUS
<1> USE DEF TypeOK, VerdictFresh, Goto, Body,
            deviceVars, pushVars, cycleVars, resultVars, deployVars
<1>0. Cycles \subseteq Procs /\ Deploys \subseteq Procs
  BY CycleAssumption
<1>1. ASSUME NEW c \in Cycles, Select(c) PROVE VerdictFresh'
  BY <1>0, <1>1 DEF Select
<1>2. ASSUME NEW c \in Cycles, Inject(c) PROVE VerdictFresh'
  BY <1>0, <1>2 DEF Inject, Configure
<1>3. ASSUME NEW c \in Cycles, CheckFabric(c) PROVE VerdictFresh'
  BY <1>0, <1>3 DEF CheckFabric, Report
<1>4. ASSUME NEW c \in Cycles, CheckCompliance(c) PROVE VerdictFresh'
  BY <1>0, <1>4 DEF CheckCompliance, Report
<1>5. ASSUME NEW c \in Cycles, BodyRaises(c) PROVE VerdictFresh'
  BY <1>0, <1>5 DEF BodyRaises
<1>6. ASSUME NEW c \in Cycles, RollbackImpossible(c) PROVE VerdictFresh'
  BY <1>0, <1>6 DEF RollbackImpossible
<1>7. ASSUME NEW c \in Cycles, RollbackInThread(c) PROVE VerdictFresh'
  BY <1>0, <1>7 DEF RollbackInThread
<1>7a. ASSUME NEW c \in Cycles, FinallyRaises(c) PROVE VerdictFresh'
  BY <1>0, <1>7a DEF FinallyRaises
<1>8. ASSUME NEW c \in Cycles, Rollback(c) PROVE VerdictFresh'
  BY <1>0, <1>8 DEF Rollback
<1>9. ASSUME NEW c \in Cycles, End(c) PROVE VerdictFresh'
  BY <1>0, <1>9 DEF End
<1>10. ASSUME NEW c \in Cycles, AlarmFires(c) PROVE VerdictFresh'
  BY <1>0, <1>10 DEF AlarmFires, LeavePush
<1>11. ASSUME NEW c \in Cycles, InterruptRollback(c) PROVE VerdictFresh'
  BY <1>0, <1>11 DEF InterruptRollback, LeavePush
<1>12. ASSUME NEW c \in Cycles, Kill(c) PROVE VerdictFresh'
  BY <1>0, <1>12 DEF Kill, LeavePush
<1>13. ASSUME NEW p \in Procs, PushConnect(p), UNCHANGED <<cycleVars, deployVars>> PROVE VerdictFresh'
  BY <1>0, <1>13 DEF PushConnect
<1>14. ASSUME NEW p \in Procs, PushLine(p), UNCHANGED <<cycleVars, deployVars>> PROVE VerdictFresh'
  BY <1>0, <1>14 DEF PushLine, Configure
<1>15. ASSUME NEW p \in Procs, PushLineIneffective(p), UNCHANGED <<cycleVars, deployVars>> PROVE VerdictFresh'
  BY <1>0, <1>15 DEF PushLineIneffective
<1>16. ASSUME NEW p \in Procs, PushSave(p), UNCHANGED <<cycleVars, deployVars>> PROVE VerdictFresh'
  BY <1>0, <1>16 DEF PushSave
<1>17. ASSUME NEW p \in Procs, PushDone(p), UNCHANGED <<cycleVars, deployVars>> PROVE VerdictFresh'
  BY <1>0, <1>17 DEF PushDone, LeavePush
<1>18. ASSUME NEW p \in Procs, PushFails(p), UNCHANGED <<cycleVars, deployVars>> PROVE VerdictFresh'
  BY <1>0, <1>18 DEF PushFails, LeavePush
<1>19. ASSUME NEW p \in Deploys, DeploySkips(p) PROVE VerdictFresh'
  BY <1>0, <1>19 DEF DeploySkips
<1>20. ASSUME NEW p \in Deploys, DeployNext(p) PROVE VerdictFresh'
  BY <1>0, <1>20 DEF DeployNext
<1>21. ASSUME NEW p \in Deploys, DeployCounts(p) PROVE VerdictFresh'
  BY <1>0, <1>21 DEF DeployCounts
<1>22. ASSUME NEW d \in Devices, Reload(d), UNCHANGED <<cycleVars, deployVars>> PROVE VerdictFresh'
  BY <1>0, <1>22 DEF Reload
<1>23. CASE UNCHANGED vars
  BY <1>0, <1>23 DEF vars
<1>24. QED
  BY <1>0, <1>1, <1>2, <1>3, <1>4, <1>5, <1>6, <1>7, <1>7a, <1>8, <1>9, <1>10, <1>11,
     <1>12, <1>13, <1>14, <1>15, <1>16, <1>17, <1>18, <1>19, <1>20, <1>21, <1>22, <1>23
     DEF Next, CycleStep, DeployStep, PushBy, PushStep

LEMMA DetectionSoundStep ==
  TypeOK /\ Phase /\ FaultsInjected /\ VerdictFresh /\ DetectionSound /\ [Next]_vars
    => DetectionSound'
<1> SUFFICES ASSUME TypeOK, Phase, FaultsInjected, VerdictFresh, DetectionSound, [Next]_vars
             PROVE  DetectionSound'
  OBVIOUS
<1> USE DEF TypeOK, PushTypeOK, DetectionSound, Goto,
            deviceVars, pushVars, cycleVars, resultVars, deployVars
<1>0. /\ Cycles \subseteq Procs /\ Deploys \subseteq Procs /\ Cycles \cap Deploys = {}
      /\ \A k \in Cycles : pc[k] = "idle" => ~injected[k] /\ ~detected[k]
  BY CycleAssumption DEF Phase
<1>1. ASSUME NEW c \in Cycles, Select(c) PROVE DetectionSound'
  BY <1>0, <1>1 DEF Select
<1>2. ASSUME NEW c \in Cycles, Inject(c) PROVE DetectionSound'
  BY <1>0, <1>2 DEF Inject, Configure
<1>3. ASSUME NEW c \in Cycles, CheckFabric(c) PROVE DetectionSound'
  BY <1>0, <1>3 DEF CheckFabric, Report
<1>4. ASSUME NEW c \in Cycles, CheckCompliance(c) PROVE DetectionSound'
  <2> SUFFICES ASSUME NEW k \in Cycles, detected'[k], ~Fortinet(on'[k]),
                      ExpectedSkill(fault'[k].type) = "spec_compliance"
               PROVE  \E j \in Cycles :
                         injected'[j] /\ fault'[j] = [device |-> on'[k], type |-> "change_ip"]
    OBVIOUS
  <2>1. fault' = fault /\ injected' = injected /\ on' = on
    BY <1>4 DEF CheckCompliance
  <2>2. CASE k # c
    BY <1>4, <2>1, <2>2 DEF CheckCompliance
  <2>3. CASE k = c
    <3>1. on[c] \in Devices
      <4>1. fault[c] # NoFault /\ on[c] = fault[c].device
        BY <1>4 DEF CheckCompliance, Phase
      <4>2. fault[c] \in [device : Devices, type : Faults]
        BY <4>1
      <4>3. QED
        BY <4>1, <4>2
    <3>2. "change_ip" \in running[on[c]]
      BY <1>4, <2>1, <2>3 DEF CheckCompliance, Report
    <3>3. QED
      BY <2>1, <2>3, <3>1, <3>2 DEF FaultsInjected, Injected
  <2>4. QED
    BY <2>2, <2>3
<1>5. ASSUME NEW c \in Cycles, BodyRaises(c) PROVE DetectionSound'
  BY <1>0, <1>5 DEF BodyRaises
<1>6. ASSUME NEW c \in Cycles, RollbackImpossible(c) PROVE DetectionSound'
  BY <1>0, <1>6 DEF RollbackImpossible
<1>7. ASSUME NEW c \in Cycles, RollbackInThread(c) PROVE DetectionSound'
  BY <1>0, <1>7 DEF RollbackInThread
<1>7a. ASSUME NEW c \in Cycles, FinallyRaises(c) PROVE DetectionSound'
  BY <1>0, <1>7a DEF FinallyRaises
<1>8. ASSUME NEW c \in Cycles, Rollback(c) PROVE DetectionSound'
  BY <1>0, <1>8 DEF Rollback
<1>9. ASSUME NEW c \in Cycles, End(c) PROVE DetectionSound'
  BY <1>0, <1>9 DEF End
<1>10. ASSUME NEW c \in Cycles, AlarmFires(c) PROVE DetectionSound'
  BY <1>0, <1>10 DEF AlarmFires, LeavePush
<1>11. ASSUME NEW c \in Cycles, InterruptRollback(c) PROVE DetectionSound'
  BY <1>0, <1>11 DEF InterruptRollback, LeavePush
<1>12. ASSUME NEW c \in Cycles, Kill(c) PROVE DetectionSound'
  BY <1>0, <1>12 DEF Kill, LeavePush
<1>13. ASSUME NEW p \in Procs, PushConnect(p), UNCHANGED <<cycleVars, deployVars>> PROVE DetectionSound'
  BY <1>0, <1>13 DEF PushConnect
<1>14. ASSUME NEW p \in Procs, PushLine(p), UNCHANGED <<cycleVars, deployVars>> PROVE DetectionSound'
  BY <1>0, <1>14 DEF PushLine, Configure
<1>15. ASSUME NEW p \in Procs, PushLineIneffective(p), UNCHANGED <<cycleVars, deployVars>> PROVE DetectionSound'
  BY <1>0, <1>15 DEF PushLineIneffective
<1>16. ASSUME NEW p \in Procs, PushSave(p), UNCHANGED <<cycleVars, deployVars>> PROVE DetectionSound'
  BY <1>0, <1>16 DEF PushSave
<1>17. ASSUME NEW p \in Procs, PushDone(p), UNCHANGED <<cycleVars, deployVars>> PROVE DetectionSound'
  BY <1>0, <1>17 DEF PushDone, LeavePush
<1>18. ASSUME NEW p \in Procs, PushFails(p), UNCHANGED <<cycleVars, deployVars>> PROVE DetectionSound'
  BY <1>0, <1>18 DEF PushFails, LeavePush
<1>19. ASSUME NEW p \in Deploys, DeploySkips(p) PROVE DetectionSound'
  BY <1>0, <1>19 DEF DeploySkips
<1>20. ASSUME NEW p \in Deploys, DeployNext(p) PROVE DetectionSound'
  BY <1>0, <1>20 DEF DeployNext
<1>21. ASSUME NEW p \in Deploys, DeployCounts(p) PROVE DetectionSound'
  BY <1>0, <1>21 DEF DeployCounts
<1>22. ASSUME NEW d \in Devices, Reload(d), UNCHANGED <<cycleVars, deployVars>> PROVE DetectionSound'
  BY <1>0, <1>22 DEF Reload
<1>23. CASE UNCHANGED vars
  BY <1>0, <1>23 DEF vars
<1>24. QED
  BY <1>0, <1>1, <1>2, <1>3, <1>4, <1>5, <1>6, <1>7, <1>7a, <1>8, <1>9, <1>10, <1>11,
     <1>12, <1>13, <1>14, <1>15, <1>16, <1>17, <1>18, <1>19, <1>20, <1>21, <1>22, <1>23
     DEF Next, CycleStep, DeployStep, PushBy, PushStep

-----------------------------------------------------------------------------
(* The finally block.                                                      *)

LEMMA AlarmScopedStep == TypeOK /\ AlarmScoped /\ [Next]_vars => AlarmScoped'
<1> SUFFICES ASSUME TypeOK, AlarmScoped, [Next]_vars PROVE AlarmScoped'
  OBVIOUS
<1> USE DEF TypeOK, AlarmScoped, Goto, Body,
            deviceVars, pushVars, cycleVars, resultVars, deployVars
<1>0. Cycles \subseteq Procs /\ Deploys \subseteq Procs
  BY CycleAssumption
<1>1. ASSUME NEW c \in Cycles, Select(c) PROVE AlarmScoped'
  BY <1>0, <1>1 DEF Select
<1>2. ASSUME NEW c \in Cycles, Inject(c) PROVE AlarmScoped'
  BY <1>0, <1>2 DEF Inject, Configure
<1>3. ASSUME NEW c \in Cycles, CheckFabric(c) PROVE AlarmScoped'
  BY <1>0, <1>3 DEF CheckFabric, Report
<1>4. ASSUME NEW c \in Cycles, CheckCompliance(c) PROVE AlarmScoped'
  BY <1>0, <1>4 DEF CheckCompliance, Report
<1>5. ASSUME NEW c \in Cycles, BodyRaises(c) PROVE AlarmScoped'
  BY <1>0, <1>5 DEF BodyRaises
<1>6. ASSUME NEW c \in Cycles, RollbackImpossible(c) PROVE AlarmScoped'
  BY <1>0, <1>6 DEF RollbackImpossible
<1>7. ASSUME NEW c \in Cycles, RollbackInThread(c) PROVE AlarmScoped'
  BY <1>0, <1>7 DEF RollbackInThread
<1>7a. ASSUME NEW c \in Cycles, FinallyRaises(c) PROVE AlarmScoped'
  BY <1>0, <1>7a DEF FinallyRaises
<1>8. ASSUME NEW c \in Cycles, Rollback(c) PROVE AlarmScoped'
  BY <1>0, <1>8 DEF Rollback
<1>9. ASSUME NEW c \in Cycles, End(c) PROVE AlarmScoped'
  BY <1>0, <1>9 DEF End
<1>10. ASSUME NEW c \in Cycles, AlarmFires(c) PROVE AlarmScoped'
  BY <1>0, <1>10 DEF AlarmFires, LeavePush
<1>11. ASSUME NEW c \in Cycles, InterruptRollback(c) PROVE AlarmScoped'
  BY <1>0, <1>11 DEF InterruptRollback, LeavePush
<1>12. ASSUME NEW c \in Cycles, Kill(c) PROVE AlarmScoped'
  BY <1>0, <1>12 DEF Kill, LeavePush
<1>13. ASSUME NEW p \in Procs, PushConnect(p), UNCHANGED <<cycleVars, deployVars>> PROVE AlarmScoped'
  BY <1>0, <1>13 DEF PushConnect
<1>14. ASSUME NEW p \in Procs, PushLine(p), UNCHANGED <<cycleVars, deployVars>> PROVE AlarmScoped'
  BY <1>0, <1>14 DEF PushLine, Configure
<1>15. ASSUME NEW p \in Procs, PushLineIneffective(p), UNCHANGED <<cycleVars, deployVars>> PROVE AlarmScoped'
  BY <1>0, <1>15 DEF PushLineIneffective
<1>16. ASSUME NEW p \in Procs, PushSave(p), UNCHANGED <<cycleVars, deployVars>> PROVE AlarmScoped'
  BY <1>0, <1>16 DEF PushSave
<1>17. ASSUME NEW p \in Procs, PushDone(p), UNCHANGED <<cycleVars, deployVars>> PROVE AlarmScoped'
  BY <1>0, <1>17 DEF PushDone, LeavePush
<1>18. ASSUME NEW p \in Procs, PushFails(p), UNCHANGED <<cycleVars, deployVars>> PROVE AlarmScoped'
  BY <1>0, <1>18 DEF PushFails, LeavePush
<1>19. ASSUME NEW p \in Deploys, DeploySkips(p) PROVE AlarmScoped'
  BY <1>0, <1>19 DEF DeploySkips
<1>20. ASSUME NEW p \in Deploys, DeployNext(p) PROVE AlarmScoped'
  BY <1>0, <1>20 DEF DeployNext
<1>21. ASSUME NEW p \in Deploys, DeployCounts(p) PROVE AlarmScoped'
  BY <1>0, <1>21 DEF DeployCounts
<1>22. ASSUME NEW d \in Devices, Reload(d), UNCHANGED <<cycleVars, deployVars>> PROVE AlarmScoped'
  BY <1>0, <1>22 DEF Reload
<1>23. CASE UNCHANGED vars
  BY <1>0, <1>23 DEF vars
<1>24. QED
  BY <1>0, <1>1, <1>2, <1>3, <1>4, <1>5, <1>6, <1>7, <1>7a, <1>8, <1>9, <1>10, <1>11,
     <1>12, <1>13, <1>14, <1>15, <1>16, <1>17, <1>18, <1>19, <1>20, <1>21, <1>22, <1>23
     DEF Next, CycleStep, DeployStep, PushBy, PushStep

LEMMA RollbackAttemptedStep ==
  TypeOK /\ Phase /\ RollbackAttempted /\ [Next]_vars => RollbackAttempted'
<1> SUFFICES ASSUME TypeOK, Phase, RollbackAttempted, [Next]_vars PROVE RollbackAttempted'
  OBVIOUS
<1> USE DEF TypeOK, PushTypeOK, Phase, RollbackAttempted, Goto, InPush, Returned, Body,
            deviceVars, pushVars, cycleVars, resultVars, deployVars
<1>0. Cycles \subseteq Procs /\ Deploys \subseteq Procs /\ Cycles \cap Deploys = {}
  BY CycleAssumption
<1>1. ASSUME NEW c \in Cycles, Select(c) PROVE RollbackAttempted'
  BY <1>0, <1>1 DEF Select
<1>2. ASSUME NEW c \in Cycles, Inject(c) PROVE RollbackAttempted'
  BY <1>0, <1>2 DEF Inject, Configure
<1>3. ASSUME NEW c \in Cycles, CheckFabric(c) PROVE RollbackAttempted'
  BY <1>0, <1>3 DEF CheckFabric, Report
<1>4. ASSUME NEW c \in Cycles, CheckCompliance(c) PROVE RollbackAttempted'
  BY <1>0, <1>4 DEF CheckCompliance, Report
<1>5. ASSUME NEW c \in Cycles, BodyRaises(c) PROVE RollbackAttempted'
  BY <1>0, <1>5 DEF BodyRaises
<1>6. ASSUME NEW c \in Cycles, RollbackImpossible(c) PROVE RollbackAttempted'
  BY <1>0, <1>6 DEF RollbackImpossible
<1>7. ASSUME NEW c \in Cycles, RollbackInThread(c) PROVE RollbackAttempted'
  BY <1>0, <1>7 DEF RollbackInThread
<1>7a. ASSUME NEW c \in Cycles, FinallyRaises(c) PROVE RollbackAttempted'
  BY <1>0, <1>7a DEF FinallyRaises
<1>8. ASSUME NEW c \in Cycles, Rollback(c) PROVE RollbackAttempted'
  BY <1>0, <1>8 DEF Rollback
<1>9. ASSUME NEW c \in Cycles, End(c) PROVE RollbackAttempted'
  BY <1>0, <1>9 DEF End
<1>10. ASSUME NEW c \in Cycles, AlarmFires(c) PROVE RollbackAttempted'
  BY <1>0, <1>10 DEF AlarmFires, LeavePush
<1>11. ASSUME NEW c \in Cycles, InterruptRollback(c) PROVE RollbackAttempted'
  BY <1>0, <1>11 DEF InterruptRollback, LeavePush
<1>12. ASSUME NEW c \in Cycles, Kill(c) PROVE RollbackAttempted'
  BY <1>0, <1>12 DEF Kill, LeavePush
<1>13. ASSUME NEW p \in Procs, PushConnect(p), UNCHANGED <<cycleVars, deployVars>> PROVE RollbackAttempted'
  BY <1>0, <1>13 DEF PushConnect
<1>14. ASSUME NEW p \in Procs, PushLine(p), UNCHANGED <<cycleVars, deployVars>> PROVE RollbackAttempted'
  BY <1>0, <1>14 DEF PushLine, Configure
<1>15. ASSUME NEW p \in Procs, PushLineIneffective(p), UNCHANGED <<cycleVars, deployVars>> PROVE RollbackAttempted'
  BY <1>0, <1>15 DEF PushLineIneffective
<1>16. ASSUME NEW p \in Procs, PushSave(p), UNCHANGED <<cycleVars, deployVars>> PROVE RollbackAttempted'
  BY <1>0, <1>16 DEF PushSave
<1>17. ASSUME NEW p \in Procs, PushDone(p), UNCHANGED <<cycleVars, deployVars>> PROVE RollbackAttempted'
  BY <1>0, <1>17 DEF PushDone, LeavePush
<1>18. ASSUME NEW p \in Procs, PushFails(p), UNCHANGED <<cycleVars, deployVars>> PROVE RollbackAttempted'
  BY <1>0, <1>18 DEF PushFails, LeavePush
<1>19. ASSUME NEW p \in Deploys, DeploySkips(p) PROVE RollbackAttempted'
  BY <1>0, <1>19 DEF DeploySkips
<1>20. ASSUME NEW p \in Deploys, DeployNext(p) PROVE RollbackAttempted'
  BY <1>0, <1>20 DEF DeployNext
<1>21. ASSUME NEW p \in Deploys, DeployCounts(p) PROVE RollbackAttempted'
  BY <1>0, <1>21 DEF DeployCounts
<1>22. ASSUME NEW d \in Devices, Reload(d), UNCHANGED <<cycleVars, deployVars>> PROVE RollbackAttempted'
  BY <1>0, <1>22 DEF Reload
<1>23. CASE UNCHANGED vars
  BY <1>0, <1>23 DEF vars
<1>24. QED
  BY <1>0, <1>1, <1>2, <1>3, <1>4, <1>5, <1>6, <1>7, <1>7a, <1>8, <1>9, <1>10, <1>11,
     <1>12, <1>13, <1>14, <1>15, <1>16, <1>17, <1>18, <1>19, <1>20, <1>21, <1>22, <1>23
     DEF Next, CycleStep, DeployStep, PushBy, PushStep

-----------------------------------------------------------------------------
(* The theorems.                                                           *)

CycleInv ==
    /\ TypeOK /\ Phase /\ DeployPhase
    /\ RunningOwed /\ StartupOwed /\ FaultsInjected
    /\ VerdictFresh /\ DetectionSound /\ AlarmScoped

THEOREM CycleInvariant == Spec => []CycleInv
<1>1. Init => CycleInv
  BY TypeInit, PhaseInit, OwedInit, OriginInit
     DEF CycleInv, Init, DetectionSound, AlarmScoped
<1>2. CycleInv /\ [Next]_vars => CycleInv'
  BY TypeStep, PhaseStep, DeployPhaseStep, RunningOwedStep, StartupOwedStep,
     FaultsInjectedStep, VerdictFreshStep, DetectionSoundStep, AlarmScopedStep
     DEF CycleInv
<1>3. QED
  BY <1>1, <1>2, PTL DEF Spec

\* Every variable keeps its type, whatever cycles, deploys, timeouts and
\* restarts do; no deploy counts more failures than it has devices.
THEOREM CycleTypes == Spec => []TypeOK
BY CycleInvariant, PTL DEF CycleInv

\* rollback_fault: on a device that takes every line it is sent, a fault that
\* the generated file can take back is there only while a cycle answers for
\* it: one that is still at work, was killed, or reports that its rollback
\* has failed.
THEOREM FaultsAreAnswered == Spec => []FaultsAnswered
<1>1. CycleInv => FaultsAnswered
  <2> SUFFICES ASSUME CycleInv, NEW d \in Devices, Reliable(d),
                      NEW f \in running[d] \cap Restores(d)
               PROVE  Answered(d, f)
    BY DEF FaultsAnswered
  <2>1. PICK k \in Cycles : Injected(k, d, f) /\ ~TakenBack(k)
    BY DEF CycleInv, RunningOwed
  <2>2. ~rolled[k]
    BY <2>1 DEF CycleInv, Phase, TakenBack
  <2>3. QED
    BY <2>1, <2>2 DEF Answered, Injected
<1>2. QED
  BY <1>1, CycleInvariant, PTL

\* push_config_to_device, "write memory": the same of what the device would
\* come back with after a restart.
THEOREM SavedFaultsAreAnswered == Spec => []SavedFaultsAnswered
<1>1. CycleInv => SavedFaultsAnswered
  <2> SUFFICES ASSUME CycleInv, NEW d \in Devices, Reliable(d),
                      NEW f \in startup[d] \cap Restores(d)
               PROVE  Answered(d, f)
    BY DEF SavedFaultsAnswered
  <2>1. PICK k \in Cycles : Injected(k, d, f) /\ ~TakenBackSaved(k)
    BY DEF CycleInv, StartupOwed
  <2>2. ~rolled[k]
    BY <2>1 DEF CycleInv, Phase, TakenBackSaved
  <2>3. QED
    BY <2>1, <2>2 DEF Answered, Injected
<1>2. QED
  BY <1>1, CycleInvariant, PTL

\* verify_detection: a drift found by the compliance skill on an EOS or IOS-XE
\* device has been injected by some cycle; a device that does not answer is
\* never a detection.
THEOREM DetectionIsSound == Spec => []DetectionSound
BY CycleInvariant, PTL DEF CycleInv

\* rollback_fault: SIGALRM is armed nowhere but around the push.
THEOREM AlarmIsScoped == Spec => []AlarmScoped
BY CycleInvariant, PTL DEF CycleInv

\* run_chaos_test, "finally": a cycle that ends has pushed the configuration,
\* or tried to, whatever its body raised; failing that, an exception of the
\* finally block has reached its caller.
THEOREM RollbackIsAttempted == Spec => []RollbackAttempted
<1>1. Init => RollbackAttempted
  BY DEF Init, RollbackAttempted
<1>2. CycleInv /\ RollbackAttempted /\ [Next]_vars => RollbackAttempted'
  BY RollbackAttemptedStep DEF CycleInv
<1>3. QED
  BY <1>1, <1>2, CycleInvariant, PTL DEF Spec
=============================================================================
