---------------------- MODULE DeployPipelineGreen_proofs ----------------------
(***************************************************************************)
(* GreenIsDeployed: what a green pipeline has deployed.  As long as nobody *)
(* else that deploys is under way, its spec, then the files, then the      *)
(* devices are of the version it has read (Made, by the step it is at);    *)
(* all that others can do meanwhile is to build and validate snapshots.    *)
(***************************************************************************)
EXTENDS DeployPipeline_proofs

DeploySteps ==
    {<<"generate", "render", "testbed", "push", "reachability">>,
     <<"render", "testbed", "push", "reachability">>,
     <<"testbed", "push", "reachability">>,
     <<"push", "reachability">>,
     <<"reachability">>,
     <<"generate", "render", "build_snapshot", "validate", "push", "reachability", "agent">>,
     <<"render", "build_snapshot", "validate", "push", "reachability", "agent">>,
     <<"build_snapshot", "validate", "push", "reachability", "agent">>,
     <<"validate", "push", "reachability", "agent">>,
     <<"push", "reachability", "agent">>,
     <<"reachability", "agent">>,
     <<"agent">>,
     <<"checkout", "generate", "render", "push", "reachability", "agent">>,
     <<"generate", "render", "push", "reachability", "agent">>,
     <<"render", "push", "reachability", "agent">>}
ValidateSteps == {<<"build_snapshot", "validate">>, <<"validate">>}

Deploying(p) ==
    /\ Running(p)
    /\ Deploys(recipe[p])
    /\ recipe[p] \in Workflows => job[p] = 3

Undisturbed(p) == Deploying(p) /\ \A q \in met[p] : ~Deploys(recipe[q])

MakeCourses ==
    \A p \in Pipelines :
        /\ recipe[p] \in {"deploy", "deploy_safe"} => steps[p] \in DeploySteps \cup {<<>>}
        /\ recipe[p] = "validate_batfish" => steps[p] \in ValidateSteps \cup {<<>>}

HandIsRead ==
    \A p \in Pipelines : at[p] \in {"open", "dump"} => hand[p].version = read[p]

Front == {"testbed", "build_snapshot", "validate", "push"}

MadeSpec(p) == spec[Tree(p)] = [version |-> read[p], whole |-> TRUE]

MadeFiles(p, T) ==
    \A d \in Inventory[read[p]] : d \notin T => files[Tree(p)][d] = read[p]

MadeLive(p, T) ==
    \A d \in Inventory[read[p]] \cap target[p] : d \notin T => live[d] = read[p]

Made(p) ==
    /\ Head(steps[p]) \in {"render"} \cup Front => MadeSpec(p)
    /\ At(p, "render", "write") => hand[p].version = read[p] /\ MadeFiles(p, todo[p])
    /\ Head(steps[p]) \in Front => MadeFiles(p, {})
    /\ At(p, "push", "send") => MadeLive(p, todo[p])
    /\ Head(steps[p]) \in {"reachability", "agent"} => MadeLive(p, {})

MadeInv ==
    /\ MakeCourses
    /\ HandIsRead
    /\ \A p \in Pipelines : Undisturbed(p) => Made(p)

\* The step after another, of those that deploy.
Follows(x, y) ==
    \/ x = "checkout" /\ y = "generate"
    \/ x = "generate" /\ y = "render"
    \/ x = "render" /\ y \in Front
    \/ x \in Front \ {"push"} /\ y \in Front
    \/ x = "push" /\ y = "reachability"
    \/ x = "reachability" /\ y = "agent"

LEMMA DeployStepFacts ==
  ASSUME NEW s \in DeploySteps
  PROVE  /\ s # <<>>
         /\ IF Len(s) = 1
            THEN Tail(s) = <<>> /\ Head(s) \in {"reachability", "agent"}
            ELSE /\ Tail(s) \in DeploySteps
                 /\ Follows(Head(s), Head(Tail(s)))
<1>1. CASE s = <<"generate", "render", "testbed", "push", "reachability">>
  <2>1. /\ s # <<>> /\ Len(s) = 5 /\ Head(s) = "generate"
        /\ Tail(s) = <<"render", "testbed", "push", "reachability">> /\ Head(Tail(s)) = "render"
    BY <1>1
  <2>2. Tail(s) \in DeploySteps
    BY <2>1 DEF DeploySteps
  <2>3. Follows(Head(s), Head(Tail(s)))
    BY <2>1 DEF Follows, Front
  <2>4. QED
    BY <2>1, <2>2, <2>3
<1>2. CASE s = <<"render", "testbed", "push", "reachability">>
  <2>1. /\ s # <<>> /\ Len(s) = 4 /\ Head(s) = "render"
        /\ Tail(s) = <<"testbed", "push", "reachability">> /\ Head(Tail(s)) = "testbed"
    BY <1>2
  <2>2. Tail(s) \in DeploySteps
    BY <2>1 DEF DeploySteps
  <2>3. Follows(Head(s), Head(Tail(s)))
    BY <2>1 DEF Follows, Front
  <2>4. QED
    BY <2>1, <2>2, <2>3
<1>3. CASE s = <<"testbed", "push", "reachability">>
  <2>1. /\ s # <<>> /\ Len(s) = 3 /\ Head(s) = "testbed"
        /\ Tail(s) = <<"push", "reachability">> /\ Head(Tail(s)) = "push"
    BY <1>3
  <2>2. Tail(s) \in DeploySteps
    BY <2>1 DEF DeploySteps
  <2>3. Follows(Head(s), Head(Tail(s)))
    BY <2>1 DEF Follows, Front
  <2>4. QED
    BY <2>1, <2>2, <2>3
<1>4. CASE s = <<"push", "reachability">>
  <2>1. /\ s # <<>> /\ Len(s) = 2 /\ Head(s) = "push"
        /\ Tail(s) = <<"reachability">> /\ Head(Tail(s)) = "reachability"
    BY <1>4
  <2>2. Tail(s) \in DeploySteps
    BY <2>1 DEF DeploySteps
  <2>3. Follows(Head(s), Head(Tail(s)))
    BY <2>1 DEF Follows, Front
  <2>4. QED
    BY <2>1, <2>2, <2>3
<1>5. CASE s = <<"reachability">>
  <2>1. s # <<>> /\ Len(s) = 1 /\ Head(s) = "reachability" /\ Tail(s) = <<>>
    BY <1>5
  <2>2. QED
    BY <2>1
<1>6. CASE s = <<"generate", "render", "build_snapshot", "validate", "push", "reachability", "agent">>
  <2>1. /\ s # <<>> /\ Len(s) = 7 /\ Head(s) = "generate"
        /\ Tail(s) = <<"render", "build_snapshot", "validate", "push", "reachability", "agent">> /\ Head(Tail(s)) = "render"
    BY <1>6
  <2>2. Tail(s) \in DeploySteps
    BY <2>1 DEF DeploySteps
  <2>3. Follows(Head(s), Head(Tail(s)))
    BY <2>1 DEF Follows, Front
  <2>4. QED
    BY <2>1, <2>2, <2>3
<1>7. CASE s = <<"render", "build_snapshot", "validate", "push", "reachability", "agent">>
  <2>1. /\ s # <<>> /\ Len(s) = 6 /\ Head(s) = "render"
        /\ Tail(s) = <<"build_snapshot", "validate", "push", "reachability", "agent">> /\ Head(Tail(s)) = "build_snapshot"
    BY <1>7
  <2>2. Tail(s) \in DeploySteps
    BY <2>1 DEF DeploySteps
  <2>3. Follows(Head(s), Head(Tail(s)))
    BY <2>1 DEF Follows, Front
  <2>4. QED
    BY <2>1, <2>2, <2>3
<1>8. CASE s = <<"build_snapshot", "validate", "push", "reachability", "agent">>
  <2>1. /\ s # <<>> /\ Len(s) = 5 /\ Head(s) = "build_snapshot"
        /\ Tail(s) = <<"validate", "push", "reachability", "agent">> /\ Head(Tail(s)) = "validate"
    BY <1>8
  <2>2. Tail(s) \in DeploySteps
    BY <2>1 DEF DeploySteps
  <2>3. Follows(Head(s), Head(Tail(s)))
    BY <2>1 DEF Follows, Front
  <2>4. QED
    BY <2>1, <2>2, <2>3
<1>9. CASE s = <<"validate", "push", "reachability", "agent">>
  <2>1. /\ s # <<>> /\ Len(s) = 4 /\ Head(s) = "validate"
        /\ Tail(s) = <<"push", "reachability", "agent">> /\ Head(Tail(s)) = "push"
    BY <1>9
  <2>2. Tail(s) \in DeploySteps
    BY <2>1 DEF DeploySteps
  <2>3. Follows(Head(s), Head(Tail(s)))
    BY <2>1 DEF Follows, Front
  <2>4. QED
    BY <2>1, <2>2, <2>3
<1>10. CASE s = <<"push", "reachability", "agent">>
  <2>1. /\ s # <<>> /\ Len(s) = 3 /\ Head(s) = "push"
        /\ Tail(s) = <<"reachability", "agent">> /\ Head(Tail(s)) = "reachability"
    BY <1>10
  <2>2. Tail(s) \in DeploySteps
    BY <2>1 DEF DeploySteps
  <2>3. Follows(Head(s), Head(Tail(s)))
    BY <2>1 DEF Follows, Front
  <2>4. QED
    BY <2>1, <2>2, <2>3
<1>11. CASE s = <<"reachability", "agent">>
  <2>1. /\ s # <<>> /\ Len(s) = 2 /\ Head(s) = "reachability"
        /\ Tail(s) = <<"agent">> /\ Head(Tail(s)) = "agent"
    BY <1>11
  <2>2. Tail(s) \in DeploySteps
    BY <2>1 DEF DeploySteps
  <2>3. Follows(Head(s), Head(Tail(s)))
    BY <2>1 DEF Follows, Front
  <2>4. QED
    BY <2>1, <2>2, <2>3
<1>12. CASE s = <<"agent">>
  <2>1. s # <<>> /\ Len(s) = 1 /\ Head(s) = "agent" /\ Tail(s) = <<>>
    BY <1>12
  <2>2. QED
    BY <2>1
<1>13. CASE s = <<"checkout", "generate", "render", "push", "reachability", "agent">>
  <2>1. /\ s # <<>> /\ Len(s) = 6 /\ Head(s) = "checkout"
        /\ Tail(s) = <<"generate", "render", "push", "reachability", "agent">> /\ Head(Tail(s)) = "generate"
    BY <1>13
  <2>2. Tail(s) \in DeploySteps
    BY <2>1 DEF DeploySteps
  <2>3. Follows(Head(s), Head(Tail(s)))
    BY <2>1 DEF Follows, Front
  <2>4. QED
    BY <2>1, <2>2, <2>3
<1>14. CASE s = <<"generate", "render", "push", "reachability", "agent">>
  <2>1. /\ s # <<>> /\ Len(s) = 5 /\ Head(s) = "generate"
        /\ Tail(s) = <<"render", "push", "reachability", "agent">> /\ Head(Tail(s)) = "render"
    BY <1>14
  <2>2. Tail(s) \in DeploySteps
    BY <2>1 DEF DeploySteps
  <2>3. Follows(Head(s), Head(Tail(s)))
    BY <2>1 DEF Follows, Front
  <2>4. QED
    BY <2>1, <2>2, <2>3
<1>15. CASE s = <<"render", "push", "reachability", "agent">>
  <2>1. /\ s # <<>> /\ Len(s) = 4 /\ Head(s) = "render"
        /\ Tail(s) = <<"push", "reachability", "agent">> /\ Head(Tail(s)) = "push"
    BY <1>15
  <2>2. Tail(s) \in DeploySteps
    BY <2>1 DEF DeploySteps
  <2>3. Follows(Head(s), Head(Tail(s)))
    BY <2>1 DEF Follows, Front
  <2>4. QED
    BY <2>1, <2>2, <2>3
<1>16. QED
  BY <1>1, <1>2, <1>3, <1>4, <1>5, <1>6, <1>7, <1>8, <1>9, <1>10, <1>11, <1>12, <1>13, <1>14, <1>15
     DEF DeploySteps

LEMMA ValidateStepFacts ==
  ASSUME NEW s \in ValidateSteps
  PROVE  /\ s # <<>> /\ Head(s) \in {"build_snapshot", "validate"}
         /\ IF Len(s) = 1 THEN Tail(s) = <<>> ELSE Tail(s) \in ValidateSteps
<1>1. CASE s = <<"build_snapshot", "validate">>
  <2>1. /\ s # <<>> /\ Len(s) = 2 /\ Head(s) = "build_snapshot"
        /\ Tail(s) = <<"validate">>
    BY <1>1
  <2>2. QED
    BY <2>1 DEF ValidateSteps
<1>2. CASE s = <<"validate">>
  <2>1. s # <<>> /\ Len(s) = 1 /\ Head(s) = "validate" /\ Tail(s) = <<>>
    BY <1>2
  <2>2. QED
    BY <2>1
<1>3. QED
  BY <1>1, <1>2 DEF ValidateSteps

LEMMA DeployingFacts ==
  ASSUME Inv, MakeCourses, NEW p \in Pipelines, Deploying(p)
  PROVE  steps[p] \in DeploySteps
<1>1. CASE recipe[p] \in Workflows
  <2>1. steps[p] # <<>> /\ job[p] = 3 /\ ProgressOf(p)
    BY <1>1 DEF Deploying, Running, Inv, Checked
  <2>2. steps[p] \in DeployLeft
    BY <2>1 DEF ProgressOf, Progress
  <2>3. QED
    BY <2>2 DEF DeployLeft, DeploySteps
<1>2. CASE recipe[p] \notin Workflows
  BY <1>2 DEF Deploying, Deploys, Running, MakeCourses, Inv, Shape, MakeRecipes
<1>3. QED
  BY <1>1, <1>2

-----------------------------------------------------------------------------
(* Courses.                                                                *)

\* How a step of p changes the plans: not at all, or by ending.
LEMMA StepCourse ==
  ASSUME TypeInv, NEW p \in Pipelines,
         \/ StepFails(p) \/ Checkout(p)
         \/ ReadNetBox(p) \/ OpenSpec(p) \/ DumpSpec(p) \/ ReadSpec(p)
         \/ RenderFile(p) \/ Rendered(p)
         \/ ClearSnapshot(p) \/ MakeSnapshot(p) \/ CopyFile(p) \/ SnapshotBuilt(p)
         \/ Upload(p) \/ Query(p) \/ PushDevice(p) \/ Pushed(p)
         \/ Reachability(p) \/ Check(p)
  PROVE  /\ Running(p) /\ UNCHANGED <<recipe, target, met>>
         /\ UNCHANGED <<steps, job, outcome>> \/ Succeeds(p) \/ Fails(p)
         /\ \A q \in Pipelines \ {p} :
               /\ steps'[q] = steps[q] /\ job'[q] = job[q] /\ outcome'[q] = outcome[q]
               /\ at'[q] = at[q] /\ hand'[q] = hand[q] /\ todo'[q] = todo[q]
<1>1. Running(p) /\ UNCHANGED <<recipe, target, met>>
  BY DEF StepFails, Checkout, ReadNetBox, OpenSpec, DumpSpec, ReadSpec, RenderFile, Rendered,
         ClearSnapshot, MakeSnapshot, CopyFile, SnapshotBuilt, Upload, Query, PushDevice,
         Pushed, Reachability, Check, Building, At, fixedVars
<1>2. \/ \E x, h, T : Continue(p, x, h, T)
      \/ Succeeds(p) \/ Fails(p)
  BY DEF StepFails, Checkout, ReadNetBox, OpenSpec, DumpSpec, ReadSpec, RenderFile, Rendered,
         ClearSnapshot, MakeSnapshot, CopyFile, SnapshotBuilt, Upload, Query, PushDevice,
         Pushed, Reachability, Check
<1>3. UNCHANGED <<steps, job, outcome>> \/ Succeeds(p) \/ Fails(p)
  BY <1>2 DEF Continue
<1>4. \A q \in Pipelines \ {p} :
         /\ steps'[q] = steps[q] /\ job'[q] = job[q] /\ outcome'[q] = outcome[q]
         /\ at'[q] = at[q] /\ hand'[q] = hand[q] /\ todo'[q] = todo[q]
  BY <1>2 DEF Continue, Succeeds, Fails, Ends, Forget, TypeInv, Courses, Shape, Hands
<1>5. QED
  BY <1>1, <1>3, <1>4

LEMMA MakeCoursesKept ==
  ASSUME TypeInv, MakeCourses, [Next]_vars
  PROVE  MakeCourses'
<1>1. CASE UNCHANGED vars \/ EditNetBox
  BY <1>1 DEF EditNetBox, vars, runVars, fixedVars, MakeCourses
<1>2. ASSUME NEW p \in Pipelines, SkipJob(p)
      PROVE  MakeCourses'
  BY <1>2 DEF SkipJob, fixedVars, MakeCourses
<1>3. ASSUME NEW p \in Pipelines, StartJob(p)
      PROVE  MakeCourses'
  <2>1. /\ steps' = [steps EXCEPT ![p] = Steps[Job(p)]] /\ ~Over(p)
        /\ UNCHANGED recipe
    BY <1>3 DEF StartJob, fixedVars
  <2>2. ASSUME recipe[p] \in MakeRecipes
        PROVE  /\ recipe[p] \in {"deploy", "deploy_safe"} => steps'[p] \in DeploySteps
               /\ recipe[p] = "validate_batfish" => steps'[p] \in ValidateSteps
    <3>1. Len(Plan(recipe[p])) = 1 /\ Plan(recipe[p])[1] = recipe[p]
      BY <2>2, RecipeFacts
    <3>2. Job(p) = recipe[p]
      BY <2>1, <3>1 DEF Job, Over, TypeInv, Courses
    <3>3. steps'[p] = Steps[recipe[p]]
      BY <2>1, <3>2 DEF TypeInv, Courses
    <3>4. CASE recipe[p] = "deploy"
      <4>1. steps'[p] = <<"generate", "render", "testbed", "push", "reachability">>
        BY <3>3, <3>4 DEF Steps
      <4>2. QED
        BY <3>4, <4>1 DEF DeploySteps
    <3>5. CASE recipe[p] = "deploy_safe"
      <4>1. steps'[p] = <<"generate", "render", "build_snapshot", "validate", "push",
                          "reachability", "agent">>
        BY <3>3, <3>5 DEF Steps
      <4>2. QED
        BY <3>5, <4>1 DEF DeploySteps
    <3>6. CASE recipe[p] = "validate_batfish"
      <4>1. steps'[p] = <<"build_snapshot", "validate">>
        BY <3>3, <3>6 DEF Steps
      <4>2. QED
        BY <3>6, <4>1 DEF ValidateSteps
    <3>7. QED
      BY <2>2, <3>4, <3>5, <3>6 DEF MakeRecipes
  <2>3. \A q \in Pipelines \ {p} : steps'[q] = steps[q]
    BY <2>1 DEF TypeInv, Courses
  <2>4. QED
    BY <2>1, <2>2, <2>3 DEF MakeCourses, MakeRecipes
<1>4. ASSUME NEW p \in Pipelines,
             \/ StepFails(p) \/ Checkout(p)
             \/ ReadNetBox(p) \/ OpenSpec(p) \/ DumpSpec(p) \/ ReadSpec(p)
             \/ RenderFile(p) \/ Rendered(p)
             \/ ClearSnapshot(p) \/ MakeSnapshot(p) \/ CopyFile(p) \/ SnapshotBuilt(p)
             \/ Upload(p) \/ Query(p) \/ PushDevice(p) \/ Pushed(p)
             \/ Reachability(p) \/ Check(p)
      PROVE  MakeCourses'
  <2>1. /\ UNCHANGED recipe /\ steps[p] # <<>>
        /\ UNCHANGED steps \/ Succeeds(p) \/ Fails(p)
        /\ \A q \in Pipelines \ {p} : steps'[q] = steps[q]
    BY <1>4, StepCourse DEF Running
  <2>2. steps'[p] \in {steps[p], Tail(steps[p]), <<>>}
    BY <2>1 DEF Succeeds, Fails, TypeInv, Courses
  <2>3. steps[p] \in DeploySteps => Tail(steps[p]) \in DeploySteps \cup {<<>>}
    BY DeployStepFacts
  <2>4. steps[p] \in ValidateSteps => Tail(steps[p]) \in ValidateSteps \cup {<<>>}
    BY ValidateStepFacts
  <2>5. QED
    BY <2>1, <2>2, <2>3, <2>4 DEF MakeCourses
<1>5. QED
  BY <1>1, <1>2, <1>3, <1>4 DEF Next

LEMMA HandIsReadKept ==
  ASSUME TypeInv, HandIsRead, [Next]_vars
  PROVE  HandIsRead'
<1>1. CASE UNCHANGED <<at, hand, read>>
  BY <1>1 DEF HandIsRead
<1>2. CASE UNCHANGED vars \/ EditNetBox \/ \E p \in Pipelines : StartJob(p) \/ SkipJob(p)
  BY <1>1, <1>2 DEF EditNetBox, StartJob, SkipJob, vars, runVars, ledgerVars
<1>3. ASSUME NEW p \in Pipelines,
             \/ StepFails(p) \/ Checkout(p)
             \/ ReadNetBox(p) \/ OpenSpec(p) \/ DumpSpec(p) \/ ReadSpec(p)
             \/ RenderFile(p) \/ Rendered(p)
             \/ ClearSnapshot(p) \/ MakeSnapshot(p) \/ CopyFile(p) \/ SnapshotBuilt(p)
             \/ Upload(p) \/ Query(p) \/ PushDevice(p) \/ Pushed(p)
             \/ Reachability(p) \/ Check(p)
      PROVE  HandIsRead'
  <2>1. \A q \in Pipelines \ {p} : at'[q] = at[q] /\ hand'[q] = hand[q] /\ read'[q] = read[q]
    <3>1. CASE ReadNetBox(p)
      BY <1>3, <3>1, StepCourse DEF ReadNetBox, TypeInv, Ledger
    <3>2. CASE ~ReadNetBox(p)
      <4>1. UNCHANGED read
        BY <1>3, <3>2 DEF StepFails, Checkout, OpenSpec, DumpSpec, ReadSpec, RenderFile, Rendered,
               ClearSnapshot, MakeSnapshot, CopyFile, SnapshotBuilt, Upload, Query, PushDevice,
               Pushed, Reachability, Check, ledgerVars
      <4>2. QED
        BY <1>3, <4>1, StepCourse
    <3>3. QED
      BY <3>1, <3>2
  <2>2. at'[p] \in {"open", "dump"} => hand'[p].version = read'[p]
    <3>1. CASE ReadNetBox(p)
      BY <3>1 DEF ReadNetBox, Continue, TypeInv, Hands, Ledger
    <3>2. CASE OpenSpec(p)
      <4>1. at[p] = "open" /\ UNCHANGED read /\ hand'[p] = hand[p]
        BY <3>2 DEF OpenSpec, At, Continue, ledgerVars, TypeInv, Hands
      <4>2. QED
        BY <4>1 DEF HandIsRead
    <3>3. CASE ~ReadNetBox(p) /\ ~OpenSpec(p)
      <4>1. \/ Forget(p)
            \/ \E x \in {"write", "clear", "send", "ping", "check", "mkdir", "copy", "upload",
                         "query", "send_on"} : \E h, T : Continue(p, x, h, T)
        <5>1. CASE ReadSpec(p)
          BY <5>1 DEF ReadSpec
        <5>2. CASE PushDevice(p)
          BY <5>2 DEF PushDevice, At
        <5>3. CASE RenderFile(p)
          BY <5>3 DEF RenderFile
        <5>4. CASE ClearSnapshot(p) \/ MakeSnapshot(p) \/ CopyFile(p) \/ Upload(p)
          BY <5>4 DEF ClearSnapshot, MakeSnapshot, CopyFile, Upload
        <5>5. CASE SnapshotBuilt(p) \/ Query(p) \/ StepFails(p) \/ Checkout(p) \/ DumpSpec(p)
                     \/ Rendered(p) \/ Pushed(p) \/ Reachability(p) \/ Check(p)
          BY <5>5 DEF SnapshotBuilt, Query, StepFails, Checkout, DumpSpec, Rendered, Pushed,
                      Reachability, Check, Succeeds, Fails
        <5>6. QED
          BY <1>3, <3>3, <5>1, <5>2, <5>3, <5>4, <5>5
      <4>2. at'[p] \notin {"open", "dump"}
        BY <4>1 DEF Forget, Continue, TypeInv, Hands
      <4>3. QED
        BY <4>2
    <3>4. QED
      BY <3>1, <3>2, <3>3
  <2>3. QED
    BY <2>1, <2>2 DEF HandIsRead
<1>4. QED
  BY <1>2, <1>3 DEF Next

-----------------------------------------------------------------------------
(* One step.                                                               *)

\* Another pipeline builds and validates snapshots at most.
LEMMA OthersMade ==
  ASSUME Inv, TypeInv, SeenInv, MadeInv, NEW p \in Pipelines,
         \/ StepFails(p) \/ Checkout(p)
         \/ ReadNetBox(p) \/ OpenSpec(p) \/ DumpSpec(p) \/ ReadSpec(p)
         \/ RenderFile(p) \/ Rendered(p)
         \/ ClearSnapshot(p) \/ MakeSnapshot(p) \/ CopyFile(p) \/ SnapshotBuilt(p)
         \/ Upload(p) \/ Query(p) \/ PushDevice(p) \/ Pushed(p)
         \/ Reachability(p) \/ Check(p),
         NEW q \in Pipelines \ {p}, Undisturbed(q)'
  PROVE  Made(q)'
<1>1. /\ Running(p) /\ UNCHANGED <<recipe, target, met>>
      /\ steps'[q] = steps[q] /\ job'[q] = job[q]
      /\ at'[q] = at[q] /\ hand'[q] = hand[q] /\ todo'[q] = todo[q]
  BY StepCourse
<1>2. Undisturbed(q) /\ Running(q) /\ (Running(q)' <=> Running(q))
  BY <1>1 DEF Undisturbed, Deploying, Running
<1>3. recipe[p] = "validate_batfish"
  BY <1>1, <1>2 DEF SeenInv, Meetings, Undisturbed, Deploys
<1>4. steps[p] \in ValidateSteps
  BY <1>1, <1>3 DEF MadeInv, MakeCourses, Running
<1>5. Head(steps[p]) \in {"build_snapshot", "validate"}
  BY <1>4, ValidateStepFacts
<1>6. \/ StepFails(p) \/ ReadSpec(p) \/ ClearSnapshot(p) \/ MakeSnapshot(p) \/ CopyFile(p)
      \/ SnapshotBuilt(p) \/ Upload(p) \/ Query(p)
  BY <1>5 DEF Checkout, ReadNetBox, OpenSpec, DumpSpec, RenderFile, Rendered, PushDevice,
              Pushed, Reachability, Check, At
<1>7. UNCHANGED <<spec, files, live, read>>
  BY <1>6 DEF StepFails, ReadSpec, ClearSnapshot, MakeSnapshot, CopyFile, SnapshotBuilt, Upload,
              Query, treeVars, ledgerVars
<1>8. Made(q)
  BY <1>2 DEF MadeInv
<1>9. QED
  BY <1>1, <1>2, <1>7, <1>8 DEF Made, MadeSpec, MadeFiles, MadeLive, At, Tree

\* Its own step before the last leaves p at the same step or the next.
LEMMA OwnCourse ==
  ASSUME Inv, TypeInv, MadeInv, NEW p \in Pipelines, Undisturbed(p)',
         \/ StepFails(p) \/ Checkout(p)
         \/ ReadNetBox(p) \/ OpenSpec(p) \/ DumpSpec(p) \/ ReadSpec(p)
         \/ RenderFile(p) \/ Rendered(p)
         \/ ClearSnapshot(p) \/ MakeSnapshot(p) \/ CopyFile(p) \/ SnapshotBuilt(p)
         \/ Upload(p) \/ Query(p) \/ PushDevice(p) \/ Pushed(p)
         \/ Reachability(p) \/ Check(p)
  PROVE  /\ Undisturbed(p) /\ Made(p) /\ steps[p] \in DeploySteps
         /\ UNCHANGED <<recipe, target>> /\ Tree(p)' = Tree(p) /\ ~Fails(p)
         /\ \/ UNCHANGED steps
            \/ /\ Succeeds(p) /\ at'[p] = "start"
               /\ Follows(Head(steps[p]), Head(steps'[p]))
<1>1. /\ Running(p) /\ UNCHANGED <<recipe, target, met>>
      /\ UNCHANGED <<steps, job, outcome>> \/ Succeeds(p) \/ Fails(p)
  BY StepCourse
<1>2. Running(p)' /\ steps'[p] # <<>>
  BY DEF Undisturbed, Deploying, Running
<1>3. ~Fails(p)
  BY <1>2 DEF Fails, TypeInv, Courses
<1>4. ASSUME Deploying(p)
      PROVE  steps[p] \in DeploySteps
  BY <1>4, DeployingFacts DEF MadeInv
<1>5. CASE UNCHANGED <<steps, job, outcome>>
  <2>1. Undisturbed(p)
    BY <1>1, <1>5 DEF Undisturbed, Deploying
  <2>2. QED
    BY <1>1, <1>3, <1>4, <1>5, <2>1 DEF Undisturbed, MadeInv, Tree
<1>6. CASE Succeeds(p)
  <2>1. steps'[p] = Tail(steps[p]) /\ at'[p] = "start"
    BY <1>6 DEF Succeeds, Forget, TypeInv, Courses, Hands
  <2>2. Len(steps[p]) # 1
    <3>1. SUFFICES ASSUME Len(steps[p]) = 1 PROVE FALSE
      OBVIOUS
    <3>2. steps[p] \in Seq(StepNames) /\ steps[p] # <<>>
      BY <1>1 DEF TypeInv, Courses, Running
    <3>3. Tail(steps[p]) \in Seq(StepNames) /\ Len(Tail(steps[p])) = 0
      BY <3>1, <3>2, HeadTailProperties
    <3>4. Tail(steps[p]) = <<>>
      BY <3>3, EmptySeq
    <3>5. QED
      BY <1>2, <2>1, <3>4
  <2>3. UNCHANGED job
    BY <1>6, <2>2 DEF Succeeds
  <2>4. Undisturbed(p)
    BY <1>1, <2>3 DEF Undisturbed, Deploying
  <2>5. steps[p] \in DeploySteps
    BY <1>4, <2>4 DEF Undisturbed
  <2>6. Follows(Head(steps[p]), Head(steps'[p]))
    BY <2>1, <2>2, <2>5, DeployStepFacts
  <2>7. QED
    BY <1>1, <1>3, <1>6, <2>1, <2>4, <2>5, <2>6 DEF MadeInv, Tree
<1>7. QED
  BY <1>1, <1>3, <1>5, <1>6

LEMMA GenerateMade ==
  ASSUME Inv, TypeInv, MadeInv, NEW p \in Pipelines, Undisturbed(p)',
         Checkout(p) \/ ReadNetBox(p) \/ OpenSpec(p) \/ DumpSpec(p)
  PROVE  Made(p)'
<1>1. /\ UNCHANGED recipe /\ Tree(p)' = Tree(p)
      /\ \/ UNCHANGED steps
         \/ at'[p] = "start" /\ Follows(Head(steps[p]), Head(steps'[p]))
  BY OwnCourse
<1>2. CASE Checkout(p) \/ ReadNetBox(p) \/ OpenSpec(p)
  <2>1. Head(steps'[p]) \in {"checkout", "generate"}
    BY <1>1, <1>2 DEF Checkout, ReadNetBox, OpenSpec, At, Follows, Front, Continue
  <2>2. QED
    BY <2>1 DEF Made, At, Front
<1>3. CASE DumpSpec(p)
  <2>1. /\ Head(steps[p]) = "generate" /\ at[p] = "dump" /\ at'[p] = "start"
        /\ UNCHANGED read
    BY <1>3 DEF DumpSpec, At, ledgerVars, Succeeds, Forget, TypeInv, Hands
  <2>2. hand[p].version = read[p]
    BY <2>1 DEF MadeInv, HandIsRead
  <2>3. Tree(p) \in Trees
    BY DEF Tree, Trees
  <2>4. MadeSpec(p)'
    BY <1>1, <1>3, <2>1, <2>2, <2>3 DEF DumpSpec, MadeSpec, TypeInv, World
  <2>5. Head(steps'[p]) \in {"generate", "render"}
    BY <1>1, <2>1 DEF Follows, Front
  <2>6. QED
    BY <2>1, <2>4, <2>5 DEF Made, At, Front
<1>4. QED
  BY <1>2, <1>3

LEMMA RenderMade ==
  ASSUME Inv, TypeInv, MadeInv, NEW p \in Pipelines, Undisturbed(p)',
         RenderFile(p) \/ Rendered(p)
  PROVE  Made(p)'
<1>1. /\ UNCHANGED recipe /\ Tree(p)' = Tree(p) /\ Made(p) /\ Running(p)
      /\ \/ UNCHANGED steps
         \/ at'[p] = "start" /\ Follows(Head(steps[p]), Head(steps'[p]))
  BY OwnCourse DEF Undisturbed, Deploying
<1>2. /\ At(p, "render", "write") /\ Head(steps[p]) = "render"
      /\ UNCHANGED <<read, spec>>
  BY DEF RenderFile, Rendered, At, treeVars, ledgerVars
<1>3. /\ hand[p].version = read[p] /\ MadeFiles(p, todo[p]) /\ MadeSpec(p)
  BY <1>1, <1>2 DEF Made
<1>4. MadeSpec(p)'
  BY <1>1, <1>2, <1>3 DEF MadeSpec
<1>5. CASE RenderFile(p)
  <2>1. PICK d \in Least(todo[p]) :
           /\ files' = [files EXCEPT ![Tree(p)][d] = hand[p].version]
           /\ Continue(p, "write", hand[p], todo[p] \ {d})
    BY <1>5 DEF RenderFile
  <2>2. /\ hand'[p] = hand[p] /\ todo'[p] = todo[p] \ {d} /\ UNCHANGED steps
    BY <2>1 DEF Continue, TypeInv, Hands
  <2>3. Tree(p) \in Trees /\ files[Tree(p)] \in Artefacts
    BY DEF Tree, Trees, TypeInv, World
  <2>4. Inventory[read[p]] \subseteq Devices
    <3>1. spec[Tree(p)].version \in Versions
      BY <2>3 DEF TypeInv, World
    <3>2. read[p] \in Versions
      BY <1>3, <3>1 DEF MadeSpec
    <3>3. QED
      BY <3>2, PipelineAssumption
  <2>5. files'[Tree(p)] = [files[Tree(p)] EXCEPT ![d] = read[p]]
    BY <1>3, <2>1, <2>3 DEF TypeInv, World
  <2>6. ASSUME NEW e \in Inventory[read[p]], e \notin todo[p] \ {d}
        PROVE  files'[Tree(p)][e] = read[p]
    <3>1. CASE e = d
      BY <2>3, <2>4, <2>5, <3>1 DEF Artefacts
    <3>2. CASE e # d
      <4>1. files[Tree(p)][e] = read[p]
        BY <1>3, <2>6, <3>2 DEF MadeFiles
      <4>2. QED
        BY <2>3, <2>4, <2>5, <3>2, <4>1 DEF Artefacts
    <3>3. QED
      BY <3>1, <3>2
  <2>7. MadeFiles(p, todo[p])'
    BY <1>1, <1>2, <2>2, <2>6 DEF MadeFiles
  <2>8. QED
    BY <1>2, <1>3, <1>4, <2>2, <2>7 DEF Made, At, Front
<1>6. CASE Rendered(p)
  <2>1. todo[p] = {} /\ UNCHANGED files /\ Succeeds(p)
    BY <1>6 DEF Rendered, treeVars
  <2>2. MadeFiles(p, {})'
    BY <1>1, <1>2, <1>3, <2>1 DEF MadeFiles
  <2>3. at'[p] = "start"
    BY <2>1 DEF Succeeds, Forget, TypeInv, Hands
  <2>4. Head(steps'[p]) \in {"render"} \cup Front
    BY <1>1, <1>2 DEF Follows, Front
  <2>5. QED
    BY <1>4, <2>2, <2>3, <2>4 DEF Made, At, Front
<1>7. QED
  BY <1>5, <1>6

\* Building the snapshot and judging it leave spec, files and devices.
LEMMA FrontMade ==
  ASSUME Inv, TypeInv, MadeInv, NEW p \in Pipelines, Undisturbed(p)',
         \/ ClearSnapshot(p) \/ MakeSnapshot(p) \/ CopyFile(p) \/ SnapshotBuilt(p)
         \/ Upload(p) \/ Query(p) \/ (At(p, "testbed", "check") /\ Check(p))
  PROVE  Made(p)'
<1>1. /\ UNCHANGED recipe /\ Tree(p)' = Tree(p) /\ Made(p)
      /\ \/ UNCHANGED steps
         \/ at'[p] = "start" /\ Follows(Head(steps[p]), Head(steps'[p]))
  BY OwnCourse
<1>2. Head(steps[p]) \in {"testbed", "build_snapshot", "validate"}
  BY DEF ClearSnapshot, MakeSnapshot, CopyFile, SnapshotBuilt, Upload, Query, Building, At
<1>3. Head(steps[p]) \in Front /\ MadeSpec(p) /\ MadeFiles(p, {})
  BY <1>1, <1>2 DEF Made, Front
<1>4. UNCHANGED <<read, spec, files>>
  BY DEF ClearSnapshot, MakeSnapshot, CopyFile, SnapshotBuilt, Upload, Query, Check,
         treeVars, ledgerVars
<1>5. MadeSpec(p)' /\ MadeFiles(p, {})'
  BY <1>1, <1>3, <1>4 DEF MadeSpec, MadeFiles
<1>6. Head(steps'[p]) \in Front /\ ~At(p, "push", "send")'
  BY <1>1, <1>2, <1>3 DEF Follows, Front, At
<1>7. QED
  BY <1>5, <1>6 DEF Made, At, Front

\* What it reads of its spec is all of what it has read of NetBox.
LEMMA ReadSpecMade ==
  ASSUME Inv, TypeInv, MadeInv, NEW p \in Pipelines, Undisturbed(p)', ReadSpec(p)
  PROVE  Made(p)'
<1>1. /\ UNCHANGED <<recipe, target>> /\ Tree(p)' = Tree(p) /\ Made(p)
  BY OwnCourse
<1>2. PICK h \in SpecRead(p) :
         \/ At(p, "render", "start") /\ Continue(p, "write", h, h.devices)
         \/ /\ At(p, "build_snapshot", "start") \/ At(p, "validate", "start")
            /\ Continue(p, "clear", h, {})
         \/ At(p, "push", "start") /\ Continue(p, "send", h, h.devices \cap target[p])
         \/ At(p, "reachability", "start") /\ Continue(p, "ping", h, {})
         \/ At(p, "testbed", "start") /\ Continue(p, "check", h, {})
  BY DEF ReadSpec
<1>3. UNCHANGED <<steps, spec, files, live, read>>
  BY <1>2 DEF ReadSpec, treeVars, ledgerVars, Continue
<1>4. \A x, T : Continue(p, x, h, T) => at'[p] = x /\ hand'[p] = h /\ todo'[p] = T
  BY DEF Continue, TypeInv, Hands
<1>5. Head(steps[p]) \in {"render"} \cup Front => MadeSpec(p)' /\ MadeSpec(p)
  BY <1>1, <1>3 DEF Made, MadeSpec
<1>6. Head(steps[p]) \in Front => MadeFiles(p, {})'
  BY <1>1, <1>3 DEF Made, MadeFiles
<1>7. Head(steps[p]) \in {"reachability", "agent"} => MadeLive(p, {})'
  BY <1>1, <1>3 DEF Made, MadeLive
<1>8. MadeSpec(p) => h = [version |-> read[p], devices |-> Inventory[read[p]]]
  BY DEF MadeSpec, SpecRead
<1>9. At(p, "render", "write")' =>
         hand'[p].version = read'[p] /\ MadeFiles(p, todo[p])'
  <2>1. SUFFICES ASSUME Head(steps[p]) = "render", at'[p] = "write"
                 PROVE  hand'[p].version = read'[p] /\ MadeFiles(p, todo[p])'
    BY <1>3 DEF At
  <2>2. hand'[p] = h /\ todo'[p] = h.devices
    BY <1>2, <1>4, <2>1 DEF At
  <2>3. h = [version |-> read[p], devices |-> Inventory[read[p]]]
    BY <1>5, <1>8, <2>1
  <2>4. QED
    BY <1>3, <2>2, <2>3 DEF MadeFiles
<1>10. At(p, "push", "send")' => MadeLive(p, todo[p])'
  <2>1. SUFFICES ASSUME Head(steps[p]) = "push", at'[p] = "send"
                 PROVE  MadeLive(p, todo[p])'
    BY <1>3 DEF At
  <2>2. todo'[p] = h.devices \cap target[p]
    BY <1>2, <1>4, <2>1 DEF At
  <2>3. h = [version |-> read[p], devices |-> Inventory[read[p]]]
    BY <1>5, <1>8, <2>1 DEF Front
  <2>4. QED
    BY <1>1, <1>3, <2>2, <2>3 DEF MadeLive
<1>11. QED
  BY <1>3, <1>5, <1>6, <1>7, <1>9, <1>10 DEF Made

LEMMA PushMade ==
  ASSUME Inv, TypeInv, MadeInv, NEW p \in Pipelines, Undisturbed(p)',
         PushDevice(p) \/ Pushed(p)
  PROVE  Made(p)'
<1>1. /\ UNCHANGED <<recipe, target>> /\ Tree(p)' = Tree(p) /\ Made(p)
      /\ \/ UNCHANGED steps
         \/ at'[p] = "start" /\ Follows(Head(steps[p]), Head(steps'[p]))
  BY OwnCourse
<1>2. Head(steps[p]) = "push" /\ Head(steps[p]) \in Front /\ UNCHANGED <<read, spec, files>>
  BY DEF PushDevice, Pushed, At, Front, treeVars, ledgerVars
<1>3. MadeSpec(p) /\ MadeFiles(p, {}) /\ MadeSpec(p)' /\ MadeFiles(p, {})'
  BY <1>1, <1>2 DEF Made, MadeSpec, MadeFiles
<1>4. CASE PushDevice(p)
  <2>1. PICK d \in Least(todo[p]) :
           \/ /\ live' = [live EXCEPT ![d] = files[Tree(p)][d]]
              /\ Continue(p, at[p], hand[p], todo[p] \ {d})
           \/ Continue(p, "send_on", hand[p], todo[p] \ {d})
    BY <1>4 DEF PushDevice
  <2>2. UNCHANGED steps
    BY <2>1 DEF Continue
  <2>3. ASSUME at'[p] = "send"
        PROVE  MadeLive(p, todo[p])'
    <3>1. /\ at[p] = "send" /\ todo'[p] = todo[p] \ {d}
          /\ live' = [live EXCEPT ![d] = files[Tree(p)][d]]
      BY <2>1, <2>3 DEF Continue, TypeInv, Hands
    <3>2. At(p, "push", "send")
      BY <1>2, <1>4, <3>1 DEF PushDevice, At
    <3>3. MadeLive(p, todo[p])
      BY <1>1, <3>2 DEF Made
    <3>4. Inventory[read[p]] \subseteq Devices /\ DOMAIN live = Devices
      <4>1. Tree(p) \in Trees
        BY DEF Tree, Trees
      <4>2. spec[Tree(p)].version \in Versions
        BY <4>1 DEF TypeInv, World
      <4>3. read[p] \in Versions
        BY <1>3, <4>2 DEF MadeSpec
      <4>4. QED
        BY <4>3, PipelineAssumption DEF TypeInv, World
    <3>5. ASSUME NEW e \in Inventory[read[p]] \cap target[p], e \notin todo[p] \ {d}
          PROVE  live'[e] = read[p]
      <4>1. CASE e = d
        BY <1>3, <3>1, <3>4, <4>1 DEF MadeFiles
      <4>2. CASE e # d
        <5>1. live[e] = read[p]
          BY <3>3, <3>5, <4>2 DEF MadeLive
        <5>2. QED
          BY <3>1, <3>4, <4>2, <5>1
      <4>3. QED
        BY <4>1, <4>2
    <3>6. QED
      BY <1>1, <1>2, <3>1, <3>5 DEF MadeLive
  <2>4. QED
    BY <1>2, <1>3, <2>2, <2>3 DEF Made, At, Front
<1>5. CASE Pushed(p)
  <2>1. /\ At(p, "push", "send") /\ todo[p] = {} /\ UNCHANGED live
    BY <1>5 DEF Pushed
  <2>2. MadeLive(p, {})'
    BY <1>1, <1>2, <2>1 DEF Made, MadeLive
  <2>3. at'[p] = "start"
    BY <1>5 DEF Pushed, Succeeds, Forget, TypeInv, Hands
  <2>4. Head(steps'[p]) \in {"push", "reachability"}
    BY <1>1, <1>2 DEF Follows, Front
  <2>5. QED
    BY <1>3, <2>2, <2>3, <2>4 DEF Made, At, Front
<1>6. QED
  BY <1>4, <1>5

LEMMA LastMade ==
  ASSUME Inv, TypeInv, MadeInv, NEW p \in Pipelines, Undisturbed(p)',
         Reachability(p) \/ (~At(p, "testbed", "check") /\ Check(p))
  PROVE  Made(p)'
<1>1. /\ UNCHANGED <<recipe, target>> /\ Made(p) /\ steps[p] \in DeploySteps
      /\ \/ UNCHANGED steps
         \/ at'[p] = "start" /\ Follows(Head(steps[p]), Head(steps'[p]))
  BY OwnCourse
<1>2. Head(steps[p]) # "tests"
  BY <1>1, DeployStepFacts DEF Follows, Front
<1>3. Head(steps[p]) \in {"reachability", "agent"} /\ UNCHANGED <<read, live>>
  BY <1>2 DEF Reachability, Check, At, ledgerVars
<1>4. MadeLive(p, {})'
  BY <1>1, <1>3 DEF Made, MadeLive
<1>5. Head(steps'[p]) \in {"reachability", "agent"}
  BY <1>1, <1>3 DEF Follows, Front
<1>6. QED
  BY <1>4, <1>5 DEF Made, At, Front

LEMMA StartMade ==
  ASSUME Inv, TypeInv, MadeInv, MakeCourses', Inv', NEW p \in Pipelines, StartJob(p),
         NEW q \in Pipelines, Undisturbed(q)'
  PROVE  Made(q)'
<1>1. /\ steps' = [steps EXCEPT ![p] = Steps[Job(p)]] /\ ~Over(p)
      /\ UNCHANGED <<recipe, target, job, at, hand, todo, spec, files, live, read>>
  BY DEF StartJob, treeVars, ledgerVars, fixedVars
<1>2. met[q] \subseteq met'[q]
  BY DEF StartJob
<1>3. CASE q # p
  <2>1. steps'[q] = steps[q]
    BY <1>1, <1>3 DEF TypeInv, Courses
  <2>2. Undisturbed(q)
    BY <1>1, <1>2, <2>1 DEF Undisturbed, Deploying, Running
  <2>3. Made(q)
    BY <2>2 DEF MadeInv
  <2>4. QED
    BY <1>1, <2>1, <2>3 DEF Made, MadeSpec, MadeFiles, MadeLive, At, Running, Tree
<1>4. CASE q = p
  <2>1. Deploying(p)'
    BY <1>4 DEF Undisturbed
  <2>2. Job(p) \in {"deploy", "deploy_safe", "deploy_job"}
    <3>1. CASE recipe[p] \in Workflows
      BY <1>1, <2>1, <3>1, PlanFacts DEF Deploying, Job
    <3>2. CASE recipe[p] \notin Workflows
      <4>1. recipe[p] \in MakeRecipes /\ recipe[p] # "validate_batfish"
        BY <1>1, <2>1, <3>2 DEF Deploying, Deploys, Inv, Shape
      <4>2. Len(Plan(recipe[p])) = 1 /\ Plan(recipe[p])[1] = recipe[p]
        BY <4>1, RecipeFacts
      <4>3. Job(p) = recipe[p]
        BY <1>1, <4>2 DEF Job, Over, TypeInv, Courses
      <4>4. QED
        BY <4>1, <4>3 DEF MakeRecipes
    <3>3. QED
      BY <3>1, <3>2
  <2>3. steps'[p] = Steps[Job(p)]
    BY <1>1 DEF TypeInv, Courses
  <2>4. Head(steps'[p]) \in {"checkout", "generate"}
    <3>1. Head(Steps["deploy"]) = "generate" /\ Head(Steps["deploy_safe"]) = "generate"
          /\ Head(Steps["deploy_job"]) = "checkout"
      BY DEF Steps
    <3>2. QED
      BY <2>2, <2>3, <3>1
  <2>5. QED
    BY <1>4, <2>4 DEF Made, At, Front
<1>5. QED
  BY <1>3, <1>4

LEMMA MadeNext == Inv /\ Inv' /\ TypeInv /\ SeenInv /\ MadeInv /\ [Next]_vars => MadeInv'
<1> SUFFICES ASSUME Inv, Inv', TypeInv, SeenInv, MadeInv, [Next]_vars PROVE MadeInv'
  OBVIOUS
<1>1. MakeCourses' /\ HandIsRead'
  BY MakeCoursesKept, HandIsReadKept DEF MadeInv
<1>2. ASSUME NEW q \in Pipelines, Undisturbed(q)'
      PROVE  Made(q)'
  <2>1. CASE UNCHANGED vars \/ EditNetBox
    <3>1. UNCHANGED <<recipe, target, job, steps, at, hand, todo, spec, files, live, read, met>>
      BY <2>1 DEF EditNetBox, vars, treeVars, runVars, ledgerVars, fixedVars
    <3>2. QED
      BY <1>2, <3>1 DEF MadeInv, Undisturbed, Deploying, Made, MadeSpec, MadeFiles, MadeLive,
                        At, Running, Tree
  <2>2. ASSUME NEW p \in Pipelines, StartJob(p)
        PROVE  Made(q)'
    BY <1>1, <1>2, <2>2, StartMade
  <2>3. ASSUME NEW p \in Pipelines, SkipJob(p)
        PROVE  Made(q)'
    <3>1. /\ ~Running(p) /\ Ends(p, "skipped")
          /\ UNCHANGED <<recipe, target, steps, at, hand, todo, spec, files, live, read, met>>
      BY <2>3 DEF SkipJob, treeVars, ledgerVars, fixedVars
    <3>2. q # p /\ job'[q] = job[q]
      BY <1>2, <3>1 DEF Undisturbed, Deploying, Running, Ends, TypeInv, Shape
    <3>3. Made(q)
      BY <1>2, <3>1, <3>2 DEF MadeInv, Undisturbed, Deploying, Running
    <3>4. QED
      BY <3>1, <3>3 DEF Made, MadeSpec, MadeFiles, MadeLive, At, Running, Tree
  <2>4. ASSUME NEW p \in Pipelines,
               \/ StepFails(p) \/ Checkout(p)
               \/ ReadNetBox(p) \/ OpenSpec(p) \/ DumpSpec(p) \/ ReadSpec(p)
               \/ RenderFile(p) \/ Rendered(p)
               \/ ClearSnapshot(p) \/ MakeSnapshot(p) \/ CopyFile(p) \/ SnapshotBuilt(p)
               \/ Upload(p) \/ Query(p) \/ PushDevice(p) \/ Pushed(p)
               \/ Reachability(p) \/ Check(p)
        PROVE  Made(q)'
    <3>1. CASE q # p
      BY <1>2, <2>4, <3>1, OthersMade
    <3>2. CASE q = p
      <4>1. CASE StepFails(p)
        BY <1>2, <3>2, <4>1, OwnCourse DEF StepFails
      <4>2. CASE Checkout(p) \/ ReadNetBox(p) \/ OpenSpec(p) \/ DumpSpec(p)
        BY <1>2, <3>2, <4>2, GenerateMade
      <4>3. CASE ReadSpec(p)
        BY <1>2, <3>2, <4>3, ReadSpecMade
      <4>4. CASE RenderFile(p) \/ Rendered(p)
        BY <1>2, <3>2, <4>4, RenderMade
      <4>5. CASE \/ ClearSnapshot(p) \/ MakeSnapshot(p) \/ CopyFile(p) \/ SnapshotBuilt(p)
                 \/ Upload(p) \/ Query(p) \/ (At(p, "testbed", "check") /\ Check(p))
        BY <1>2, <3>2, <4>5, FrontMade
      <4>6. CASE PushDevice(p) \/ Pushed(p)
        BY <1>2, <3>2, <4>6, PushMade
      <4>7. CASE Reachability(p) \/ (~At(p, "testbed", "check") /\ Check(p))
        BY <1>2, <3>2, <4>7, LastMade
      <4>8. QED
        BY <2>4, <4>1, <4>2, <4>3, <4>4, <4>5, <4>6, <4>7
    <3>3. QED
      BY <3>1, <3>2
  <2>5. QED
    BY <2>1, <2>2, <2>3, <2>4 DEF Next
<1>3. QED
  BY <1>1, <1>2 DEF MadeInv

LEMMA MadeInit == Init => MadeInv
<1> SUFFICES ASSUME Init PROVE MadeInv
  OBVIOUS
<1>1. \A p \in Pipelines : steps[p] = <<>> /\ at[p] = "start"
  BY DEF Init
<1>2. QED
  BY <1>1 DEF MadeInv, MakeCourses, HandIsRead, Undisturbed, Deploying, Running

\* A pipeline turns green with its last step, which leaves the devices.
LEMMA GreenMade ==
  ASSUME Inv, TypeInv, MadeInv, [Next]_vars, NEW p \in Pipelines,
         ~Green(p), Green(p)', Deploys(recipe[p]), \A q \in met[p] : ~Deploys(recipe[q])
  PROVE  \A d \in Inventory[read[p]] \cap target[p] : live'[d] = read[p]
<1>1. ASSUME UNCHANGED recipe, job'[p] = job[p], outcome'[p] = outcome[p]
      PROVE  FALSE
  BY <1>1 DEF Green, Over
<1>2. ASSUME UNCHANGED recipe, NEW o \in {"skipped", "failure"}, Ends(p, o), ~Over(p)
      PROVE  FALSE
  <2>1. job'[p] - 1 = job[p]
    BY <1>2 DEF Ends, TypeInv, Shape
  <2>2. Job(p) \in Jobs
    <3>1. Len(Plan(recipe[p])) \in Nat
      BY RecipeFacts DEF TypeInv, Shape
    <3>2. job[p] \in 1..Len(Plan(recipe[p]))
      BY <1>2, <3>1 DEF Over, TypeInv, Courses
    <3>3. QED
      BY <3>2, RecipeFacts DEF Job, TypeInv, Shape
  <2>3. outcome'[p][Job(p)] = o
    BY <1>2, <2>2 DEF Ends, TypeInv, Shape
  <2>4. outcome'[p][Plan(recipe[p])[job'[p] - 1]] = o
    BY <2>1, <2>3 DEF Job
  <2>5. QED
    BY <1>2, <2>4 DEF Green
<1>3. CASE UNCHANGED vars \/ EditNetBox
  BY <1>1, <1>3 DEF EditNetBox, vars, runVars, fixedVars
<1>4. ASSUME NEW q \in Pipelines, StartJob(q)
      PROVE  FALSE
  BY <1>1, <1>4 DEF StartJob, fixedVars
<1>5. ASSUME NEW q \in Pipelines, SkipJob(q)
      PROVE  FALSE
  <2>1. Ends(q, "skipped") /\ ~Over(q) /\ UNCHANGED recipe
    BY <1>5 DEF SkipJob, fixedVars
  <2>2. CASE q # p
    BY <1>1, <2>1, <2>2 DEF Ends, TypeInv, Shape
  <2>3. CASE q = p
    BY <1>2, <2>1, <2>3
  <2>4. QED
    BY <2>2, <2>3
<1>6. ASSUME NEW q \in Pipelines,
             \/ StepFails(q) \/ Checkout(q)
             \/ ReadNetBox(q) \/ OpenSpec(q) \/ DumpSpec(q) \/ ReadSpec(q)
             \/ RenderFile(q) \/ Rendered(q)
             \/ ClearSnapshot(q) \/ MakeSnapshot(q) \/ CopyFile(q) \/ SnapshotBuilt(q)
             \/ Upload(q) \/ Query(q) \/ PushDevice(q) \/ Pushed(q)
             \/ Reachability(q) \/ Check(q)
      PROVE  \A d \in Inventory[read[p]] \cap target[p] : live'[d] = read[p]
  <2>1. /\ Running(q) /\ UNCHANGED <<recipe, target, met>>
        /\ UNCHANGED <<steps, job, outcome>> \/ Succeeds(q) \/ Fails(q)
        /\ \A r \in Pipelines \ {q} : job'[r] = job[r] /\ outcome'[r] = outcome[r]
    BY <1>6, StepCourse
  <2>2. q = p
    BY <1>1, <2>1
  <2>3. ~Over(p)
    BY <2>1, <2>2 DEF TypeInv, Courses
  <2>4. Succeeds(p) /\ Len(steps[p]) = 1 /\ Ends(p, "success")
    BY <1>1, <1>2, <2>1, <2>2, <2>3 DEF Succeeds, Fails
  <2>5. Deploying(p)
    <3>1. CASE recipe[p] \in Workflows
      <4>1. Len(Plan(recipe[p])) = 3
        BY <3>1, PlanFacts
      <4>2. job'[p] > 3 /\ job'[p] = job[p] + 1
        BY <2>1, <2>4, <4>1 DEF Green, Over, Ends, TypeInv, Shape
      <4>3. job[p] \in 1..4 /\ ~(job[p] > 3)
        BY <2>3, <4>1 DEF TypeInv, Courses, Over
      <4>4. QED
        BY <2>1, <2>2, <4>2, <4>3 DEF Deploying
    <3>2. CASE recipe[p] \notin Workflows
      BY <2>1, <2>2, <3>2 DEF Deploying
    <3>3. QED
      BY <3>1, <3>2
  <2>6. Undisturbed(p) /\ steps[p] \in DeploySteps
    BY <2>5, DeployingFacts DEF Undisturbed, MadeInv
  <2>7. Head(steps[p]) \in {"reachability", "agent"}
    BY <2>4, <2>6, DeployStepFacts
  <2>8. \A d \in Inventory[read[p]] \cap target[p] : live[d] = read[p]
    BY <2>6, <2>7 DEF MadeInv, Made, MadeLive
  <2>9. UNCHANGED live
    BY <1>6, <2>2, <2>7 DEF StepFails, Checkout, ReadNetBox, OpenSpec, DumpSpec, ReadSpec,
           RenderFile, Rendered, ClearSnapshot, MakeSnapshot, CopyFile, SnapshotBuilt, Upload,
           Query, PushDevice, Pushed, Reachability, Check, At
  <2>10. QED
    BY <2>8, <2>9
<1>7. QED
  BY <1>3, <1>4, <1>5, <1>6 DEF Next

\* A pipeline that succeeds, while no other that deploys is under way, has
\* given its devices the configurations of the version of NetBox it has
\* read: for any number of pipelines, before it and of those that validate
\* beside it, and any edits of NetBox meanwhile.
THEOREM GreenHasDeployed == Spec => GreenIsDeployed
<1>1. Spec => []Inv
  BY InvInit, InvNext, PTL DEF Spec
<1>2. Spec => []TypeInv
  BY <1>1, InvTypeInit, TypeInvNext, PTL DEF Spec
<1>3. Spec => []SeenInv
  BY <1>2, SeenInit, SeenNext, PTL DEF Spec
<1>4. Spec => []MadeInv
  BY <1>1, <1>2, <1>3, MadeInit, MadeNext, PTL DEF Spec
<1>5. Inv /\ TypeInv /\ MadeInv /\ [Next]_vars =>
        [\A p \in Pipelines :
            /\ ~Green(p) /\ Green(p)'
            /\ Deploys(recipe[p])
            /\ \A q \in met[p] : ~Deploys(recipe[q])
            => \A d \in Inventory[read[p]] \cap target[p] : live'[d] = read[p]]_vars
  BY GreenMade
<1>6. QED
  BY <1>1, <1>2, <1>4, <1>5, PTL DEF Spec, GreenIsDeployed
===============================================================================
