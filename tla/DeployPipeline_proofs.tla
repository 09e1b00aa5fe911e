------------------------ MODULE DeployPipeline_proofs ------------------------
(***************************************************************************)
(* Theorems about DeployPipeline, for any number of pipelines and devices  *)
(* and any history of NetBox:                                              *)
(*                                                                         *)
(*   Inv      that a workflow's push has been checked is a fact about how  *)
(*            far it has come: Progress says, for each place in the plan,  *)
(*            which steps can be left and what the jobs before it have     *)
(*            come to;                                                     *)
(*   TypeInv  types, and what a step has in hand;                          *)
(*   SeenInv  what a pipeline that has met no other has in its files, its  *)
(*            snapshot and on its server between rendering and push.       *)
(***************************************************************************)
EXTENDS DeployPipeline, SequenceTheorems, TLAPS

Outcomes == {"none", "success", "failure", "skipped"}

\* What can be left of the steps of each job of a workflow.
TestsLeft == {<<>>, <<"tests">>}
GateLeft == {<<>>, <<"checkout", "validate">>, <<"validate">>}
DeployLeft ==
    {<<"checkout", "generate", "render", "push", "reachability", "agent">>,
     <<"generate", "render", "push", "reachability", "agent">>,
     <<"render", "push", "reachability", "agent">>,
     <<"push", "reachability", "agent">>,
     <<"reachability", "agent">>,
     <<"agent">>}

\* A workflow of kind r at place j of its plan, with outcomes o, steps s to
\* do, a verdict v of its gate and pushes u.
Progress(r, j, o, s, v, u) ==
    /\ j \in 1..4
    /\ j = 1 => s \in TestsLeft
    /\ j = 2 => s \in GateLeft
    /\ j = 3 => \/ s = <<>>
                \/ /\ s \in DeployLeft
                   /\ o["ci"] = "success" /\ o["batfish_gate"] \in {"success", "skipped"}
    /\ j = 4 => s = <<>>
    /\ j < 3 => u = {} /\ o["batfish_gate"] = "none"
    /\ u # {} => o["ci"] = "success" /\ o["batfish_gate"] \in {"success", "skipped"}
    /\ o["batfish_gate"] = "success" => v = "passed"
    /\ o["batfish_gate"] = "skipped" => r = "bypass" \/ o["ci"] # "success"

Shape ==
    /\ recipe \in [Pipelines -> MakeRecipes \cup Workflows]
    /\ job \in [Pipelines -> Nat]
    /\ outcome \in [Pipelines -> [Jobs -> Outcomes]]
    /\ DOMAIN steps = Pipelines
    /\ DOMAIN judged = Pipelines
    /\ DOMAIN pushed = Pipelines

Verdict(p) == IF judged[p].passed THEN "passed" ELSE "not passed"

ProgressOf(p) ==
    Progress(recipe[p], job[p], outcome[p], steps[p], Verdict(p), pushed[p])

Checked == \A p \in Pipelines : recipe[p] \in Workflows => ProgressOf(p)

Inv == Shape /\ Checked

-----------------------------------------------------------------------------
(* Plans, jobs and steps.                                                  *)

LEMMA JobFacts ==
  Jobs = {"deploy", "deploy_safe", "validate_batfish", "ci", "batfish_gate", "deploy_job"}
BY DEF Jobs, Steps

LEMMA PlanFacts ==
  ASSUME NEW r \in Workflows
  PROVE  /\ Len(Plan(r)) = 3
         /\ Plan(r)[1] = "ci" /\ Plan(r)[2] = "batfish_gate" /\ Plan(r)[3] = "deploy_job"
BY DEF Plan

LEMMA StepFacts ==
  /\ Steps["ci"] = <<"tests">>
  /\ Steps["batfish_gate"] = <<"checkout", "validate">>
  /\ Steps["deploy_job"] =
        <<"checkout", "generate", "render", "push", "reachability", "agent">>
BY DEF Steps

LEMMA LeftFacts ==
  /\ \A s \in TestsLeft \ {<<>>} : Head(s) = "tests" /\ Len(s) = 1 /\ Tail(s) = <<>>
  /\ \A s \in GateLeft \ {<<>>} :
        \/ Head(s) = "checkout" /\ Len(s) = 2 /\ Tail(s) = <<"validate">>
        \/ Head(s) = "validate" /\ Len(s) = 1 /\ Tail(s) = <<>>
  /\ \A s \in DeployLeft :
        /\ s # <<>> /\ Head(s) # "validate"
        /\ \/ Len(s) = 1 /\ Tail(s) = <<>>
           \/ Len(s) # 1 /\ Tail(s) \in DeployLeft
<1>1. ASSUME NEW s \in TestsLeft \ {<<>>}
      PROVE  Head(s) = "tests" /\ Len(s) = 1 /\ Tail(s) = <<>>
  <2>1. s = <<"tests">>
    BY <1>1 DEF TestsLeft
  <2>2. QED
    BY <2>1
<1>2. ASSUME NEW s \in GateLeft \ {<<>>}
      PROVE  \/ Head(s) = "checkout" /\ Len(s) = 2 /\ Tail(s) = <<"validate">>
             \/ Head(s) = "validate" /\ Len(s) = 1 /\ Tail(s) = <<>>
  <2>1. s = <<"checkout", "validate">> \/ s = <<"validate">>
    BY <1>2 DEF GateLeft
  <2>2. CASE s = <<"checkout", "validate">>
    BY <2>2
  <2>3. CASE s = <<"validate">>
    BY <2>3
  <2>4. QED
    BY <2>1, <2>2, <2>3
<1>3. ASSUME NEW s \in DeployLeft
      PROVE  /\ s # <<>> /\ Head(s) # "validate"
             /\ \/ Len(s) = 1 /\ Tail(s) = <<>>
                \/ Len(s) # 1 /\ Tail(s) \in DeployLeft
  <2>0. \/ s = <<"checkout", "generate", "render", "push", "reachability", "agent">>
        \/ s = <<"generate", "render", "push", "reachability", "agent">>
        \/ s = <<"render", "push", "reachability", "agent">>
        \/ s = <<"push", "reachability", "agent">>
        \/ s = <<"reachability", "agent">>
        \/ s = <<"agent">>
    BY <1>3 DEF DeployLeft
  <2>1. CASE s = <<"checkout", "generate", "render", "push", "reachability", "agent">>
    <3>1. /\ s # <<>> /\ Head(s) = "checkout" /\ Len(s) = 6
          /\ Tail(s) = <<"generate", "render", "push", "reachability", "agent">>
      BY <2>1
    <3>2. QED
      BY <3>1 DEF DeployLeft
  <2>2. CASE s = <<"generate", "render", "push", "reachability", "agent">>
    <3>1. /\ s # <<>> /\ Head(s) = "generate" /\ Len(s) = 5
          /\ Tail(s) = <<"render", "push", "reachability", "agent">>
      BY <2>2
    <3>2. QED
      BY <3>1 DEF DeployLeft
  <2>3. CASE s = <<"render", "push", "reachability", "agent">>
    <3>1. /\ s # <<>> /\ Head(s) = "render" /\ Len(s) = 4
          /\ Tail(s) = <<"push", "reachability", "agent">>
      BY <2>3
    <3>2. QED
      BY <3>1 DEF DeployLeft
  <2>4. CASE s = <<"push", "reachability", "agent">>
    <3>1. /\ s # <<>> /\ Head(s) = "push" /\ Len(s) = 3
          /\ Tail(s) = <<"reachability", "agent">>
      BY <2>4
    <3>2. QED
      BY <3>1 DEF DeployLeft
  <2>5. CASE s = <<"reachability", "agent">>
    <3>1. /\ s # <<>> /\ Head(s) = "reachability" /\ Len(s) = 2
          /\ Tail(s) = <<"agent">>
      BY <2>5
    <3>2. QED
      BY <3>1 DEF DeployLeft
  <2>6. CASE s = <<"agent">>
    BY <2>6
  <2>7. QED
    BY <2>0, <2>1, <2>2, <2>3, <2>4, <2>5, <2>6
<1>4. QED
  BY <1>1, <1>2, <1>3

-----------------------------------------------------------------------------
(* What a workflow's progress survives.                                    *)

\* The outcome of its job j.
Noted(r, j, o, x) == [o EXCEPT ![Plan(r)[j]] = x]

LEMMA NotedFacts ==
  ASSUME NEW r \in Workflows, NEW o \in [Jobs -> Outcomes], NEW j \in 1..3, NEW x \in Outcomes
  PROVE  /\ Noted(r, j, o, x) \in [Jobs -> Outcomes]
         /\ Noted(r, j, o, x)["ci"] = IF j = 1 THEN x ELSE o["ci"]
         /\ Noted(r, j, o, x)["batfish_gate"] = IF j = 2 THEN x ELSE o["batfish_gate"]
BY PlanFacts, JobFacts DEF Noted

\* A job ends otherwise than by success or by being skipped.
LEMMA FailureKeeps ==
  ASSUME NEW r \in Workflows, NEW o \in [Jobs -> Outcomes], NEW j \in 1..3, NEW s, NEW s2,
         NEW v, NEW u, Progress(r, j, o, s, v, u), s # <<>>, s2 = <<>>,
         NEW w, j = 2 \/ w = v
  PROVE  Progress(r, j + 1, Noted(r, j, o, "failure"), s2, w, u)
<1> DEFINE o2 == Noted(r, j, o, "failure")
<1>1. /\ o2["ci"] = IF j = 1 THEN "failure" ELSE o["ci"]
      /\ o2["batfish_gate"] = IF j = 2 THEN "failure" ELSE o["batfish_gate"]
  BY NotedFacts DEF Outcomes
<1> HIDE DEF o2
<1> SUFFICES Progress(r, j + 1, o2, s2, w, u)
  BY DEF o2
<1>2. CASE j = 1
  BY <1>1, <1>2 DEF Progress, TestsLeft, GateLeft
<1>3. CASE j = 2
  BY <1>1, <1>3 DEF Progress, TestsLeft, GateLeft
<1>4. CASE j = 3
  BY <1>1, <1>4 DEF Progress, TestsLeft, GateLeft
<1>5. QED
  BY <1>2, <1>3, <1>4

\* A step other than the gate's verdict succeeds, the last of its job ...
LEMMA LastStepKeeps ==
  ASSUME NEW r \in Workflows, NEW o \in [Jobs -> Outcomes], NEW j \in 1..3, NEW s,
         NEW v, NEW u, Progress(r, j, o, s, v, u), s # <<>>, Len(s) = 1,
         NEW w, IF Head(s) = "validate" THEN w = "passed" ELSE w = v
  PROVE  Progress(r, j + 1, Noted(r, j, o, "success"), Tail(s), w, u)
<1> DEFINE o2 == Noted(r, j, o, "success")
<1>1. /\ o2["ci"] = IF j = 1 THEN "success" ELSE o["ci"]
      /\ o2["batfish_gate"] = IF j = 2 THEN "success" ELSE o["batfish_gate"]
  BY NotedFacts DEF Outcomes
<1> HIDE DEF o2
<1> SUFFICES Progress(r, j + 1, o2, Tail(s), w, u)
  BY DEF o2
<1>2. CASE j = 1
  <2>1. Tail(s) = <<>> /\ w = v
    BY <1>2, LeftFacts DEF Progress
  <2>2. QED
    BY <1>1, <1>2, <2>1 DEF Progress, GateLeft
<1>3. CASE j = 2
  <2>1. Tail(s) = <<>> /\ w = "passed"
    BY <1>3, LeftFacts DEF Progress
  <2>2. QED
    BY <1>1, <1>3, <2>1 DEF Progress
<1>4. CASE j = 3
  <2>1. Tail(s) = <<>> /\ w = v
    BY <1>4, LeftFacts DEF Progress
  <2>2. QED
    BY <1>1, <1>4, <2>1 DEF Progress
<1>5. QED
  BY <1>2, <1>3, <1>4

\* ... or one before it.
LEMMA StepKeeps ==
  ASSUME NEW r \in Workflows, NEW o, NEW j, NEW s, NEW v, NEW u,
         Progress(r, j, o, s, v, u), s # <<>>, Len(s) # 1
  PROVE  Progress(r, j, o, Tail(s), v, u)
<1>1. j \in 1..3
  BY DEF Progress
<1>2. CASE j = 1
  BY <1>2, LeftFacts DEF Progress
<1>3. CASE j = 2
  BY <1>3, LeftFacts DEF Progress, GateLeft
<1>4. CASE j = 3
  BY <1>4, LeftFacts DEF Progress
<1>5. QED
  BY <1>1, <1>2, <1>3, <1>4
-----------------------------------------------------------------------------
(* What the actions do to it.                                              *)

LEMMA Running1 ==
  ASSUME Inv, NEW p \in Pipelines, recipe[p] \in Workflows, Running(p)
  PROVE  /\ job[p] \in 1..3
         /\ Head(steps[p]) = "validate" => job[p] = 2 /\ Len(steps[p]) = 1
         /\ Head(steps[p]) = "push" =>
               /\ job[p] = 3
               /\ outcome[p]["ci"] = "success"
               /\ outcome[p]["batfish_gate"] \in {"success", "skipped"}
<1>1. ProgressOf(p) /\ steps[p] # <<>>
  BY DEF Inv, Checked, Running
<1>2. job[p] \in 1..3
  BY <1>1 DEF ProgressOf, Progress
<1>3. CASE job[p] = 1
  BY <1>1, <1>3, LeftFacts DEF ProgressOf, Progress
<1>4. CASE job[p] = 2
  BY <1>1, <1>4, LeftFacts DEF ProgressOf, Progress
<1>5. CASE job[p] = 3
  BY <1>1, <1>5, LeftFacts DEF ProgressOf, Progress
<1>6. QED
  BY <1>2, <1>3, <1>4, <1>5

\* Everything else a step changes is no matter.
LEMMA QuietKeeps ==
  ASSUME Inv, UNCHANGED <<recipe, job, outcome, steps, judged, pushed>>
  PROVE  Inv'
BY DEF Inv, Shape, Checked, ProgressOf, Verdict

\* A step changes one pipeline.
LEMMA OneKeeps ==
  ASSUME Inv, NEW p \in Pipelines, Shape', UNCHANGED recipe,
         recipe[p] \in Workflows => ProgressOf(p)',
         \A q \in Pipelines \ {p} :
            /\ job'[q] = job[q] /\ outcome'[q] = outcome[q] /\ steps'[q] = steps[q]
            /\ judged'[q] = judged[q] /\ pushed'[q] = pushed[q]
  PROVE  Inv'
<1>1. ASSUME NEW q \in Pipelines, recipe'[q] \in Workflows
      PROVE  ProgressOf(q)'
  <2>1. CASE q = p
    BY <1>1, <2>1
  <2>2. CASE q # p
    BY <1>1, <2>2 DEF Inv, Checked, ProgressOf, Verdict
  <2>3. QED
    BY <2>1, <2>2
<1>2. QED
  BY <1>1 DEF Inv, Checked

LEMMA EndsShape ==
  ASSUME Inv, NEW p \in Pipelines, NEW x \in Outcomes, Ends(p, x)
  PROVE  /\ job' \in [Pipelines -> Nat]
         /\ outcome' \in [Pipelines -> [Jobs -> Outcomes]]
         /\ job'[p] = job[p] + 1
         /\ outcome'[p] = Noted(recipe[p], job[p], outcome[p], x)
         /\ \A q \in Pipelines \ {p} : job'[q] = job[q] /\ outcome'[q] = outcome[q]
<1>1. /\ job \in [Pipelines -> Nat]
      /\ outcome \in [Pipelines -> [Jobs -> Outcomes]]
  BY DEF Inv, Shape
<1>2. /\ job' = [job EXCEPT ![p] = @ + 1]
      /\ outcome' = [outcome EXCEPT ![p] = Noted(recipe[p], job[p], outcome[p], x)]
  BY DEF Ends, Job, Noted
<1>3. Noted(recipe[p], job[p], outcome[p], x) \in [Jobs -> Outcomes]
  BY <1>1 DEF Noted
<1>4. QED
  BY <1>1, <1>2, <1>3

\* A step succeeds; only that of the gate gives a verdict.
LEMMA SucceedsKeeps ==
  ASSUME Inv, NEW p \in Pipelines, Running(p), Succeeds(p), UNCHANGED <<recipe, pushed>>,
         DOMAIN judged' = Pipelines,
         \A q \in Pipelines \ {p} : judged'[q] = judged[q],
         recipe[p] \in Workflows =>
            IF Head(steps[p]) = "validate" THEN Verdict(p)' = "passed"
            ELSE Verdict(p)' = Verdict(p)
  PROVE  Inv'
<1>1. /\ DOMAIN steps' = Pipelines /\ steps'[p] = Tail(steps[p])
      /\ \A q \in Pipelines \ {p} : steps'[q] = steps[q]
  BY DEF Inv, Shape, Succeeds
<1>2. CASE Len(steps[p]) = 1
  <2>1. Ends(p, "success")
    BY <1>2 DEF Succeeds
  <2>2. Shape'
    BY <1>1, <2>1, EndsShape DEF Inv, Shape, Outcomes
  <2>3. ASSUME recipe[p] \in Workflows
        PROVE  ProgressOf(p)'
    <3>1. job[p] \in 1..3 /\ steps[p] # <<>> /\ ProgressOf(p)
      BY <2>3, Running1 DEF Inv, Checked, Running
    <3>2. outcome[p] \in [Jobs -> Outcomes]
      BY DEF Inv, Shape
    <3>3. Progress(recipe[p], job[p] + 1, Noted(recipe[p], job[p], outcome[p], "success"),
                   Tail(steps[p]), Verdict(p)', pushed[p])
      BY <1>2, <2>3, <3>1, <3>2, LastStepKeeps DEF ProgressOf
    <3>4. QED
      BY <1>1, <2>1, <3>3, EndsShape DEF ProgressOf, Outcomes
  <2>4. QED
    BY <1>1, <2>1, <2>2, <2>3, EndsShape, OneKeeps DEF Outcomes
<1>3. CASE Len(steps[p]) # 1
  <2>1. UNCHANGED <<job, outcome>>
    BY <1>3 DEF Succeeds
  <2>2. Shape'
    BY <1>1, <2>1 DEF Inv, Shape
  <2>3. ASSUME recipe[p] \in Workflows
        PROVE  ProgressOf(p)'
    <3>1. Verdict(p)' = Verdict(p)
      BY <1>3, <2>3, Running1
    <3>2. steps[p] # <<>> /\ ProgressOf(p)
      BY <2>3 DEF Inv, Checked, Running
    <3>3. Progress(recipe[p], job[p], outcome[p], Tail(steps[p]), Verdict(p), pushed[p])
      BY <1>3, <2>3, <3>2, StepKeeps DEF ProgressOf
    <3>4. QED
      BY <1>1, <2>1, <3>1, <3>3 DEF ProgressOf
  <2>4. QED
    BY <1>1, <2>1, <2>2, <2>3, OneKeeps
<1>4. QED
  BY <1>2, <1>3

\* A step fails, the gate's after its verdict, any at any time.
LEMMA FailsKeeps ==
  ASSUME Inv, NEW p \in Pipelines, Running(p), Fails(p), UNCHANGED <<recipe, pushed>>,
         DOMAIN judged' = Pipelines,
         \A q \in Pipelines \ {p} : judged'[q] = judged[q],
         Head(steps[p]) = "validate" \/ UNCHANGED judged
  PROVE  Inv'
<1>1. /\ DOMAIN steps' = Pipelines /\ steps'[p] = <<>>
      /\ \A q \in Pipelines \ {p} : steps'[q] = steps[q]
  BY DEF Inv, Shape, Fails
<1>2. Ends(p, "failure")
  BY DEF Fails
<1>3. Shape'
  BY <1>1, <1>2, EndsShape DEF Inv, Shape, Outcomes
<1>4. ASSUME recipe[p] \in Workflows
      PROVE  ProgressOf(p)'
  <2>1. job[p] \in 1..3 /\ steps[p] # <<>> /\ ProgressOf(p)
    BY <1>4, Running1 DEF Inv, Checked, Running
  <2>2. outcome[p] \in [Jobs -> Outcomes]
    BY DEF Inv, Shape
  <2>3. job[p] = 2 \/ Verdict(p)' = Verdict(p)
    BY <1>4, Running1 DEF Verdict
  <2>4. Progress(recipe[p], job[p] + 1, Noted(recipe[p], job[p], outcome[p], "failure"),
                 <<>>, Verdict(p)', pushed[p])
    BY <1>4, <2>1, <2>2, <2>3, FailureKeeps DEF ProgressOf
  <2>5. QED
    BY <1>1, <1>2, <2>4, EndsShape DEF ProgressOf, Outcomes
<1>5. QED
  BY <1>1, <1>2, <1>3, <1>4, EndsShape, OneKeeps DEF Outcomes
-----------------------------------------------------------------------------
(* The invariant.                                                          *)

LEMMA InvInit == Init => Inv
<1> SUFFICES ASSUME Init PROVE Inv
  OBVIOUS
<1>1. Shape
  BY DEF Init, Shape, Outcomes
<1>2. ASSUME NEW p \in Pipelines
      PROVE  ProgressOf(p)
  <2>1. job[p] = 1 /\ steps[p] = <<>> /\ pushed[p] = {}
    BY DEF Init
  <2>2. outcome[p]["batfish_gate"] = "none"
    BY JobFacts DEF Init
  <2>3. QED
    BY <2>1, <2>2 DEF ProgressOf, Progress, TestsLeft
<1>3. QED
  BY <1>1, <1>2 DEF Inv, Checked

LEMMA StartKeeps ==
  ASSUME Inv, NEW p \in Pipelines, StartJob(p)
  PROVE  Inv'
<1>1. /\ steps' = [steps EXCEPT ![p] = Steps[Job(p)]]
      /\ MayStart(p, Job(p)) /\ ~Over(p) /\ steps[p] = <<>>
      /\ UNCHANGED <<recipe, job, outcome, judged, pushed>>
  BY DEF StartJob, Running, ledgerVars, fixedVars
<1>2. Shape'
  BY <1>1 DEF Inv, Shape
<1>3. ASSUME recipe[p] \in Workflows
      PROVE  ProgressOf(p)'
  <2>1. ProgressOf(p) /\ job[p] \in 1..4
    BY <1>3 DEF Inv, Checked, ProgressOf, Progress
  <2>2. job[p] \in 1..3
    <3>1. Len(Plan(recipe[p])) = 3
      BY <1>3, PlanFacts
    <3>2. ~(job[p] > 3)
      BY <1>1, <3>1 DEF Over
    <3>3. QED
      BY <2>1, <3>2
  <2>3. steps'[p] = Steps[Job(p)]
    BY <1>1 DEF Inv, Shape
  <2>4. Verdict(p)' = Verdict(p)
    BY <1>1 DEF Verdict
  <2>5. CASE job[p] = 1
    <3>1. Job(p) = "ci"
      BY <1>3, <2>5, PlanFacts DEF Job
    <3>2. steps'[p] = <<"tests">>
      BY <2>3, <3>1, StepFacts
    <3>3. steps'[p] \in TestsLeft
      BY <3>2 DEF TestsLeft
    <3>4. QED
      BY <1>1, <2>1, <2>4, <2>5, <3>3 DEF ProgressOf, Progress
  <2>6. CASE job[p] = 2
    <3>1. Job(p) = "batfish_gate"
      BY <1>3, <2>6, PlanFacts DEF Job
    <3>2. steps'[p] = <<"checkout", "validate">>
      BY <2>3, <3>1, StepFacts
    <3>3. steps'[p] \in GateLeft
      BY <3>2 DEF GateLeft
    <3>4. QED
      BY <1>1, <2>1, <2>4, <2>6, <3>3 DEF ProgressOf, Progress
  <2>7. CASE job[p] = 3
    <3>1. Job(p) = "deploy_job"
      BY <1>3, <2>7, PlanFacts DEF Job
    <3>2. steps'[p] \in DeployLeft
      BY <2>3, <3>1, StepFacts DEF DeployLeft
    <3>3. outcome[p]["ci"] = "success" /\ outcome[p]["batfish_gate"] \in {"success", "skipped"}
      BY <1>1, <3>1 DEF MayStart
    <3>4. QED
      BY <1>1, <2>1, <2>4, <2>7, <3>2, <3>3 DEF ProgressOf, Progress
  <2>8. QED
    BY <2>2, <2>5, <2>6, <2>7
<1>4. \A q \in Pipelines \ {p} : steps'[q] = steps[q]
  BY <1>1 DEF Inv, Shape
<1>5. QED
  BY <1>1, <1>2, <1>3, <1>4, OneKeeps

\* The gate is skipped for one of two reasons, and the last job with it
\* unless the reason was the bypass.
LEMMA SkipKeeps ==
  ASSUME Inv, NEW p \in Pipelines, SkipJob(p)
  PROVE  Inv'
<1>1. /\ Ends(p, "skipped")
      /\ ~MayStart(p, Job(p)) /\ ~Over(p) /\ steps[p] = <<>>
      /\ UNCHANGED <<recipe, steps, judged, pushed>>
  BY DEF SkipJob, Running, ledgerVars, fixedVars
<1>2. Shape'
  BY <1>1, EndsShape DEF Inv, Shape, Outcomes
<1>3. ASSUME recipe[p] \in Workflows
      PROVE  ProgressOf(p)'
  <2>1. ProgressOf(p) /\ job[p] \in 1..4
    BY <1>3 DEF Inv, Checked, ProgressOf, Progress
  <2>2. job[p] \in 1..3
    <3>1. Len(Plan(recipe[p])) = 3
      BY <1>3, PlanFacts
    <3>2. ~(job[p] > 3)
      BY <1>1, <3>1 DEF Over
    <3>3. QED
      BY <2>1, <3>2
  <2>3. Verdict(p)' = Verdict(p)
    BY <1>1 DEF Verdict
  <2>4. outcome[p] \in [Jobs -> Outcomes]
    BY DEF Inv, Shape
  <2> DEFINE o2 == Noted(recipe[p], job[p], outcome[p], "skipped")
  <2>5. /\ o2["ci"] = IF job[p] = 1 THEN "skipped" ELSE outcome[p]["ci"]
        /\ o2["batfish_gate"] = IF job[p] = 2 THEN "skipped" ELSE outcome[p]["batfish_gate"]
    BY <1>3, <2>2, <2>4, NotedFacts DEF Outcomes
  <2>6. outcome'[p] = o2 /\ job'[p] = job[p] + 1
    BY <1>1, EndsShape DEF Outcomes
  <2> HIDE DEF o2
  <2>7. job[p] # 1
    BY <1>1, <1>3, PlanFacts DEF MayStart, Job
  <2>8. CASE job[p] = 2
    <3>1. recipe[p] = "bypass" \/ outcome[p]["ci"] # "success"
      BY <1>1, <1>3, <2>8, PlanFacts DEF MayStart, Job
    <3>2. QED
      BY <1>1, <2>1, <2>3, <2>5, <2>6, <2>8, <3>1 DEF ProgressOf, Progress
  <2>9. CASE job[p] = 3
    BY <1>1, <2>1, <2>3, <2>5, <2>6, <2>9 DEF ProgressOf, Progress
  <2>10. QED
    BY <2>2, <2>7, <2>8, <2>9
<1>4. QED
  BY <1>1, <1>2, <1>3, EndsShape, OneKeeps DEF Outcomes

\* Steps within a process: they change files, and what it has in hand.
LEMMA WorkKeeps ==
  ASSUME Inv, NEW p \in Pipelines,
         \/ ReadNetBox(p) \/ OpenSpec(p) \/ ReadSpec(p) \/ RenderFile(p)
         \/ ClearSnapshot(p) \/ MakeSnapshot(p) \/ CopyFile(p) \/ Upload(p)
         \/ SnapshotBuilt(p) /\ At(p, "validate", "copy")
  PROVE  Inv'
<1>1. UNCHANGED <<recipe, job, outcome, steps, judged, pushed>>
  <2>1. CASE ReadNetBox(p)
    BY <2>1 DEF ReadNetBox, Continue, ledgerVars, fixedVars
  <2>2. CASE OpenSpec(p)
    BY <2>2 DEF OpenSpec, Continue, ledgerVars, fixedVars
  <2>3. CASE ReadSpec(p)
    BY <2>3 DEF ReadSpec, Continue, ledgerVars, fixedVars
  <2>4. CASE RenderFile(p)
    BY <2>4 DEF RenderFile, Continue, ledgerVars, fixedVars
  <2>5. CASE ClearSnapshot(p)
    BY <2>5 DEF ClearSnapshot, Continue, ledgerVars, fixedVars
  <2>6. CASE MakeSnapshot(p)
    BY <2>6 DEF MakeSnapshot, Continue, ledgerVars, fixedVars
  <2>7. CASE CopyFile(p)
    BY <2>7 DEF CopyFile, Continue, ledgerVars, fixedVars
  <2>8. CASE Upload(p)
    BY <2>8 DEF Upload, Continue, ledgerVars, fixedVars
  <2>9. CASE SnapshotBuilt(p) /\ At(p, "validate", "copy")
    BY <2>9 DEF SnapshotBuilt, Continue, ledgerVars, fixedVars
  <2>10. QED
    BY <2>9, <2>1, <2>2, <2>3, <2>4, <2>5, <2>6, <2>7, <2>8
<1>2. QED
  BY <1>1, QuietKeeps

\* Ends of steps other than validate.
LEMMA PlainSuccessKeeps ==
  ASSUME Inv, NEW p \in Pipelines,
         \/ Checkout(p) \/ DumpSpec(p) \/ Rendered(p) \/ Pushed(p)
         \/ Reachability(p) \/ Check(p)
         \/ SnapshotBuilt(p) /\ ~At(p, "validate", "copy")
  PROVE  Inv'
<1>1. /\ Running(p) /\ Head(steps[p]) # "validate" /\ Succeeds(p)
      /\ UNCHANGED <<recipe, judged, pushed>>
  <2>1. CASE Checkout(p)
    BY <2>1 DEF Checkout, At, ledgerVars, fixedVars
  <2>2. CASE DumpSpec(p)
    BY <2>2 DEF DumpSpec, At, ledgerVars, fixedVars
  <2>3. CASE Rendered(p)
    BY <2>3 DEF Rendered, At, ledgerVars, fixedVars
  <2>4. CASE Pushed(p)
    BY <2>4 DEF Pushed, At, ledgerVars, fixedVars
  <2>5. CASE Reachability(p)
    BY <2>5 DEF Reachability, At, ledgerVars, fixedVars
  <2>6. CASE Check(p)
    BY <2>6 DEF Check, At, ledgerVars, fixedVars
  <2>7. CASE SnapshotBuilt(p) /\ ~At(p, "validate", "copy")
    BY <2>7 DEF SnapshotBuilt, Building, At, ledgerVars, fixedVars
  <2>8. QED
    BY <2>1, <2>2, <2>3, <2>4, <2>5, <2>6, <2>7
<1>2. DOMAIN judged' = Pipelines /\ Verdict(p)' = Verdict(p)
  BY <1>1 DEF Inv, Shape, Verdict
<1>3. QED
  BY <1>1, <1>2, SucceedsKeeps

LEMMA QueryKeeps ==
  ASSUME Inv, NEW p \in Pipelines, Query(p)
  PROVE  Inv'
<1>0. /\ Running(p) /\ Head(steps[p]) = "validate"
      /\ UNCHANGED <<recipe, pushed>>
  BY DEF Query, At, fixedVars
<1>1. PICK v \in Verdicts(server[Tree(p)]) :
         /\ judged' = [judged EXCEPT ![p] = [files |-> server[Tree(p)], passed |-> v]]
         /\ IF Strict(p) /\ ~v THEN Fails(p) ELSE Succeeds(p)
  BY DEF Query
<1>2. /\ DOMAIN judged' = Pipelines
      /\ \A q \in Pipelines \ {p} : judged'[q] = judged[q]
      /\ judged'[p].passed = v
  BY <1>1 DEF Inv, Shape
<1>3. CASE Strict(p) /\ ~v
  BY <1>0, <1>1, <1>2, <1>3, FailsKeeps
<1>4. CASE ~(Strict(p) /\ ~v)
  <2>1. recipe[p] \in Workflows => Verdict(p)' = "passed"
    BY <1>2, <1>4 DEF Strict, Verdict
  <2>2. Succeeds(p)
    BY <1>1, <1>4
  <2>3. QED
    BY <1>0, <1>2, <2>1, <2>2, SucceedsKeeps
<1>5. QED
  BY <1>3, <1>4

LEMMA PushKeeps ==
  ASSUME Inv, NEW p \in Pipelines, PushDevice(p)
  PROVE  Inv'
<1>1. Running(p) /\ Head(steps[p]) = "push"
  BY DEF PushDevice, At
<1>2. UNCHANGED <<recipe, job, outcome, steps, judged>>
  BY DEF PushDevice, Continue, fixedVars
<1>3. DOMAIN pushed' = Pipelines /\ \A q \in Pipelines \ {p} : pushed'[q] = pushed[q]
  BY DEF PushDevice, Inv, Shape
<1>4. Shape'
  BY <1>2, <1>3 DEF Inv, Shape
<1>5. ASSUME recipe[p] \in Workflows
      PROVE  ProgressOf(p)'
  <2>1. /\ job[p] = 3
        /\ outcome[p]["ci"] = "success"
        /\ outcome[p]["batfish_gate"] \in {"success", "skipped"}
    BY <1>1, <1>5, Running1
  <2>2. ProgressOf(p)
    BY <1>5 DEF Inv, Checked
  <2>3. Verdict(p)' = Verdict(p)
    BY <1>2 DEF Verdict
  <2>4. QED
    BY <1>2, <2>1, <2>2, <2>3 DEF ProgressOf, Progress
<1>6. QED
  BY <1>2, <1>3, <1>4, <1>5, OneKeeps

LEMMA InvNext == Inv /\ [Next]_vars => Inv'
<1> SUFFICES ASSUME Inv, [Next]_vars PROVE Inv'
  OBVIOUS
<1>1. CASE UNCHANGED vars
  BY <1>1, QuietKeeps DEF vars, runVars, ledgerVars, fixedVars
<1>2. CASE EditNetBox
  BY <1>2, QuietKeeps DEF EditNetBox, runVars, ledgerVars, fixedVars
<1>3. ASSUME NEW p \in Pipelines,
             \/ StartJob(p) \/ SkipJob(p) \/ StepFails(p) \/ Checkout(p)
             \/ ReadNetBox(p) \/ OpenSpec(p) \/ DumpSpec(p) \/ ReadSpec(p)
             \/ RenderFile(p) \/ Rendered(p)
             \/ ClearSnapshot(p) \/ MakeSnapshot(p) \/ CopyFile(p) \/ SnapshotBuilt(p)
             \/ Upload(p) \/ Query(p) \/ PushDevice(p) \/ Pushed(p)
             \/ Reachability(p) \/ Check(p)
      PROVE  Inv'
  <2>1. CASE StartJob(p)
    BY <2>1, StartKeeps
  <2>2. CASE SkipJob(p)
    BY <2>2, SkipKeeps
  <2>3. CASE StepFails(p)
    <3>1. /\ Running(p) /\ Fails(p) /\ UNCHANGED <<recipe, pushed, judged>>
          /\ DOMAIN judged' = Pipelines
      BY <2>3 DEF StepFails, ledgerVars, fixedVars, Inv, Shape
    <3>2. QED
      BY <3>1, FailsKeeps
  <2>4. CASE Checkout(p)
    BY <2>4, PlainSuccessKeeps
  <2>5. CASE ReadNetBox(p)
    BY <2>5, WorkKeeps
  <2>6. CASE OpenSpec(p)
    BY <2>6, WorkKeeps
  <2>7. CASE DumpSpec(p)
    BY <2>7, PlainSuccessKeeps
  <2>8. CASE ReadSpec(p)
    BY <2>8, WorkKeeps
  <2>9. CASE RenderFile(p)
    BY <2>9, WorkKeeps
  <2>10. CASE Rendered(p)
    BY <2>10, PlainSuccessKeeps
  <2>11. CASE ClearSnapshot(p)
    BY <2>11, WorkKeeps
  <2>12. CASE MakeSnapshot(p)
    BY <2>12, WorkKeeps
  <2>13. CASE CopyFile(p)
    BY <2>13, WorkKeeps
  <2>14. CASE SnapshotBuilt(p)
    <3>1. CASE At(p, "validate", "copy")
      BY <2>14, <3>1, WorkKeeps
    <3>2. CASE ~At(p, "validate", "copy")
      BY <2>14, <3>2, PlainSuccessKeeps
    <3>3. QED
      BY <3>1, <3>2
  <2>15. CASE Upload(p)
    BY <2>15, WorkKeeps
  <2>16. CASE Query(p)
    BY <2>16, QueryKeeps
  <2>17. CASE PushDevice(p)
    BY <2>17, PushKeeps
  <2>18. CASE Pushed(p)
    BY <2>18, PlainSuccessKeeps
  <2>19. CASE Reachability(p)
    BY <2>19, PlainSuccessKeeps
  <2>20. CASE Check(p)
    BY <2>20, PlainSuccessKeeps
  <2>21. QED
    BY <1>3, <2>1, <2>2, <2>3, <2>4, <2>5, <2>6, <2>7, <2>8, <2>9, <2>10,
       <2>11, <2>12, <2>13, <2>14, <2>15, <2>16, <2>17, <2>18, <2>19, <2>20
<1>4. QED
  BY <1>1, <1>2, <1>3 DEF Next

LEMMA InvImplies == Inv => PushedWasChecked
<1> SUFFICES ASSUME Inv, NEW p \in Pipelines, recipe[p] \in Workflows, pushed[p] # {}
             PROVE  /\ outcome[p].ci = "success"
                    /\ recipe[p] = "bypass" \/ judged[p].passed
  BY DEF PushedWasChecked
<1>1. ProgressOf(p)
  BY DEF Inv, Checked
<1>2. outcome[p]["ci"] = "success" /\ outcome[p]["batfish_gate"] \in {"success", "skipped"}
  BY <1>1 DEF ProgressOf, Progress
<1>3. CASE outcome[p]["batfish_gate"] = "success"
  <2>1. Verdict(p) = "passed"
    BY <1>1, <1>3 DEF ProgressOf, Progress
  <2>2. QED
    BY <1>2, <2>1 DEF Verdict
<1>4. CASE outcome[p]["batfish_gate"] = "skipped"
  BY <1>1, <1>2, <1>4 DEF ProgressOf, Progress
<1>5. QED
  BY <1>2, <1>3, <1>4

\* Whatever is edited, fails or runs beside it: a workflow has touched no
\* device unless its tests have passed, and its gate has passed or was
\* bypassed on purpose.
THEOREM CheckedBeforePush == Spec => []PushedWasChecked
<1>1. Spec => []Inv
  BY InvInit, InvNext, PTL DEF Spec
<1>2. QED
  BY <1>1, InvImplies, PTL

-----------------------------------------------------------------------------
(***************************************************************************)
(* Types.  What a step has in hand when it has not yet opened the spec it  *)
(* will write is a version of NetBox; what it has read of a spec may be    *)
(* garbled.                                                                *)
(***************************************************************************)
Contents == Versions \cup {Garbled, NoVersion}
Artefacts == [Devices -> Contents]
StepNames ==
    {"generate", "render", "testbed", "build_snapshot", "validate", "push",
     "reachability", "agent", "tests", "checkout"}
InHand == [version : Contents, devices : SUBSET Devices]

World ==
    /\ netbox \in Versions
    /\ live \in [Devices -> Versions \cup {Garbled}]
    /\ spec \in [Trees -> [version : Versions, whole : BOOLEAN]]
    /\ files \in [Trees -> Artefacts]
    /\ snap \in [Trees -> [there : BOOLEAN, files : Artefacts]]
    /\ server \in [Trees -> Artefacts]

Courses ==
    /\ steps \in [Pipelines -> Seq(StepNames)]
    /\ \A p \in Pipelines :
          /\ job[p] \in 1..(Len(Plan(recipe[p])) + 1)
          /\ Running(p) => ~Over(p)

HandOf(x, h, T) ==
    /\ h \in InHand /\ T \in SUBSET Devices
    /\ x = "start" => h = NoSpec /\ T = {}
    /\ x \in {"open", "dump"} => h.version \in Versions

Hands ==
    /\ DOMAIN at = Pipelines /\ DOMAIN hand = Pipelines /\ DOMAIN todo = Pipelines
    /\ \A p \in Pipelines : HandOf(at[p], hand[p], todo[p])

Ledger ==
    /\ read \in [Pipelines -> Versions \cup {NoVersion}]
    /\ loss \in [Pipelines -> 0..Count]
    /\ met \in [Pipelines -> SUBSET Pipelines]

TypeInv == Shape /\ World /\ Courses /\ Hands /\ Ledger

LEMMA TypeInvOK == TypeInv => TypeOK
BY DEF TypeInv, Shape, Outcomes, World, Artefacts, Contents, Courses, Hands, HandOf, Ledger, TypeOK

LEMMA RecipeFacts ==
  /\ \A r \in MakeRecipes \cup Workflows :
        /\ Len(Plan(r)) \in Nat \ {0}
        /\ \A i \in 1..Len(Plan(r)) : Plan(r)[i] \in Jobs
  /\ \A j \in Jobs : Steps[j] \in Seq(StepNames) /\ Steps[j] # <<>>
  /\ \A r \in MakeRecipes : Len(Plan(r)) = 1 /\ Plan(r)[1] = r
<1>1. \A r \in MakeRecipes : Len(Plan(r)) = 1 /\ Plan(r)[1] = r
  BY DEF Plan, MakeRecipes, Workflows
<1>2. ASSUME NEW r \in Workflows
      PROVE  /\ Len(Plan(r)) \in Nat \ {0}
             /\ \A i \in 1..Len(Plan(r)) : Plan(r)[i] \in Jobs
  <2>1. Len(Plan(r)) = 3
    BY PlanFacts
  <2>2. Plan(r)[1] \in Jobs /\ Plan(r)[2] \in Jobs /\ Plan(r)[3] \in Jobs
    BY PlanFacts, JobFacts
  <2>3. \A i \in 1..3 : i = 1 \/ i = 2 \/ i = 3
    OBVIOUS
  <2>4. QED
    BY <2>1, <2>2, <2>3
<1>3. ASSUME NEW r \in MakeRecipes
      PROVE  /\ Len(Plan(r)) \in Nat \ {0}
             /\ \A i \in 1..Len(Plan(r)) : Plan(r)[i] \in Jobs
  <2>1. \A i \in 1..1 : i = 1
    OBVIOUS
  <2>2. QED
    BY <1>1, <2>1, JobFacts DEF MakeRecipes
<1>4. ASSUME NEW j \in Jobs
      PROVE  Steps[j] \in Seq(StepNames) /\ Steps[j] # <<>>
  <2>1. CASE j = "deploy"
    <3>1. Steps[j] = <<"generate", "render", "testbed", "push", "reachability">>
      BY <2>1 DEF Steps
    <3>2. QED
      BY <3>1 DEF StepNames
  <2>2. CASE j = "deploy_safe"
    <3>1. Steps[j] = <<"generate", "render", "build_snapshot", "validate", "push", "reachability", "agent">>
      BY <2>2 DEF Steps
    <3>2. QED
      BY <3>1 DEF StepNames
  <2>3. CASE j = "validate_batfish"
    <3>1. Steps[j] = <<"build_snapshot", "validate">>
      BY <2>3 DEF Steps
    <3>2. QED
      BY <3>1 DEF StepNames
  <2>4. CASE j = "ci"
    <3>1. Steps[j] = <<"tests">>
      BY <2>4 DEF Steps
    <3>2. QED
      BY <3>1 DEF StepNames
  <2>5. CASE j = "batfish_gate"
    <3>1. Steps[j] = <<"checkout", "validate">>
      BY <2>5 DEF Steps
    <3>2. QED
      BY <3>1 DEF StepNames
  <2>6. CASE j = "deploy_job"
    <3>1. Steps[j] = <<"checkout", "generate", "render", "push", "reachability", "agent">>
      BY <2>6 DEF Steps
    <3>2. QED
      BY <3>1 DEF StepNames
  <2>7. QED
    BY JobFacts, <2>1, <2>2, <2>3, <2>4, <2>5, <2>6
<1>5. QED
  BY <1>1, <1>2, <1>3, <1>4

LEMMA InvTypeInit == Init => TypeInv
<1> SUFFICES ASSUME Init PROVE TypeInv
  OBVIOUS
<1>1. Inv
  BY InvInit
<1>2. World
  <2>1. 0 \in Versions
    BY PipelineAssumption DEF Versions
  <2>2. Committed \in Artefacts /\ Nothing \in Artefacts
    BY <2>1 DEF Committed, Nothing, Artefacts, Contents
  <2>3. QED
    BY <2>1, <2>2 DEF Init, World, Artefacts
<1>3. Courses
  BY RecipeFacts DEF Init, Courses, Running
<1>4. Hands
  BY DEF Init, Hands, HandOf, InHand, Contents, NoSpec
<1>5. Ledger
  BY DEF Init, Ledger, Count
<1>6. QED
  BY <1>1, <1>2, <1>3, <1>4, <1>5 DEF TypeInv, Inv

\* The three ways in which a step goes on.
LEMMA ContinueTyped ==
  ASSUME Courses, Hands, NEW p \in Pipelines, NEW x, NEW h, NEW T, Continue(p, x, h, T),
         UNCHANGED recipe, HandOf(x, h, T)
  PROVE  Courses' /\ Hands'
<1>1. UNCHANGED <<job, steps>>
  BY DEF Continue
<1>2. Courses'
  BY <1>1 DEF Courses, Running, Over
<1>3. /\ at' = [at EXCEPT ![p] = x] /\ hand' = [hand EXCEPT ![p] = h]
      /\ todo' = [todo EXCEPT ![p] = T]
  BY DEF Continue
<1>4. Hands'
  BY <1>3 DEF Hands
<1>5. QED
  BY <1>2, <1>4

LEMMA ForgetTyped ==
  ASSUME Hands, NEW p \in Pipelines, Forget(p)
  PROVE  Hands'
<1>1. /\ at' = [at EXCEPT ![p] = "start"] /\ hand' = [hand EXCEPT ![p] = NoSpec]
      /\ todo' = [todo EXCEPT ![p] = {}]
  BY DEF Forget
<1>2. HandOf("start", NoSpec, {})
  BY DEF HandOf, InHand, NoSpec, Contents
<1>3. QED
  BY <1>1, <1>2 DEF Hands

\* The job of p ends.
LEMMA EndsTyped ==
  ASSUME Shape, Courses, NEW p \in Pipelines, ~Over(p), NEW o, Ends(p, o), UNCHANGED recipe
  PROVE  \A q \in Pipelines : /\ job'[q] \in 1..(Len(Plan(recipe'[q])) + 1)
                              /\ q # p => job'[q] = job[q]
<1>1. job' = [job EXCEPT ![p] = @ + 1] /\ job \in [Pipelines -> Nat]
  BY DEF Ends, Shape
<1>2. job[p] \in 1..(Len(Plan(recipe[p])) + 1) /\ ~(job[p] > Len(Plan(recipe[p])))
  BY DEF Courses, Over
<1>3. Len(Plan(recipe[p])) \in Nat
  BY RecipeFacts DEF Shape
<1>4. job'[p] \in 1..(Len(Plan(recipe[p])) + 1)
  BY <1>1, <1>2, <1>3
<1>5. QED
  BY <1>1, <1>4 DEF Courses

LEMMA SucceedsTyped ==
  ASSUME Shape, Courses, Hands, NEW p \in Pipelines, Running(p), Succeeds(p), UNCHANGED recipe
  PROVE  Courses' /\ Hands'
<1>1. Hands'
  BY ForgetTyped DEF Succeeds
<1>2. /\ steps' = [steps EXCEPT ![p] = Tail(steps[p])]
      /\ steps[p] \in Seq(StepNames) /\ steps[p] # <<>>
  BY DEF Succeeds, Courses, Running
<1>3. /\ Tail(steps[p]) \in Seq(StepNames)
      /\ Len(steps[p]) = 1 => Tail(steps[p]) = <<>>
  <2>1. Tail(steps[p]) \in Seq(StepNames) /\ Len(Tail(steps[p])) = Len(steps[p]) - 1
    BY <1>2, HeadTailProperties
  <2>2. Tail(steps[p]) # <<>> => Len(Tail(steps[p])) \in Nat \ {0}
    BY <2>1, EmptySeq
  <2>3. QED
    BY <2>1, <2>2
<1>4. steps' \in [Pipelines -> Seq(StepNames)] /\ steps'[p] = Tail(steps[p])
      /\ \A q \in Pipelines \ {p} : steps'[q] = steps[q]
  BY <1>2, <1>3 DEF Courses
<1>5. CASE Len(steps[p]) = 1
  <2>1. Ends(p, "success") /\ ~Over(p)
    BY <1>5 DEF Succeeds, Courses
  <2>2. \A q \in Pipelines : /\ job'[q] \in 1..(Len(Plan(recipe'[q])) + 1)
                             /\ q # p => job'[q] = job[q]
    BY <2>1, EndsTyped
  <2>3. QED
    BY <1>1, <1>3, <1>4, <1>5, <2>2 DEF Courses, Running, Over
<1>6. CASE Len(steps[p]) # 1
  <2>1. UNCHANGED job
    BY <1>6 DEF Succeeds
  <2>2. QED
    BY <1>1, <1>4, <2>1 DEF Courses, Running, Over
<1>7. QED
  BY <1>5, <1>6

LEMMA FailsTyped ==
  ASSUME Shape, Courses, Hands, NEW p \in Pipelines, Running(p), Fails(p), UNCHANGED recipe
  PROVE  Courses' /\ Hands'
<1>1. Hands'
  BY ForgetTyped DEF Fails
<1>2. steps' \in [Pipelines -> Seq(StepNames)] /\ steps'[p] = <<>>
      /\ \A q \in Pipelines \ {p} : steps'[q] = steps[q]
  BY DEF Fails, Courses
<1>3. Ends(p, "failure") /\ ~Over(p)
  BY DEF Fails, Courses
<1>4. \A q \in Pipelines : /\ job'[q] \in 1..(Len(Plan(recipe'[q])) + 1)
                           /\ q # p => job'[q] = job[q]
  BY <1>3, EndsTyped
<1>5. QED
  BY <1>1, <1>2, <1>4 DEF Courses, Running, Over

LEMMA StartTyped ==
  ASSUME TypeInv, NEW p \in Pipelines, StartJob(p)
  PROVE  World' /\ Courses' /\ Hands' /\ Ledger'
<1>1. /\ steps' = [steps EXCEPT ![p] = Steps[Job(p)]]
      /\ ~Over(p)
      /\ UNCHANGED <<recipe, job>>
  BY DEF StartJob, fixedVars
<1>2. Job(p) \in Jobs
  <2>1. job[p] \in 1..(Len(Plan(recipe[p])) + 1) /\ ~(job[p] > Len(Plan(recipe[p])))
    BY <1>1 DEF TypeInv, Courses, Over
  <2>2. Len(Plan(recipe[p])) \in Nat
    BY RecipeFacts DEF TypeInv, Shape
  <2>3. job[p] \in 1..Len(Plan(recipe[p]))
    BY <2>1, <2>2
  <2>4. QED
    BY <2>3, RecipeFacts DEF TypeInv, Shape, Job
<1>3. Steps[Job(p)] \in Seq(StepNames)
  BY <1>2, RecipeFacts DEF StepNames
<1>4. Courses'
  BY <1>1, <1>3 DEF TypeInv, Courses, Running, Over
<1>5. met' \in [Pipelines -> SUBSET Pipelines]
  <2> DEFINE others == {q \in Pipelines \ {p} : UnderWay(q)}
  <2>1. met' = [q \in Pipelines |->
                  IF q = p THEN met[q] \cup others
                  ELSE IF q \in others THEN met[q] \cup {p} ELSE met[q]]
    BY DEF StartJob
  <2>2. others \subseteq Pipelines
    OBVIOUS
  <2> HIDE DEF others
  <2>3. met \in [Pipelines -> SUBSET Pipelines]
    BY DEF TypeInv, Ledger
  <2>4. ASSUME NEW q \in Pipelines
        PROVE  (IF q = p THEN met[q] \cup others
                ELSE IF q \in others THEN met[q] \cup {p} ELSE met[q]) \in SUBSET Pipelines
    BY <2>2, <2>3
  <2>5. QED
    BY <2>1, <2>4
<1>6. World' /\ Hands' /\ UNCHANGED <<read, loss>>
  BY DEF StartJob, treeVars, ledgerVars, TypeInv, World, Hands
<1>7. QED
  BY <1>4, <1>5, <1>6 DEF TypeInv, Ledger

LEMMA SkipTyped ==
  ASSUME TypeInv, NEW p \in Pipelines, SkipJob(p)
  PROVE  World' /\ Courses' /\ Hands' /\ Ledger'
<1>1. ~Over(p) /\ Ends(p, "skipped") /\ UNCHANGED <<recipe, steps>> /\ ~Running(p)
  BY DEF SkipJob, fixedVars
<1>2. \A q \in Pipelines : /\ job'[q] \in 1..(Len(Plan(recipe'[q])) + 1)
                           /\ q # p => job'[q] = job[q]
  BY <1>1, EndsTyped DEF TypeInv
<1>3. Courses'
  BY <1>1, <1>2 DEF TypeInv, Courses, Running, Over
<1>4. QED
  BY <1>3 DEF SkipJob, treeVars, ledgerVars, TypeInv, World, Hands, Ledger

\* What is read of a spec.
LEMMA SpecReadTyped ==
  ASSUME World, NEW p \in Pipelines, NEW h \in SpecRead(p)
  PROVE  h \in InHand
<1>1. Tree(p) \in Trees
  BY DEF Tree, Trees
<1>2. spec[Tree(p)].version \in Versions
  BY <1>1 DEF World
<1>3. Inventory[spec[Tree(p)].version] \subseteq Devices
  BY <1>2, PipelineAssumption
<1>4. QED
  BY <1>2, <1>3 DEF SpecRead, InHand, Contents

LEMMA ReadSpecTyped ==
  ASSUME TypeInv, NEW p \in Pipelines, ReadSpec(p)
  PROVE  World' /\ Courses' /\ Hands' /\ Ledger'
<1>1. PICK h \in SpecRead(p) :
         \/ At(p, "render", "start") /\ Continue(p, "write", h, h.devices)
         \/ /\ At(p, "build_snapshot", "start") \/ At(p, "validate", "start")
            /\ Continue(p, "clear", h, {})
         \/ At(p, "push", "start") /\ Continue(p, "send", h, h.devices \cap target[p])
         \/ At(p, "reachability", "start") /\ Continue(p, "ping", h, {})
         \/ At(p, "testbed", "start") /\ Continue(p, "check", h, {})
  BY DEF ReadSpec
<1>2. h \in InHand
  BY SpecReadTyped DEF TypeInv
<1>3. /\ HandOf("write", h, h.devices) /\ HandOf("clear", h, {})
      /\ HandOf("send", h, h.devices \cap target[p])
      /\ HandOf("ping", h, {}) /\ HandOf("check", h, {})
  BY <1>2 DEF HandOf, InHand
<1>4. UNCHANGED recipe
  BY DEF ReadSpec, fixedVars
<1>5. Courses' /\ Hands'
  BY <1>1, <1>3, <1>4, ContinueTyped DEF TypeInv
<1>6. QED
  BY <1>5 DEF ReadSpec, treeVars, ledgerVars, TypeInv, World, Ledger

LEMMA GenerateTyped ==
  ASSUME TypeInv, NEW p \in Pipelines, ReadNetBox(p) \/ OpenSpec(p) \/ DumpSpec(p)
  PROVE  World' /\ Courses' /\ Hands' /\ Ledger'
<1>0. Tree(p) \in Trees
  BY DEF Tree, Trees
<1>1. CASE ReadNetBox(p)
  <2> DEFINE h == [version |-> netbox, devices |-> Inventory[netbox]]
  <2>1. netbox \in Versions /\ Inventory[netbox] \subseteq Devices
    BY PipelineAssumption DEF TypeInv, World
  <2>2. HandOf("open", h, {})
    BY <2>1 DEF HandOf, InHand, Contents
  <2>3. Continue(p, "open", h, {}) /\ UNCHANGED recipe
    BY <1>1 DEF ReadNetBox, fixedVars
  <2> HIDE DEF h
  <2>4. Courses' /\ Hands'
    BY <2>2, <2>3, ContinueTyped DEF TypeInv
  <2>5. World'
    BY <1>1 DEF ReadNetBox, treeVars, TypeInv, World
  <2>6. Ledger'
    BY <1>1, <2>1 DEF ReadNetBox, TypeInv, Ledger
  <2>7. QED
    BY <2>4, <2>5, <2>6
<1>2. CASE OpenSpec(p)
  <2>1. at[p] = "open" /\ HandOf(at[p], hand[p], todo[p])
    BY <1>2 DEF OpenSpec, At, TypeInv, Hands
  <2>2. hand[p].version \in Versions /\ HandOf("dump", hand[p], {})
    BY <2>1 DEF HandOf
  <2>3. Continue(p, "dump", hand[p], {}) /\ UNCHANGED recipe
    BY <1>2 DEF OpenSpec, fixedVars
  <2>4. Courses' /\ Hands'
    BY <2>2, <2>3, ContinueTyped DEF TypeInv
  <2>5. World'
    BY <1>0, <1>2, <2>2 DEF OpenSpec, TypeInv, World
  <2>6. Ledger'
    BY <1>2 DEF OpenSpec, ledgerVars, TypeInv, Ledger
  <2>7. QED
    BY <2>4, <2>5, <2>6
<1>3. CASE DumpSpec(p)
  <2>1. at[p] = "dump" /\ HandOf(at[p], hand[p], todo[p]) /\ Running(p)
    BY <1>3 DEF DumpSpec, At, TypeInv, Hands
  <2>2. hand[p].version \in Versions
    BY <2>1 DEF HandOf
  <2>3. Succeeds(p) /\ UNCHANGED recipe
    BY <1>3 DEF DumpSpec, fixedVars
  <2>4. Courses' /\ Hands'
    BY <2>1, <2>3, SucceedsTyped DEF TypeInv
  <2>5. World'
    BY <1>0, <1>3, <2>2 DEF DumpSpec, TypeInv, World
  <2>6. Ledger'
    BY <1>3 DEF DumpSpec, ledgerVars, TypeInv, Ledger
  <2>7. QED
    BY <2>4, <2>5, <2>6
<1>4. QED
  BY <1>1, <1>2, <1>3

\* Steps that end, and change at most the artefacts of a fresh checkout.
LEMMA EndTyped ==
  ASSUME TypeInv, NEW p \in Pipelines,
         \/ StepFails(p) \/ Checkout(p) \/ Rendered(p) \/ Pushed(p) \/ Reachability(p) \/ Check(p)
  PROVE  World' /\ Courses' /\ Hands' /\ Ledger'
<1>1. Courses' /\ Hands'
  <2>1. Running(p) /\ (Succeeds(p) \/ Fails(p)) /\ UNCHANGED recipe
    <3>1. CASE StepFails(p)
      BY <3>1 DEF StepFails, fixedVars
    <3>2. CASE Checkout(p)
      BY <3>2 DEF Checkout, At, fixedVars
    <3>3. CASE Rendered(p)
      BY <3>3 DEF Rendered, At, fixedVars
    <3>4. CASE Pushed(p)
      BY <3>4 DEF Pushed, At, fixedVars
    <3>5. CASE Reachability(p)
      BY <3>5 DEF Reachability, At, fixedVars
    <3>6. CASE Check(p)
      BY <3>6 DEF Check, At, fixedVars
    <3>7. QED
      BY <3>1, <3>2, <3>3, <3>4, <3>5, <3>6
  <2>2. QED
    BY <2>1, SucceedsTyped, FailsTyped DEF TypeInv
<1>2. World' /\ Ledger'
  <2>1. CASE StepFails(p) \/ Rendered(p) \/ Pushed(p) \/ Check(p)
    <3>1. UNCHANGED <<netbox, live, treeVars, ledgerVars, met>>
      BY <2>1 DEF StepFails, Rendered, Pushed, Check
    <3>2. QED
      BY <3>1 DEF treeVars, ledgerVars, TypeInv, World, Ledger
  <2>2. CASE Checkout(p)
    <3>1. Tree(p) \in Trees
      BY DEF Tree, Trees
    <3>2. 0 \in Versions /\ Committed \in Artefacts /\ Nothing \in Artefacts
      BY PipelineAssumption DEF Versions, Committed, Nothing, Artefacts, Contents
    <3>3. World'
      BY <2>2, <3>1, <3>2 DEF Checkout, TypeInv, World
    <3>4. Ledger'
      BY <2>2 DEF Checkout, ledgerVars, TypeInv, Ledger
    <3>5. QED
      BY <3>3, <3>4
  <2>3. CASE Reachability(p)
    <3>1. World'
      BY <2>3 DEF Reachability, treeVars, TypeInv, World
    <3>2. Ledger'
      BY <2>3 DEF Reachability, TypeInv, Ledger
    <3>3. QED
      BY <3>1, <3>2
  <2>4. QED
    BY <2>1, <2>2, <2>3
<1>3. QED
  BY <1>1, <1>2

LEMMA BuildTyped ==
  ASSUME TypeInv, NEW p \in Pipelines,
         \/ RenderFile(p) \/ ClearSnapshot(p) \/ MakeSnapshot(p) \/ CopyFile(p)
         \/ SnapshotBuilt(p) \/ Upload(p)
  PROVE  World' /\ Courses' /\ Hands' /\ Ledger'
<1>0. Tree(p) \in Trees
  BY DEF Tree, Trees
<1>1. HandOf(at[p], hand[p], todo[p])
  BY DEF TypeInv, Hands
<1>2. hand[p] \in InHand /\ hand[p].version \in Contents /\ todo[p] \in SUBSET Devices
  BY <1>1 DEF HandOf, InHand
<1>3. /\ files[Tree(p)] \in Artefacts /\ server[Tree(p)] \in Artefacts
      /\ snap[Tree(p)] \in [there : BOOLEAN, files : Artefacts]
      /\ Nothing \in Artefacts
  BY <1>0 DEF TypeInv, World, Nothing, Artefacts, Contents
<1>4. UNCHANGED <<recipe, netbox, live, spec, ledgerVars, met>>
  BY DEF RenderFile, ClearSnapshot, MakeSnapshot, CopyFile, SnapshotBuilt, Upload,
         fixedVars, treeVars
<1>5. Ledger'
  BY <1>4 DEF TypeInv, Ledger, ledgerVars
<1>6. \A d \in Devices : todo[p] \ {d} \in SUBSET Devices
  BY <1>2
<1>7. CASE RenderFile(p)
  <2>1. PICK d \in Least(todo[p]) :
           /\ files' = [files EXCEPT ![Tree(p)][d] = hand[p].version]
           /\ Continue(p, "write", hand[p], todo[p] \ {d})
    BY <1>7 DEF RenderFile
  <2>2. d \in Devices
    BY <1>2 DEF Least
  <2>3. HandOf("write", hand[p], todo[p] \ {d})
    BY <1>2 DEF HandOf
  <2>4. Courses' /\ Hands'
    BY <1>4, <2>1, <2>3, ContinueTyped DEF TypeInv
  <2>5. files' \in [Trees -> Artefacts]
    BY <1>0, <1>2, <2>1, <2>2 DEF TypeInv, World, Artefacts
  <2>6. QED
    BY <1>4, <1>5, <1>7, <2>4, <2>5 DEF RenderFile, TypeInv, World
<1>8. CASE ClearSnapshot(p)
  <2>1. HandOf("mkdir", hand[p], {})
    BY <1>2 DEF HandOf
  <2>2. Courses' /\ Hands'
    BY <1>4, <1>8, <2>1, ContinueTyped DEF TypeInv, ClearSnapshot
  <2>3. snap' \in [Trees -> [there : BOOLEAN, files : Artefacts]]
    BY <1>3, <1>8 DEF ClearSnapshot, TypeInv, World
  <2>4. QED
    BY <1>4, <1>5, <1>8, <2>2, <2>3 DEF ClearSnapshot, TypeInv, World
<1>9. CASE MakeSnapshot(p)
  <2>1. HandOf("copy", hand[p], Present(files[Tree(p)]))
    BY <1>2 DEF HandOf, Present
  <2>2. Continue(p, "copy", hand[p], Present(files[Tree(p)]))
    BY <1>9 DEF MakeSnapshot
  <2>3. Courses' /\ Hands'
    BY <1>4, <2>1, <2>2, ContinueTyped DEF TypeInv
  <2>4. snap' \in [Trees -> [there : BOOLEAN, files : Artefacts]]
    BY <1>3, <1>9 DEF MakeSnapshot, TypeInv, World
  <2>5. QED
    BY <1>4, <1>5, <1>9, <2>3, <2>4 DEF MakeSnapshot, TypeInv, World
<1>10. CASE CopyFile(p)
  <2>1. PICK d \in Least(todo[p]) :
           /\ snap' = [snap EXCEPT ![Tree(p)].files[d] = files[Tree(p)][d]]
           /\ Continue(p, "copy", hand[p], todo[p] \ {d})
    BY <1>10 DEF CopyFile
  <2>2. d \in Devices
    BY <1>2 DEF Least
  <2>3. HandOf("copy", hand[p], todo[p] \ {d})
    BY <1>2 DEF HandOf
  <2>4. Courses' /\ Hands'
    BY <1>4, <2>1, <2>3, ContinueTyped DEF TypeInv
  <2>5. files[Tree(p)][d] \in Contents
    BY <1>3, <2>2 DEF Artefacts
  <2>6. snap' \in [Trees -> [there : BOOLEAN, files : Artefacts]]
    <3>1. [snap[Tree(p)] EXCEPT !.files = [snap[Tree(p)].files EXCEPT ![d] = files[Tree(p)][d]]]
             \in [there : BOOLEAN, files : Artefacts]
      BY <1>3, <2>2, <2>5 DEF Artefacts
    <3>2. snap' = [snap EXCEPT ![Tree(p)] =
                     [snap[Tree(p)] EXCEPT !.files =
                        [snap[Tree(p)].files EXCEPT ![d] = files[Tree(p)][d]]]]
      BY <2>1
    <3>3. QED
      BY <3>1, <3>2 DEF TypeInv, World
  <2>7. QED
    BY <1>4, <1>5, <1>10, <2>4, <2>6 DEF CopyFile, TypeInv, World
<1>11. CASE SnapshotBuilt(p)
  <2>1. HandOf("upload", hand[p], {}) /\ Running(p)
    BY <1>2, <1>11 DEF HandOf, SnapshotBuilt, Building, At
  <2>2. Continue(p, "upload", hand[p], {}) \/ Succeeds(p)
    BY <1>11 DEF SnapshotBuilt
  <2>3. Courses' /\ Hands'
    BY <1>4, <2>1, <2>2, ContinueTyped, SucceedsTyped DEF TypeInv
  <2>4. QED
    BY <1>4, <1>5, <1>11, <2>3 DEF SnapshotBuilt, treeVars, TypeInv, World
<1>12. CASE Upload(p)
  <2>1. HandOf("query", hand[p], {})
    BY <1>2 DEF HandOf
  <2>2. Courses' /\ Hands'
    BY <1>4, <1>12, <2>1, ContinueTyped DEF TypeInv, Upload
  <2>3. server' \in [Trees -> Artefacts]
    BY <1>3, <1>12 DEF Upload, TypeInv, World
  <2>4. QED
    BY <1>4, <1>5, <1>12, <2>2, <2>3 DEF Upload, TypeInv, World
<1>13. QED
  BY <1>7, <1>8, <1>9, <1>10, <1>11, <1>12

LEMMA QueryTyped ==
  ASSUME TypeInv, NEW p \in Pipelines, Query(p)
  PROVE  World' /\ Courses' /\ Hands' /\ Ledger'
<1>1. Running(p) /\ (Succeeds(p) \/ Fails(p)) /\ UNCHANGED recipe
  BY DEF Query, At, fixedVars
<1>2. Courses' /\ Hands'
  BY <1>1, SucceedsTyped, FailsTyped DEF TypeInv
<1>3. UNCHANGED <<netbox, live, treeVars, read, loss, met>>
  BY DEF Query
<1>4. QED
  BY <1>2, <1>3 DEF treeVars, TypeInv, World, Ledger

LEMMA PushTyped ==
  ASSUME TypeInv, NEW p \in Pipelines, PushDevice(p)
  PROVE  World' /\ Courses' /\ Hands' /\ Ledger'
<1>0. Tree(p) \in Trees
  BY DEF Tree, Trees
<1>1. at[p] \in {"send", "send_on"} /\ HandOf(at[p], hand[p], todo[p])
  BY DEF PushDevice, At, TypeInv, Hands
<1>2. PICK d \in Least(todo[p]) :
         LET v == files[Tree(p)][d] IN
         \/ /\ v # NoVersion
            /\ live' = [live EXCEPT ![d] = v]
            /\ Continue(p, at[p], hand[p], todo[p] \ {d})
         \/ /\ live' \in {live} \cup {[live EXCEPT ![d] = Garbled] : w \in {v} \ {NoVersion}}
            /\ Continue(p, "send_on", hand[p], todo[p] \ {d})
  BY DEF PushDevice
<1>3. d \in Devices /\ todo[p] \ {d} \in SUBSET Devices
  BY <1>1 DEF Least, HandOf
<1>4. files[Tree(p)][d] \in Contents
  BY <1>0, <1>3 DEF TypeInv, World, Artefacts
<1>5. live' \in [Devices -> Versions \cup {Garbled}]
  BY <1>2, <1>4 DEF Contents, TypeInv, World
<1>6. HandOf(at[p], hand[p], todo[p] \ {d}) /\ HandOf("send_on", hand[p], todo[p] \ {d})
  BY <1>1, <1>3 DEF HandOf
<1>7. UNCHANGED recipe
  BY DEF PushDevice, fixedVars
<1>8. Courses' /\ Hands'
  BY <1>2, <1>6, <1>7, ContinueTyped DEF TypeInv
<1>9. QED
  BY <1>5, <1>8 DEF PushDevice, treeVars, TypeInv, World, Ledger

LEMMA TypeInvNext == Inv /\ Inv' /\ TypeInv /\ [Next]_vars => TypeInv'
<1> SUFFICES ASSUME Inv', TypeInv, [Next]_vars PROVE TypeInv'
  OBVIOUS
<1>1. Shape'
  BY DEF Inv
<1>2. World' /\ Courses' /\ Hands' /\ Ledger'
  <2>1. CASE UNCHANGED vars
    BY <2>1 DEF vars, treeVars, runVars, ledgerVars, fixedVars, TypeInv,
                World, Courses, Running, Over, Hands, Ledger
  <2>2. CASE EditNetBox
    <3>1. netbox' \in Versions
      BY <2>2, PipelineAssumption DEF EditNetBox, TypeInv, World, Versions
    <3>2. QED
      BY <2>2, <3>1 DEF EditNetBox, treeVars, runVars, ledgerVars, fixedVars, TypeInv,
                        World, Courses, Running, Over, Hands, Ledger
  <2>3. ASSUME NEW p \in Pipelines,
               \/ StartJob(p) \/ SkipJob(p) \/ StepFails(p) \/ Checkout(p)
               \/ ReadNetBox(p) \/ OpenSpec(p) \/ DumpSpec(p) \/ ReadSpec(p)
               \/ RenderFile(p) \/ Rendered(p)
               \/ ClearSnapshot(p) \/ MakeSnapshot(p) \/ CopyFile(p) \/ SnapshotBuilt(p)
               \/ Upload(p) \/ Query(p) \/ PushDevice(p) \/ Pushed(p)
               \/ Reachability(p) \/ Check(p)
        PROVE  World' /\ Courses' /\ Hands' /\ Ledger'
    <3>1. CASE StartJob(p) \/ SkipJob(p)
      BY <3>1, StartTyped, SkipTyped
    <3>2. CASE \/ StepFails(p) \/ Checkout(p) \/ Rendered(p) \/ Pushed(p)
               \/ Reachability(p) \/ Check(p)
      BY <3>2, EndTyped
    <3>3. CASE ReadNetBox(p) \/ OpenSpec(p) \/ DumpSpec(p)
      BY <3>3, GenerateTyped
    <3>4. CASE ReadSpec(p)
      BY <3>4, ReadSpecTyped
    <3>5. CASE \/ RenderFile(p) \/ ClearSnapshot(p) \/ MakeSnapshot(p) \/ CopyFile(p)
               \/ SnapshotBuilt(p) \/ Upload(p)
      BY <3>5, BuildTyped
    <3>6. CASE Query(p) \/ PushDevice(p)
      BY <3>6, QueryTyped, PushTyped
    <3>7. QED
      BY <2>3, <3>1, <3>2, <3>3, <3>4, <3>5, <3>6
  <2>4. QED
    BY <2>1, <2>2, <2>3 DEF Next
<1>3. QED
  BY <1>1, <1>2 DEF TypeInv

\* Types, and that a step has nothing in hand before it has read the spec:
\* nothing is passed from process to process but by files.
THEOREM TypeCorrect == Spec => []TypeOK
<1>1. Spec => []Inv
  BY InvInit, InvNext, PTL DEF Spec
<1>2. Spec => []TypeInv
  BY <1>1, InvTypeInit, TypeInvNext, PTL DEF Spec
<1>3. QED
  BY <1>2, TypeInvOK, PTL
-----------------------------------------------------------------------------
(***************************************************************************)
(* What deploy-safe pushes.  Two pipelines that run have met; so nobody    *)
(* else works in the tree while one that has met no other runs, and the    *)
(* files it has rendered stay as they are through snapshot, server and     *)
(* verdict to the push.                                                    *)
(***************************************************************************)
BeforeGate ==
    {<<"generate", "render", "build_snapshot", "validate", "push", "reachability", "agent">>,
     <<"render", "build_snapshot", "validate", "push", "reachability", "agent">>,
     <<"build_snapshot", "validate", "push", "reachability", "agent">>,
     <<"validate", "push", "reachability", "agent">>}
AfterGate ==
    {<<"push", "reachability", "agent">>, <<"reachability", "agent">>, <<"agent">>}

Meetings ==
    \A p, q \in Pipelines : p # q /\ Running(p) /\ Running(q) => q \in met[p]

SawFiles(p) ==
    \A d \in Devices :
        /\ At(p, "validate", "mkdir") => snap[Local].files[d] = NoVersion
        /\ At(p, "validate", "copy") /\ d \notin todo[p] =>
              snap[Local].files[d] = files[Local][d]
        /\ At(p, "validate", "upload") => snap[Local].files[d] = files[Local][d]
        /\ At(p, "validate", "query") => server[Local][d] = files[Local][d]
        /\ Running(p) /\ Head(steps[p]) = "push" => judged[p].files[d] = files[Local][d]

Saw(p) ==
    /\ steps[p] \in BeforeGate \cup AfterGate \cup {<<>>}
    /\ job[p] = 1 /\ steps[p] \notin AfterGate => pushed[p] = {}
    /\ \A x \in pushed[p] : judged[p].files[x[1]] = x[2]
    /\ SawFiles(p)

Alone(p) == recipe[p] = "deploy_safe" /\ met[p] = {}

SeenInv == Meetings /\ \A p \in Pipelines : Alone(p) => Saw(p)

LEMMA SafeFacts ==
  /\ \A s \in BeforeGate :
        /\ s # <<>> /\ s \notin AfterGate /\ Len(s) # 1
        /\ Head(s) \in {"generate", "render", "build_snapshot", "validate"}
        /\ IF Head(s) = "validate" THEN Tail(s) \in AfterGate
           ELSE Tail(s) \in BeforeGate
  /\ \A s \in AfterGate :
        /\ s # <<>> /\ s \notin BeforeGate
        /\ Head(s) \in {"push", "reachability", "agent"}
        /\ IF Len(s) = 1 THEN Tail(s) = <<>>
           ELSE Tail(s) \in AfterGate /\ Head(Tail(s)) # "push"
  /\ <<>> \notin BeforeGate /\ <<>> \notin AfterGate
<1>1. ASSUME NEW s \in BeforeGate
      PROVE  /\ s # <<>> /\ s \notin AfterGate /\ Len(s) # 1
             /\ Head(s) \in {"generate", "render", "build_snapshot", "validate"}
             /\ IF Head(s) = "validate" THEN Tail(s) \in AfterGate
                ELSE Tail(s) \in BeforeGate
  <2>0. \A t \in AfterGate : Len(t) < 4
    <3>1. ASSUME NEW t \in AfterGate PROVE Len(t) < 4
      <4>1. CASE t = <<"push", "reachability", "agent">>
        BY <4>1
      <4>2. CASE t = <<"reachability", "agent">>
        BY <4>2
      <4>3. CASE t = <<"agent">>
        BY <4>3
      <4>4. QED
        BY <4>1, <4>2, <4>3 DEF AfterGate
    <3>2. QED
      BY <3>1
  <2>1. CASE s = <<"generate", "render", "build_snapshot", "validate", "push",
                   "reachability", "agent">>
    <3>1. /\ s # <<>> /\ Head(s) = "generate" /\ Len(s) = 7
          /\ Tail(s) = <<"render", "build_snapshot", "validate", "push",
                         "reachability", "agent">>
      BY <2>1
    <3>2. Tail(s) \in BeforeGate
      BY <3>1 DEF BeforeGate
    <3>3. s \notin AfterGate
      BY <2>0, <3>1
    <3>4. QED
      BY <3>1, <3>2, <3>3
  <2>2. CASE s = <<"render", "build_snapshot", "validate", "push", "reachability", "agent">>
    <3>1. /\ s # <<>> /\ Head(s) = "render" /\ Len(s) = 6
          /\ Tail(s) = <<"build_snapshot", "validate", "push", "reachability", "agent">>
      BY <2>2
    <3>2. Tail(s) \in BeforeGate
      BY <3>1 DEF BeforeGate
    <3>3. s \notin AfterGate
      BY <2>0, <3>1
    <3>4. QED
      BY <3>1, <3>2, <3>3
  <2>3. CASE s = <<"build_snapshot", "validate", "push", "reachability", "agent">>
    <3>1. /\ s # <<>> /\ Head(s) = "build_snapshot" /\ Len(s) = 5
          /\ Tail(s) = <<"validate", "push", "reachability", "agent">>
      BY <2>3
    <3>2. Tail(s) \in BeforeGate
      BY <3>1 DEF BeforeGate
    <3>3. s \notin AfterGate
      BY <2>0, <3>1
    <3>4. QED
      BY <3>1, <3>2, <3>3
  <2>4. CASE s = <<"validate", "push", "reachability", "agent">>
    <3>1. /\ s # <<>> /\ Head(s) = "validate" /\ Len(s) = 4
          /\ Tail(s) = <<"push", "reachability", "agent">>
      BY <2>4
    <3>2. QED
      BY <2>0, <3>1 DEF AfterGate
  <2>5. QED
    BY <1>1, <2>1, <2>2, <2>3, <2>4 DEF BeforeGate
<1>2. ASSUME NEW s \in AfterGate
      PROVE  /\ s # <<>> /\ s \notin BeforeGate
             /\ Head(s) \in {"push", "reachability", "agent"}
             /\ IF Len(s) = 1 THEN Tail(s) = <<>>
                ELSE Tail(s) \in AfterGate /\ Head(Tail(s)) # "push"
  <2>1. CASE s = <<"push", "reachability", "agent">>
    <3>1. /\ s # <<>> /\ Head(s) = "push" /\ Len(s) = 3
          /\ Tail(s) = <<"reachability", "agent">> /\ Head(Tail(s)) = "reachability"
      BY <2>1
    <3>2. QED
      BY <1>1, <3>1 DEF AfterGate
  <2>2. CASE s = <<"reachability", "agent">>
    <3>1. /\ s # <<>> /\ Head(s) = "reachability" /\ Len(s) = 2
          /\ Tail(s) = <<"agent">> /\ Head(Tail(s)) = "agent"
      BY <2>2
    <3>2. QED
      BY <1>1, <3>1 DEF AfterGate
  <2>3. CASE s = <<"agent">>
    <3>1. s # <<>> /\ Head(s) = "agent" /\ Len(s) = 1 /\ Tail(s) = <<>>
      BY <2>3
    <3>2. QED
      BY <1>1, <3>1
  <2>4. QED
    BY <1>2, <2>1, <2>2, <2>3 DEF AfterGate
<1>3. QED
  BY <1>1, <1>2

\* Whom a step of p leaves alone: a pipeline that has met nobody and is not
\* p does not run.
LEMMA OthersKeep ==
  ASSUME TypeInv, SeenInv, NEW p \in Pipelines, Running(p), UNCHANGED <<recipe, met>>,
         \A q \in Pipelines \ {p} :
            /\ steps'[q] = steps[q] /\ job'[q] = job[q]
            /\ pushed'[q] = pushed[q] /\ judged'[q] = judged[q],
         Alone(p) /\ Saw(p) => Saw(p)'
  PROVE  SeenInv'
<1>1. ASSUME NEW q \in Pipelines, Running(q)'
      PROVE  Running(q)
  BY <1>1 DEF Running
<1>2. Meetings'
  BY <1>1 DEF SeenInv, Meetings
<1>3. ASSUME NEW q \in Pipelines, Alone(q)'
      PROVE  Saw(q)'
  <2>1. Alone(q) /\ Saw(q)
    BY <1>3 DEF Alone, SeenInv
  <2>2. CASE q = p
    BY <2>1, <2>2
  <2>3. CASE q # p
    <3>1. ~Running(q)
      BY <2>1, <2>3 DEF SeenInv, Meetings, Alone
    <3>2. ~Running(q)' /\ steps'[q] = <<>> /\ steps[q] = <<>>
      BY <2>3, <3>1 DEF Running
    <3>3. SawFiles(q)'
      BY <3>2 DEF SawFiles, At
    <3>4. QED
      BY <2>1, <2>3, <3>2, <3>3 DEF Saw
  <2>4. QED
    BY <2>2, <2>3
<1>4. QED
  BY <1>2, <1>3 DEF SeenInv

\* A pipeline that runs alone: its tree, and where it is.
LEMMA AloneFacts ==
  ASSUME TypeInv, NEW p \in Pipelines, Running(p), Alone(p), Saw(p)
  PROVE  /\ Tree(p) = Local /\ Local \in Trees /\ ~Strict(p)
         /\ job[p] = 1 /\ job \in [Pipelines -> Nat]
         /\ steps[p] \in BeforeGate \cup AfterGate
         /\ steps[p] \in AfterGate \/ pushed[p] = {}
<1>1. recipe[p] \in MakeRecipes /\ recipe[p] \notin Workflows
  BY DEF Alone, MakeRecipes, Workflows
<1>2. Tree(p) = Local /\ Local \in Trees /\ ~Strict(p)
  BY <1>1 DEF Tree, Trees, Strict
<1>3. job[p] \in 1..2 /\ ~(job[p] > 1)
  <2>1. Len(Plan(recipe[p])) = 1
    BY <1>1, RecipeFacts
  <2>2. job[p] \in 1..(Len(Plan(recipe[p])) + 1) /\ ~(job[p] > Len(Plan(recipe[p])))
    BY DEF TypeInv, Courses, Over
  <2>3. QED
    BY <2>1, <2>2
<1>4. job[p] = 1
  BY <1>3
<1>5. QED
  BY <1>2, <1>4, SafeFacts DEF Saw, Running, TypeInv, Shape

\* A step other than the gate's verdict and the push goes on, ...
LEMMA SawGoesOn ==
  ASSUME NEW p \in Pipelines, Running(p), Saw(p),
         Head(steps[p]) \notin {"validate", "push"}, UNCHANGED <<steps, job, pushed, judged>>
  PROVE  Saw(p)'
BY DEF Saw, SawFiles, At

\* ... one other than the verdict succeeds, and any fails.
LEMMA SawSucceeds ==
  ASSUME TypeInv, NEW p \in Pipelines, Running(p), Alone(p), Saw(p),
         Head(steps[p]) # "validate", Succeeds(p), UNCHANGED <<pushed, judged>>
  PROVE  Saw(p)'
<1>1. steps'[p] = Tail(steps[p]) /\ at'[p] = "start"
  BY DEF Succeeds, Forget, TypeInv, Courses, Hands
<1>2. CASE steps[p] \in BeforeGate
  <2>1. /\ steps'[p] \in BeforeGate /\ Len(steps[p]) # 1 /\ UNCHANGED job
    BY <1>1, <1>2, SafeFacts DEF Succeeds
  <2>2. Head(steps'[p]) # "push"
    BY <2>1, SafeFacts
  <2>3. SawFiles(p)'
    BY <1>1, <2>2 DEF SawFiles, At
  <2>4. pushed[p] = {}
    BY <1>2, AloneFacts, SafeFacts
  <2>5. QED
    BY <2>1, <2>3, <2>4 DEF Saw
<1>3. CASE steps[p] \in AfterGate
  <2>1. CASE Len(steps[p]) = 1
    <3>1. steps'[p] = <<>>
      BY <1>1, <1>3, <2>1, SafeFacts
    <3>2. job'[p] = 2
      BY <2>1, AloneFacts DEF Succeeds, Ends
    <3>3. QED
      BY <3>1, <3>2 DEF Saw, SawFiles, At, Running
  <2>2. CASE Len(steps[p]) # 1
    <3>1. steps'[p] \in AfterGate /\ Head(steps'[p]) # "push"
      BY <1>1, <1>3, <2>2, SafeFacts
    <3>2. SawFiles(p)'
      BY <1>1, <3>1 DEF SawFiles, At
    <3>3. QED
      BY <3>1, <3>2 DEF Saw
  <2>3. QED
    BY <2>1, <2>2
<1>4. QED
  BY <1>2, <1>3, AloneFacts

LEMMA SawFails ==
  ASSUME TypeInv, NEW p \in Pipelines, Running(p), Alone(p), Saw(p),
         Fails(p), UNCHANGED <<pushed, judged>>
  PROVE  Saw(p)'
<1>1. steps'[p] = <<>>
  BY DEF Fails, TypeInv, Courses
<1>2. job'[p] = 2
  BY AloneFacts DEF Fails, Ends
<1>3. QED
  BY <1>1, <1>2 DEF Saw, SawFiles, At, Running

\* The gate: from the files rendered to the snapshot, from there to the
\* server, and to the verdict.
LEMMA GateKeeps ==
  ASSUME TypeInv, NEW p \in Pipelines, Running(p), Alone(p), Saw(p),
         Head(steps[p]) = "validate",
         \/ ReadSpec(p) \/ ClearSnapshot(p) \/ MakeSnapshot(p) \/ CopyFile(p)
         \/ SnapshotBuilt(p) \/ Upload(p)
  PROVE  Saw(p)' /\ UNCHANGED <<steps, job, pushed, judged>>
<1>0. /\ Tree(p) = Local /\ Local \in Trees
      /\ files[Local] \in Artefacts /\ server \in [Trees -> Artefacts]
      /\ snap \in [Trees -> [there : BOOLEAN, files : Artefacts]]
      /\ snap[Local] \in [there : BOOLEAN, files : Artefacts]
  BY AloneFacts DEF TypeInv, World
<1>1. DOMAIN at = Pipelines /\ DOMAIN todo = Pipelines
  BY DEF TypeInv, Hands
<1>2. \A x, h, T : Continue(p, x, h, T) =>
         /\ at'[p] = x /\ todo'[p] = T /\ UNCHANGED <<steps, job>>
  BY <1>1 DEF Continue
<1>3. ASSUME UNCHANGED <<steps, job, pushed, judged>>,
             \A d \in Devices :
                /\ at'[p] = "mkdir" => snap'[Local].files[d] = NoVersion
                /\ at'[p] = "copy" /\ d \notin todo'[p] =>
                      snap'[Local].files[d] = files'[Local][d]
                /\ at'[p] = "upload" => snap'[Local].files[d] = files'[Local][d]
                /\ at'[p] = "query" => server'[Local][d] = files'[Local][d]
      PROVE  Saw(p)'
  BY <1>3 DEF Saw, SawFiles, At, Running
<1>4. CASE ReadSpec(p)
  <2>1. UNCHANGED <<pushed, judged>>
    BY <1>4 DEF ReadSpec, ledgerVars
  <2>2. \E h \in SpecRead(p) : Continue(p, "clear", h, {})
    BY <1>4 DEF ReadSpec, At
  <2>3. at'[p] = "clear" /\ UNCHANGED <<steps, job>>
    BY <1>2, <2>2
  <2>4. QED
    BY <1>3, <2>1, <2>3
<1>5. CASE ClearSnapshot(p)
  <2>1. at'[p] = "mkdir" /\ UNCHANGED <<steps, job, pushed, judged>>
    BY <1>2, <1>5 DEF ClearSnapshot, ledgerVars
  <2>2. snap'[Local].files = Nothing
    BY <1>0, <1>5 DEF ClearSnapshot
  <2>3. QED
    BY <1>3, <2>1, <2>2 DEF Nothing
<1>6. CASE MakeSnapshot(p)
  <2>1. /\ at[p] = "mkdir" /\ at'[p] = "copy" /\ todo'[p] = Present(files[Local])
        /\ UNCHANGED <<steps, job, pushed, judged, files>>
    BY <1>0, <1>2, <1>6 DEF MakeSnapshot, Building, At, ledgerVars
  <2>2. snap'[Local].files = snap[Local].files
    BY <1>0, <1>6 DEF MakeSnapshot
  <2>3. \A d \in Devices : snap[Local].files[d] = NoVersion
    BY <2>1 DEF Saw, SawFiles, At
  <2>4. QED
    BY <1>3, <2>1, <2>2, <2>3 DEF Present
<1>7. CASE CopyFile(p)
  <2>1. PICK d \in Least(todo[p]) :
           /\ snap' = [snap EXCEPT ![Tree(p)].files[d] = files[Tree(p)][d]]
           /\ Continue(p, "copy", hand[p], todo[p] \ {d})
    BY <1>7 DEF CopyFile
  <2>2. /\ at[p] = "copy" /\ at'[p] = "copy" /\ todo'[p] = todo[p] \ {d}
        /\ UNCHANGED <<steps, job, pushed, judged, files>>
    BY <1>2, <1>7, <2>1 DEF CopyFile, Building, At, ledgerVars
  <2>3. snap'[Local].files = [snap[Local].files EXCEPT ![d] = files[Local][d]]
    BY <1>0, <2>1
  <2>4. ASSUME NEW e \in Devices, e \notin todo'[p]
        PROVE  snap'[Local].files[e] = files[Local][e]
    <3>1. CASE e = d
      BY <1>0, <2>3, <3>1 DEF Artefacts
    <3>2. CASE e # d
      <4>1. e \notin todo[p]
        BY <2>2, <2>4, <3>2
      <4>2. snap[Local].files[e] = files[Local][e]
        BY <2>2, <4>1 DEF Saw, SawFiles, At
      <4>3. QED
        BY <1>0, <2>3, <3>2, <4>2 DEF Artefacts
    <3>3. QED
      BY <3>1, <3>2
  <2>5. QED
    BY <1>3, <2>2, <2>4
<1>8. CASE SnapshotBuilt(p)
  <2>1. at[p] = "copy" /\ todo[p] = {} /\ At(p, "validate", "copy")
    BY <1>8 DEF SnapshotBuilt, Building, At
  <2>2. /\ at'[p] = "upload" /\ UNCHANGED <<steps, job, pushed, judged, files, snap>>
    BY <1>2, <1>8, <2>1 DEF SnapshotBuilt, treeVars, ledgerVars
  <2>3. \A d \in Devices : snap[Local].files[d] = files[Local][d]
    BY <2>1 DEF Saw, SawFiles
  <2>4. QED
    BY <1>3, <2>2, <2>3
<1>9. CASE Upload(p)
  <2>1. /\ at[p] = "upload" /\ At(p, "validate", "upload") /\ at'[p] = "query"
        /\ UNCHANGED <<steps, job, pushed, judged, files>>
    BY <1>2, <1>9 DEF Upload, At, ledgerVars
  <2>2. server'[Local] = snap[Local].files
    BY <1>0, <1>9 DEF Upload
  <2>3. \A d \in Devices : snap[Local].files[d] = files[Local][d]
    BY <2>1 DEF Saw, SawFiles
  <2>4. QED
    BY <1>3, <2>1, <2>2, <2>3
<1>10. QED
  BY <1>4, <1>5, <1>6, <1>7, <1>8, <1>9

\* The verdict is on what the server was given.
LEMMA VerdictKeeps ==
  ASSUME TypeInv, NEW p \in Pipelines, Running(p), Alone(p), Saw(p), Query(p)
  PROVE  Saw(p)'
<1>0. Tree(p) = Local /\ ~Strict(p)
  BY AloneFacts
<1>1. At(p, "validate", "query") /\ Head(steps[p]) = "validate" /\ UNCHANGED <<pushed, files>>
  BY DEF Query, At, treeVars
<1>2. PICK v \in Verdicts(server[Tree(p)]) :
         /\ judged' = [judged EXCEPT ![p] = [files |-> server[Tree(p)], passed |-> v]]
         /\ IF Strict(p) /\ ~v THEN Fails(p) ELSE Succeeds(p)
  BY DEF Query
<1>3. judged'[p].files = server[Local]
  BY <1>0, <1>2 DEF TypeInv, Shape
<1>4. Succeeds(p)
  BY <1>0, <1>2
<1>5. steps'[p] = Tail(steps[p]) /\ at'[p] = "start"
  BY <1>4 DEF Succeeds, Forget, TypeInv, Courses, Hands
<1>6. steps[p] \in BeforeGate
  BY <1>1, AloneFacts, SafeFacts
<1>7. steps'[p] \in AfterGate /\ pushed'[p] = {}
  BY <1>1, <1>5, <1>6, AloneFacts, SafeFacts
<1>8. \A d \in Devices : judged'[p].files[d] = files'[Local][d]
  BY <1>1, <1>3 DEF Saw, SawFiles
<1>9. SawFiles(p)'
  BY <1>5, <1>8 DEF SawFiles, At
<1>10. QED
  BY <1>7, <1>9 DEF Saw

\* The push sends the files as they are.
LEMMA PushSaw ==
  ASSUME TypeInv, NEW p \in Pipelines, Running(p), Alone(p), Saw(p),
         Head(steps[p]) = "push", ReadSpec(p) \/ PushDevice(p)
  PROVE  Saw(p)'
<1>0. Tree(p) = Local
  BY AloneFacts
<1>1. \A d \in Devices : judged[p].files[d] = files[Local][d]
  BY DEF Saw, SawFiles
<1>2. UNCHANGED <<steps, job, judged, files>>
  BY DEF ReadSpec, PushDevice, Continue, treeVars, ledgerVars
<1>3. SawFiles(p)'
  BY <1>1, <1>2 DEF SawFiles, At, Running
<1>4. steps[p] \in AfterGate
  BY AloneFacts, SafeFacts
<1>5. CASE ReadSpec(p)
  <2>1. UNCHANGED pushed
    BY <1>5 DEF ReadSpec, ledgerVars
  <2>2. QED
    BY <1>2, <1>3, <2>1 DEF Saw
<1>6. CASE PushDevice(p)
  <2>1. PICK d \in Least(todo[p]) :
           \/ pushed' = [pushed EXCEPT ![p] = @ \cup {<<d, files[Tree(p)][d]>>}]
           \/ UNCHANGED pushed
    BY <1>6 DEF PushDevice
  <2>2. d \in Devices
    BY <2>1 DEF Least, TypeInv, Hands, HandOf
  <2>3. \A x \in pushed'[p] : judged[p].files[x[1]] = x[2]
    <3>1. \A x \in pushed[p] : judged[p].files[x[1]] = x[2]
      BY DEF Saw
    <3>2. judged[p].files[d] = files[Tree(p)][d]
      BY <1>0, <1>1, <2>2
    <3>3. pushed'[p] \subseteq pushed[p] \cup {<<d, files[Tree(p)][d]>>}
      BY <2>1 DEF TypeInv, Shape
    <3>4. QED
      BY <3>1, <3>2, <3>3
  <2>4. QED
    BY <1>2, <1>3, <1>4, <2>3 DEF Saw
<1>7. QED
  BY <1>5, <1>6

\* A pipeline that begins meets all those under way.
LEMMA StartSeen ==
  ASSUME TypeInv, SeenInv, NEW p \in Pipelines, StartJob(p)
  PROVE  SeenInv'
<1> DEFINE others == {q \in Pipelines \ {p} : UnderWay(q)}
<1>1. /\ met' = [q \in Pipelines |->
                   IF q = p THEN met[q] \cup others
                   ELSE IF q \in others THEN met[q] \cup {p} ELSE met[q]]
      /\ steps' = [steps EXCEPT ![p] = Steps[Job(p)]]
      /\ ~Over(p) /\ ~Running(p)
      /\ UNCHANGED <<recipe, job, at, todo, files, snap, server, judged, pushed>>
  BY DEF StartJob, treeVars, ledgerVars, fixedVars
<1>2. \A q \in Pipelines \ {p} : Running(q) => q \in others
  BY DEF UnderWay, TypeInv, Courses
<1> HIDE DEF others
<1>3. \A q \in Pipelines \ {p} : steps'[q] = steps[q] /\ (Running(q)' <=> Running(q))
  BY <1>1 DEF TypeInv, Courses, Running
<1>4. \A q \in Pipelines : met[q] \subseteq met'[q]
  BY <1>1
<1>5. Meetings'
  <2>1. ASSUME NEW q \in Pipelines, NEW r \in Pipelines, q # r, Running(q)', Running(r)'
        PROVE  r \in met'[q]
    <3>1. CASE q # p /\ r # p
      BY <1>3, <1>4, <2>1, <3>1 DEF SeenInv, Meetings
    <3>2. CASE q = p
      BY <1>1, <1>2, <1>3, <2>1, <3>2
    <3>3. CASE r = p
      BY <1>1, <1>2, <1>3, <2>1, <3>3
    <3>4. QED
      BY <3>1, <3>2, <3>3
  <2>2. QED
    BY <2>1 DEF Meetings
<1>6. ASSUME NEW q \in Pipelines, Alone(q)'
      PROVE  Saw(q)'
  <2>1. Alone(q) /\ Saw(q)
    BY <1>1, <1>4, <1>6 DEF Alone, SeenInv
  <2>2. CASE q = p
    <3>1. recipe[p] \in MakeRecipes /\ recipe[p] = "deploy_safe"
      BY <2>1, <2>2 DEF Alone, MakeRecipes
    <3>2. Len(Plan(recipe[p])) = 1 /\ Plan(recipe[p])[1] = "deploy_safe"
      BY <3>1, RecipeFacts
    <3>3. job[p] = 1
      BY <1>1, <3>2 DEF Over, TypeInv, Courses
    <3>4. Job(p) = "deploy_safe"
      BY <3>2, <3>3 DEF Job
    <3>5. steps'[p] = <<"generate", "render", "build_snapshot", "validate", "push",
                        "reachability", "agent">>
      BY <1>1, <3>4 DEF Steps, TypeInv, Courses
    <3>6. steps'[p] \in BeforeGate /\ Head(steps'[p]) = "generate"
      BY <3>5 DEF BeforeGate
    <3>7. pushed[p] = {}
      BY <1>1, <2>1, <2>2, <3>3, SafeFacts DEF Saw, Running
    <3>8. SawFiles(p)'
      BY <3>6 DEF SawFiles, At
    <3>9. QED
      BY <1>1, <2>2, <3>6, <3>7, <3>8 DEF Saw
  <2>3. CASE q # p
    BY <1>1, <1>3, <2>1, <2>3 DEF Saw, SawFiles, At
  <2>4. QED
    BY <2>2, <2>3
<1>7. QED
  BY <1>5, <1>6 DEF SeenInv

LEMMA SkipSeen ==
  ASSUME TypeInv, SeenInv, NEW p \in Pipelines, SkipJob(p)
  PROVE  SeenInv'
<1>1. /\ Ends(p, "skipped") /\ ~Running(p)
      /\ UNCHANGED <<recipe, steps, at, todo, files, snap, server, judged, pushed, met>>
  BY DEF SkipJob, treeVars, ledgerVars, fixedVars
<1>2. /\ job'[p] = job[p] + 1 /\ job[p] \in Nat /\ job[p] > 0
      /\ \A q \in Pipelines \ {p} : job'[q] = job[q]
  BY <1>1 DEF Ends, TypeInv, Shape, Courses
<1>3. Meetings'
  BY <1>1 DEF SeenInv, Meetings, Running
<1>4. ASSUME NEW q \in Pipelines, Alone(q)'
      PROVE  Saw(q)'
  <2>1. Saw(q)
    BY <1>1, <1>4 DEF Alone, SeenInv
  <2>2. SawFiles(q)'
    BY <1>1, <2>1 DEF Saw, SawFiles, At, Running
  <2>3. job'[q] = 1 => job[q] = 1
    BY <1>2
  <2>4. QED
    BY <1>1, <2>1, <2>2, <2>3 DEF Saw
<1>5. QED
  BY <1>3, <1>4 DEF SeenInv

LEMMA StepSeen ==
  ASSUME TypeInv, SeenInv, NEW p \in Pipelines,
         \/ StepFails(p) \/ Checkout(p)
         \/ ReadNetBox(p) \/ OpenSpec(p) \/ DumpSpec(p) \/ ReadSpec(p)
         \/ RenderFile(p) \/ Rendered(p)
         \/ ClearSnapshot(p) \/ MakeSnapshot(p) \/ CopyFile(p) \/ SnapshotBuilt(p)
         \/ Upload(p) \/ Query(p) \/ PushDevice(p) \/ Pushed(p)
         \/ Reachability(p) \/ Check(p)
  PROVE  SeenInv'
<1>1. Running(p)
  BY DEF StepFails, Checkout, ReadNetBox, OpenSpec, DumpSpec, ReadSpec, RenderFile, Rendered,
         ClearSnapshot, MakeSnapshot, CopyFile, SnapshotBuilt, Upload, Query, PushDevice,
         Pushed, Reachability, Check, Building, At
<1>2. UNCHANGED <<recipe, met>>
  BY DEF StepFails, Checkout, ReadNetBox, OpenSpec, DumpSpec, ReadSpec, RenderFile, Rendered,
         ClearSnapshot, MakeSnapshot, CopyFile, SnapshotBuilt, Upload, Query, PushDevice,
         Pushed, Reachability, Check, fixedVars
<1>3. \A q \in Pipelines \ {p} : steps'[q] = steps[q] /\ job'[q] = job[q]
  <2>1. \/ UNCHANGED <<steps, job>>
        \/ Succeeds(p) \/ Fails(p)
    BY DEF StepFails, Checkout, ReadNetBox, OpenSpec, DumpSpec, ReadSpec, RenderFile, Rendered,
           ClearSnapshot, MakeSnapshot, CopyFile, SnapshotBuilt, Upload, Query, PushDevice,
           Pushed, Reachability, Check, Continue
  <2>2. QED
    BY <2>1 DEF Succeeds, Fails, Ends, TypeInv, Courses, Shape
<1>4. \A q \in Pipelines \ {p} : pushed'[q] = pushed[q] /\ judged'[q] = judged[q]
  <2>1. CASE Query(p)
    BY <2>1 DEF Query, TypeInv, Shape
  <2>2. CASE PushDevice(p)
    BY <2>2 DEF PushDevice, TypeInv, Shape
  <2>3. CASE ~Query(p) /\ ~PushDevice(p)
    BY <2>3 DEF StepFails, Checkout, ReadNetBox, OpenSpec, DumpSpec, ReadSpec, RenderFile,
                Rendered, ClearSnapshot, MakeSnapshot, CopyFile, SnapshotBuilt, Upload,
                Pushed, Reachability, Check, ledgerVars
  <2>4. QED
    BY <2>1, <2>2, <2>3
<1>5. ASSUME Alone(p), Saw(p)
      PROVE  Saw(p)'
  <2>1. CASE StepFails(p)
    BY <1>1, <1>5, <2>1, SawFails DEF StepFails, ledgerVars
  <2>2. CASE Query(p)
    BY <1>1, <1>5, <2>2, VerdictKeeps
  <2>3. CASE /\ Head(steps[p]) = "validate"
             /\ \/ ReadSpec(p) \/ ClearSnapshot(p) \/ MakeSnapshot(p) \/ CopyFile(p)
                \/ SnapshotBuilt(p) \/ Upload(p)
    BY <1>1, <1>5, <2>3, GateKeeps
  <2>4. CASE Head(steps[p]) = "push" /\ (ReadSpec(p) \/ PushDevice(p))
    BY <1>1, <1>5, <2>4, PushSaw
  <2>5. CASE \/ Checkout(p) \/ DumpSpec(p) \/ Rendered(p) \/ Pushed(p)
             \/ Reachability(p) \/ Check(p)
             \/ Head(steps[p]) # "validate" /\ SnapshotBuilt(p)
    <3>1. Head(steps[p]) # "validate" /\ Succeeds(p) /\ UNCHANGED <<pushed, judged>>
      BY <2>5 DEF Checkout, DumpSpec, Rendered, Pushed, Reachability, Check, SnapshotBuilt,
                  At, ledgerVars
    <3>2. QED
      BY <1>1, <1>5, <3>1, SawSucceeds
  <2>6. CASE \/ ReadNetBox(p) \/ OpenSpec(p) \/ RenderFile(p)
             \/ /\ Head(steps[p]) \notin {"validate", "push"}
                /\ ReadSpec(p) \/ ClearSnapshot(p) \/ MakeSnapshot(p) \/ CopyFile(p)
    <3>1. /\ Head(steps[p]) \notin {"validate", "push"}
          /\ UNCHANGED <<steps, job, pushed, judged>>
      BY <2>6 DEF ReadNetBox, OpenSpec, RenderFile, ReadSpec, ClearSnapshot, MakeSnapshot,
                  CopyFile, Continue, At, ledgerVars
    <3>2. QED
      BY <1>1, <1>5, <3>1, SawGoesOn
  <2>7. /\ PushDevice(p) => Head(steps[p]) = "push"
        /\ Upload(p) => Head(steps[p]) = "validate"
        /\ ClearSnapshot(p) \/ MakeSnapshot(p) \/ CopyFile(p) => Head(steps[p]) # "push"
    BY DEF PushDevice, Upload, ClearSnapshot, MakeSnapshot, CopyFile, Building, At
  <2>8. QED
    BY <2>1, <2>2, <2>3, <2>4, <2>5, <2>6, <2>7
<1>6. QED
  BY <1>1, <1>2, <1>3, <1>4, <1>5, OthersKeep

LEMMA SeenInit == Init => SeenInv
<1> SUFFICES ASSUME Init PROVE SeenInv
  OBVIOUS
<1>1. \A p \in Pipelines : steps[p] = <<>> /\ pushed[p] = {}
  BY DEF Init
<1>2. QED
  BY <1>1 DEF SeenInv, Meetings, Saw, SawFiles, At, Running

LEMMA SeenNext == TypeInv /\ SeenInv /\ [Next]_vars => SeenInv'
<1> SUFFICES ASSUME TypeInv, SeenInv, [Next]_vars PROVE SeenInv'
  OBVIOUS
<1>1. CASE UNCHANGED vars \/ EditNetBox
  <2>1. UNCHANGED <<recipe, steps, at, job, todo, files, snap, server, judged, pushed, met>>
    BY <1>1 DEF EditNetBox, vars, treeVars, runVars, ledgerVars, fixedVars
  <2>2. QED
    BY <2>1 DEF SeenInv, Meetings, Alone, Saw, SawFiles, At, Running
<1>2. ASSUME NEW p \in Pipelines,
             \/ StartJob(p) \/ SkipJob(p) \/ StepFails(p) \/ Checkout(p)
             \/ ReadNetBox(p) \/ OpenSpec(p) \/ DumpSpec(p) \/ ReadSpec(p)
             \/ RenderFile(p) \/ Rendered(p)
             \/ ClearSnapshot(p) \/ MakeSnapshot(p) \/ CopyFile(p) \/ SnapshotBuilt(p)
             \/ Upload(p) \/ Query(p) \/ PushDevice(p) \/ Pushed(p)
             \/ Reachability(p) \/ Check(p)
      PROVE  SeenInv'
  <2>1. CASE StartJob(p)
    BY <2>1, StartSeen
  <2>2. CASE SkipJob(p)
    BY <2>2, SkipSeen
  <2>3. CASE ~StartJob(p) /\ ~SkipJob(p)
    BY <1>2, <2>3, StepSeen
  <2>4. QED
    BY <2>1, <2>2, <2>3
<1>3. QED
  BY <1>1, <1>2 DEF Next

LEMMA SeenImplies == SeenInv => GateSawPushed
BY DEF SeenInv, Alone, Saw, GateSawPushed

\* What deploy-safe pushes is what its gate has looked at, for any number of
\* devices and of other pipelines, as long as none of these is under way at
\* the same time: whatever they have left behind in the tree before, and
\* whoever edits NetBox meanwhile.
THEOREM PushIsWhatGateSaw == Spec => []GateSawPushed
<1>1. Spec => []Inv
  BY InvInit, InvNext, PTL DEF Spec
<1>2. Spec => []TypeInv
  BY <1>1, InvTypeInit, TypeInvNext, PTL DEF Spec
<1>3. Spec => []SeenInv
  BY <1>2, SeenInit, SeenNext, PTL DEF Spec
<1>4. QED
  BY <1>3, SeenImplies, PTL
=============================================================================
