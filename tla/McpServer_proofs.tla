-------------------------- MODULE McpServer_proofs --------------------------
(***************************************************************************)
(* Theorems about McpServer, for every number of calls, devices, threads   *)
(* and permits.  The argument has three layers:                            *)
(*                                                                         *)
(*   TypeOK      the types, on which everything rests;                     *)
(*   HoldInv     a call past a lock owns it, a call past the semaphore     *)
(*               has a permit, and at most MaxConcurrent permits are out;  *)
(*   ThreadInv   a job is queued or run for one call that awaits it, by    *)
(*               one thread, and sessions follow the itinerary.            *)
(***************************************************************************)
EXTENDS McpServer, FiniteSetTheorems, SequenceTheorems, TLAPS

(***************************************************************************)
(* Queues.                                                                 *)
(***************************************************************************)
\* RemoveAt takes out one element and closes the gap.
LEMMA RemoveAtProperties ==
  ASSUME NEW S, NEW s \in Seq(S), NEW i \in 1..Len(s)
  PROVE  /\ RemoveAt(s, i) \in Seq(S)
         /\ Len(RemoveAt(s, i)) = Len(s) - 1
         /\ \A j \in 1..(Len(s) - 1) :
               RemoveAt(s, i)[j] = IF j < i THEN s[j] ELSE s[j + 1]
<1> DEFINE a == SubSeq(s, 1, i - 1)
           b == SubSeq(s, i + 1, Len(s))
<1>0. Len(s) \in Nat /\ i \in Nat /\ i >= 1 /\ i <= Len(s)
  BY LenProperties
<1>1. \A j \in 1..Len(s) : s[j] \in S
  BY ElementOfSeq
<1>2. /\ a \in Seq(S) /\ Len(a) = i - 1
      /\ \A j \in 1..(i - 1) : a[j] = s[j]
  BY <1>0, <1>1
<1>3. /\ b \in Seq(S) /\ Len(b) = Len(s) - i
      /\ \A j \in 1..(Len(s) - i) : b[j] = s[i + j]
  BY <1>0, <1>1
<1>4. /\ a \o b \in Seq(S)
      /\ Len(a \o b) = Len(a) + Len(b)
      /\ \A j \in 1..(Len(a) + Len(b)) :
            (a \o b)[j] = IF j <= Len(a) THEN a[j] ELSE b[j - Len(a)]
  BY <1>2, <1>3, ConcatProperties
<1>5. RemoveAt(s, i) = a \o b
  BY DEF RemoveAt
<1> HIDE DEF a, b
<1>6. Len(a \o b) = Len(s) - 1
  BY <1>0, <1>2, <1>3, <1>4
<1>7. ASSUME NEW j \in 1..(Len(s) - 1)
      PROVE  (a \o b)[j] = IF j < i THEN s[j] ELSE s[j + 1]
  <2>1. j \in 1..(Len(a) + Len(b))
    BY <1>0, <1>2, <1>3
  <2>2. CASE j < i
    BY <2>1, <2>2, <1>0, <1>2, <1>4
  <2>3. CASE ~(j < i)
    <3>1. j - Len(a) = j - i + 1 /\ j - i + 1 \in 1..(Len(s) - i) /\ ~(j <= Len(a))
      BY <2>3, <1>0, <1>2
    <3>2. (a \o b)[j] = b[j - i + 1]
      BY <3>1, <2>1, <1>4
    <3>3. b[j - i + 1] = s[i + (j - i + 1)]
      BY <3>1, <1>3
    <3>4. i + (j - i + 1) = j + 1
      BY <1>0
    <3>5. QED
      BY <3>2, <3>3, <3>4, <2>3
  <2>4. QED
    BY <2>2, <2>3
<1>8. QED
  BY <1>4, <1>5, <1>6, <1>7

\* Serving the head of a queue: the others move up by one place.
LEMMA ServeHead ==
  ASSUME NEW S, NEW s \in Seq(S), s # <<>>
  PROVE  /\ Head(s) \in S /\ Head(s) = s[1] /\ 1 \in 1..Len(s)
         /\ Tail(s) \in Seq(S)
         /\ Len(Tail(s)) = Len(s) - 1
         /\ \A j \in 1..Len(Tail(s)) : /\ Tail(s)[j] = s[j + 1]
                                       /\ j + 1 \in 1..Len(s)
                                       /\ j + 1 # 1
<1>1. Head(s) \in S /\ Tail(s) \in Seq(S) /\ Len(Tail(s)) = Len(s) - 1
      /\ \A j \in 1..Len(Tail(s)) : Tail(s)[j] = s[j + 1]
  BY HeadTailProperties
<1>2. Len(s) \in Nat \ {0}
  BY EmptySeq
<1>3. Head(s) = s[1]
  OBVIOUS
<1>4. QED
  BY <1>1, <1>2, <1>3

-----------------------------------------------------------------------------

(***************************************************************************)
(* Requests and what they need.                                            *)
(***************************************************************************)
LEMMA RequestFacts ==
  ASSUME NEW r \in Requests
  PROVE  /\ UsesLock(r) => LockOf(r) \in Locks
         /\ Itinerary(r) \in Seq(Devices)
         /\ r.tool \in SingleTools => Itinerary(r) = <<r.target>> /\ LockOf(r) = r.target
         /\ r.tool \in SingleTools => UsesLock(r)
         /\ r.tool \in BatfishTools => /\ Itinerary(r) = <<>>
                                       /\ UsesLock(r) /\ LockOf(r) = BatfishLock
         /\ r.tool \notin BatfishTools => UsesPermit(r)
<1>1. /\ r.tool \in SweepTools \cup BatfishTools \cup SingleTools \cup {"run_chaos_test"}
      /\ r.tool \in SingleTools => r.target \in Devices
      /\ r.tool = "run_chaos_test" => r.target \in Devices
  BY ServerAssumption DEF Requests, SweepTools, BatfishTools, SingleTools
<1>2. \A t \in SweepTools : Sweep[t] \in Seq(Devices)
  <2>1. \A t \in SweepTools : Sweep[t] \in Seq(Managed)
    BY ServerAssumption
  <2>2. Managed \subseteq Devices
    BY ServerAssumption
  <2>3. QED
    BY <2>1, <2>2, SeqMonotonic
<1>3. Itinerary(r) \in Seq(Devices)
  <2>1. CASE r.tool \in SweepTools
    BY <2>1, <1>2 DEF Itinerary, SweepTools, SingleTools
  <2>2. CASE r.tool = "run_chaos_test"
    <3>1. <<r.target>> \in Seq(Devices)
      BY <1>1, <2>2
    <3>2. /\ Sweep["check_fabric_health"] \in Seq(Devices)
          /\ Sweep["check_branch_connectivity"] \in Seq(Devices)
          /\ Sweep["check_spec_compliance"] \in Seq(Devices)
      BY <1>2 DEF SweepTools
    <3>3. Itinerary(r) = <<r.target>> \o Sweep["check_fabric_health"]
                           \o Sweep["check_branch_connectivity"]
                           \o Sweep["check_spec_compliance"]
      BY <2>2 DEF Itinerary, SweepTools, SingleTools
    <3>4. QED
      BY <3>1, <3>2, <3>3, ConcatProperties
  <2>3. CASE r.tool \in SingleTools
    BY <2>3, <1>1 DEF Itinerary, SweepTools, SingleTools
  <2>4. CASE r.tool \in BatfishTools
    BY <2>4, <1>1 DEF Itinerary, SweepTools, SingleTools, BatfishTools
  <2>5. QED
    BY <1>1, <2>1, <2>2, <2>3, <2>4
<1>4. /\ UsesLock(r) => LockOf(r) \in Locks
      /\ r.tool \in SingleTools => UsesLock(r) /\ LockOf(r) = r.target
      /\ r.tool \in BatfishTools => UsesLock(r) /\ LockOf(r) = BatfishLock
      /\ r.tool \notin BatfishTools => UsesPermit(r)
  BY <1>1 DEF UsesLock, UsesPermit, LockOf, Locks, LimitTools, SingleTools,
              BatfishTools, SweepTools
<1>5. /\ r.tool \in SingleTools => Itinerary(r) = <<r.target>>
      /\ r.tool \in BatfishTools => Itinerary(r) = <<>>
  BY DEF Itinerary, SweepTools, SingleTools, BatfishTools
<1>6. QED
  BY <1>3, <1>4, <1>5

-----------------------------------------------------------------------------
(***************************************************************************)
(* The executor: who is queued, who runs, and for whom.                    *)
(***************************************************************************)
RequestInv == \A c \in Calls : pc[c] # "idle" => req[c] \in Requests

JobsInv ==
  /\ \A i \in 1..Len(jobs) : pc[jobs[i]] = "inThread"
  /\ \A i, j \in 1..Len(jobs) : i # j => jobs[i] # jobs[j]
  /\ \A i \in 1..Len(jobs), w \in Workers : running[w] # jobs[i]

RunningInv ==
  /\ \A w \in Workers :
        running[w] \in Calls => /\ pc[running[w]] = "inThread"
                                /\ job[w] = req[running[w]]
  /\ \A v, w \in Workers :
        v # w /\ running[v] \in Calls => running[v] # running[w]
  /\ \A w \in Workers : running[w] # Nobody => job[w] \in Requests

VisitInv ==
  \A w \in Workers :
    /\ running[w] = Nobody => session[w] = NoDevice /\ todo[w] = <<>>
    /\ session[w] # NoDevice => todo[w] # <<>> /\ session[w] = Head(todo[w])
    /\ Serving(w, SingleTools) => todo[w] \in {<<job[w].target>>, <<>>}
    /\ Serving(w, BatfishTools) => todo[w] = <<>>

ExecInv == TypeOK /\ RequestInv /\ JobsInv /\ RunningInv /\ VisitInv

LEMMA ExecInit == Init => ExecInv
<1> SUFFICES ASSUME Init PROVE ExecInv
  OBVIOUS
<1>1. TypeOK
  BY EmptySeq DEF Init, TypeOK
<1>2. RequestInv
  BY DEF Init, RequestInv
<1>3. JobsInv
  BY DEF Init, JobsInv
<1>4. RunningInv
  BY ServerAssumption DEF Init, RunningInv
<1>v. VisitInv
  BY DEF Init, VisitInv, Serving
<1>5. QED
  BY <1>1, <1>2, <1>3, <1>4, <1>v DEF ExecInv

\* Entering the semaphore either submits the job or queues for a permit.
LEMMA EnterEffect ==
  ASSUME TypeOK, NEW c \in Calls, NEW r \in Requests, EnterSemaphore(c, r)
  PROVE  /\ permits' \in SUBSET Calls /\ permitQueue' \in Seq(Calls)
         /\ \/ Submit(c)
            \/ jobs' = jobs /\ pc' = [pc EXCEPT ![c] = "waitPermit"]
<1>1. permits \in SUBSET Calls /\ permitQueue \in Seq(Calls)
  BY DEF TypeOK
<1>2. CASE UNCHANGED permitVars /\ Submit(c)
  BY <1>1, <1>2 DEF permitVars
<1>3. CASE permits' = permits \cup {c} /\ Submit(c) /\ UNCHANGED permitQueue
  BY <1>1, <1>3
<1>4. CASE /\ permitQueue' = Append(permitQueue, c)
           /\ pc' = [pc EXCEPT ![c] = "waitPermit"]
           /\ UNCHANGED <<permits, jobs>>
  <2>1. permitQueue' \in Seq(Calls)
    BY <1>1, <1>4, AppendProperties
  <2>2. QED
    BY <2>1, <1>1, <1>4
<1>5. QED
  BY <1>2, <1>3, <1>4 DEF EnterSemaphore

\* A call that is neither queued nor running joins the executor's queue, or
\* waits elsewhere.
LEMMA SubmitPreserves ==
  ASSUME ExecInv, NEW c \in Calls, pc[c] \in {"idle", "waitLock", "waitPermit"},
         \/ Submit(c)
         \/ jobs' = jobs /\ \E p \in {"waitLock", "waitPermit"} : pc' = [pc EXCEPT ![c] = p],
         \A d \in Calls : d # c => req'[d] = req[d],
         UNCHANGED threadVars
  PROVE  /\ JobsInv' /\ RunningInv'
         /\ pc' \in [Calls -> {"idle", "waitLock", "waitPermit", "inThread", "resuming"}]
         /\ jobs' \in Seq(Calls)
         /\ pc'[c] # "idle" /\ \A d \in Calls : d # c => pc'[d] = pc[d]
<1>0. /\ pc \in [Calls -> {"idle", "waitLock", "waitPermit", "inThread", "resuming"}]
      /\ jobs \in Seq(Calls)
      /\ running \in [Workers -> Calls \cup {Nobody, Orphan}]
      /\ JobsInv /\ RunningInv
  BY DEF ExecInv, TypeOK
<1>1. \A d \in Calls : d # c => pc'[d] = pc[d]
  BY <1>0 DEF Submit
<1>2. /\ pc'[c] \in {"waitLock", "waitPermit", "inThread"}
      /\ pc' \in [Calls -> {"idle", "waitLock", "waitPermit", "inThread", "resuming"}]
  BY <1>0 DEF Submit
<1>3. \A i \in 1..Len(jobs) : jobs[i] \in Calls /\ jobs[i] # c
  BY <1>0, ElementOfSeq DEF JobsInv
<1>4. \A w \in Workers : running[w] # c
  BY <1>0 DEF RunningInv
<1>5. jobs' \in Seq(Calls)
  <2>1. Append(jobs, c) \in Seq(Calls)
    BY <1>0, AppendProperties
  <2>2. QED
    BY <2>1, <1>0 DEF Submit
<1>6. RunningInv'
  BY <1>0, <1>1, <1>4 DEF RunningInv, threadVars
<1>7. JobsInv'
  <2>1. CASE Submit(c)
    <3>1. /\ Len(jobs) \in Nat
          /\ Len(jobs') = Len(jobs) + 1
          /\ \A i \in 1..Len(jobs) : jobs'[i] = jobs[i]
          /\ jobs'[Len(jobs) + 1] = c
      BY <1>0, <2>1, AppendProperties, LenProperties DEF Submit
    <3>2. \A i \in 1..Len(jobs') : i \in 1..Len(jobs) \/ i = Len(jobs) + 1
      BY <3>1
    <3>3. \A i \in 1..Len(jobs') : pc'[jobs'[i]] = "inThread"
      BY <1>0, <3>1, <3>2, <1>1, <1>3, <2>1 DEF JobsInv, Submit
    <3>4. \A i, j \in 1..Len(jobs') : i # j => jobs'[i] # jobs'[j]
      BY <1>0, <3>1, <3>2, <1>3 DEF JobsInv
    <3>5. \A i \in 1..Len(jobs'), w \in Workers : running'[w] # jobs'[i]
      BY <1>0, <3>1, <3>2, <1>4 DEF JobsInv, threadVars
    <3>6. QED
      BY <3>3, <3>4, <3>5 DEF JobsInv
  <2>2. CASE jobs' = jobs
    BY <1>0, <2>2, <1>1, <1>3 DEF JobsInv, threadVars
  <2>3. QED
    BY <2>1, <2>2
<1>8. QED
  BY <1>1, <1>2, <1>5, <1>6, <1>7

\* A cancelled call leaves nothing behind in the executor that bears its name.
LEMMA AbandonEffect ==
  ASSUME ExecInv, NEW c \in Calls, AbandonJob(c)
  PROVE  /\ jobs' \in Seq(Calls)
         /\ running' \in [Workers -> Calls \cup {Nobody, Orphan}]
         /\ \A i \in 1..Len(jobs') :
               jobs'[i] # c /\ \E j \in 1..Len(jobs) : jobs'[i] = jobs[j]
         /\ \A i, j \in 1..Len(jobs') : i # j => jobs'[i] # jobs'[j]
         /\ \A w \in Workers :
               /\ running'[w] # c
               /\ running'[w] = running[w] \/ (running'[w] = Orphan /\ running[w] = c)
<1>0. /\ jobs \in Seq(Calls)
      /\ running \in [Workers -> Calls \cup {Nobody, Orphan}]
      /\ JobsInv /\ RunningInv
      /\ Orphan # c
  BY ServerAssumption DEF ExecInv, TypeOK
<1>1. CASE pc[c] # "inThread" /\ UNCHANGED <<jobs, running>>
  BY <1>0, <1>1 DEF JobsInv, RunningInv
<1>2. ASSUME NEW i \in 1..Len(jobs), jobs[i] = c, jobs' = RemoveAt(jobs, i),
             UNCHANGED running
      PROVE  /\ jobs' \in Seq(Calls)
             /\ \A k \in 1..Len(jobs') :
                   jobs'[k] # c /\ \E j \in 1..Len(jobs) : jobs'[k] = jobs[j]
             /\ \A k, j \in 1..Len(jobs') : k # j => jobs'[k] # jobs'[j]
             /\ \A w \in Workers : running'[w] # c
  <2> DEFINE old(k) == IF k < i THEN k ELSE k + 1
  <2>1. /\ jobs' \in Seq(Calls)
        /\ \A k \in 1..Len(jobs') :
              old(k) \in 1..Len(jobs) /\ old(k) # i /\ jobs'[k] = jobs[old(k)]
    <3>1. /\ jobs' \in Seq(Calls) /\ Len(jobs') = Len(jobs) - 1 /\ Len(jobs) \in Nat
          /\ \A k \in 1..(Len(jobs) - 1) :
                jobs'[k] = IF k < i THEN jobs[k] ELSE jobs[k + 1]
      BY <1>0, <1>2, RemoveAtProperties, LenProperties
    <3>2. QED
      BY <3>1
  <2>2. \A k, j \in 1..Len(jobs') : k # j => old(k) # old(j)
    BY <2>1, LenProperties
  <2> HIDE DEF old
  <2>3. \A k \in 1..Len(jobs') :
           jobs'[k] # c /\ \E j \in 1..Len(jobs) : jobs'[k] = jobs[j]
    BY <1>0, <1>2, <2>1 DEF JobsInv
  <2>4. \A k, j \in 1..Len(jobs') : k # j => jobs'[k] # jobs'[j]
    BY <1>0, <2>1, <2>2 DEF JobsInv
  <2>5. \A w \in Workers : running'[w] # c
    BY <1>0, <1>2 DEF JobsInv
  <2>6. QED
    BY <2>1, <2>3, <2>4, <2>5
<1>3. ASSUME NEW w \in Workers, running[w] = c,
             running' = [running EXCEPT ![w] = Orphan], UNCHANGED jobs
      PROVE  /\ running' \in [Workers -> Calls \cup {Nobody, Orphan}]
             /\ \A i \in 1..Len(jobs) : jobs[i] # c
             /\ \A v \in Workers :
                   /\ running'[v] # c
                   /\ running'[v] = running[v] \/ (running'[v] = Orphan /\ running[v] = c)
  BY <1>0, <1>3 DEF JobsInv, RunningInv
<1>4. QED
  BY <1>0, <1>1, <1>2, <1>3 DEF AbandonJob, JobsInv

\* Leaving the "async with" blocks keeps queues and holders well-typed.
LEMMA LeaveEffect ==
  ASSUME TypeOK, NEW c \in Calls, req[c] \in Requests, LeaveSemaphore(c), LeaveLock(c)
  PROVE  /\ permits' \in SUBSET Calls /\ permitQueue' \in Seq(Calls)
         /\ lockOwner' \in [Locks -> Calls \cup {Nobody}]
         /\ lockQueue' \in [Locks -> Seq(Calls)]
<1>0. /\ lockOwner \in [Locks -> Calls \cup {Nobody}]
      /\ lockQueue \in [Locks -> Seq(Calls)]
      /\ permits \in SUBSET Calls
      /\ permitQueue \in Seq(Calls)
  BY DEF TypeOK
<1>1. permits' \in SUBSET Calls /\ permitQueue' \in Seq(Calls)
  <2>1. CASE UNCHANGED permitVars
    BY <2>1, <1>0 DEF permitVars
  <2>2. CASE permits' = permits \ {c} /\ UNCHANGED permitQueue
    BY <2>2, <1>0
  <2>3. CASE /\ permitQueue # <<>>
             /\ permits' = (permits \ {c}) \cup {Head(permitQueue)}
             /\ permitQueue' = Tail(permitQueue)
    BY <2>3, <1>0, ServeHead
  <2>4. CASE UNCHANGED permits /\ \E i \in 1..Len(permitQueue) :
                                     permitQueue' = RemoveAt(permitQueue, i)
    BY <2>4, <1>0, RemoveAtProperties
  <2>5. QED
    BY <2>1, <2>2, <2>3, <2>4 DEF LeaveSemaphore
<1>2. /\ lockOwner' \in [Locks -> Calls \cup {Nobody}]
      /\ lockQueue' \in [Locks -> Seq(Calls)]
  <2> DEFINE l == LockOf(req[c])
  <2>1. CASE UNCHANGED lockVars
    BY <2>1, <1>0 DEF lockVars
  <2>2. ASSUME UsesLock(req[c])
        PROVE  l \in Locks /\ lockQueue[l] \in Seq(Calls)
    BY <2>2, <1>0, RequestFacts
  <2> HIDE DEF l
  <2>3. CASE lockOwner' = [lockOwner EXCEPT ![l] = Nobody] /\ UNCHANGED lockQueue
    BY <2>3, <1>0
  <2>4. CASE /\ UsesLock(req[c]) /\ lockQueue[l] # <<>>
             /\ lockOwner' = [lockOwner EXCEPT ![l] = Head(lockQueue[l])]
             /\ lockQueue' = [lockQueue EXCEPT ![l] = Tail(@)]
    <3>1. Head(lockQueue[l]) \in Calls /\ Tail(lockQueue[l]) \in Seq(Calls)
      BY <2>2, <2>4, ServeHead
    <3>2. QED
      BY <3>1, <2>4, <1>0
  <2>5. CASE /\ UsesLock(req[c]) /\ UNCHANGED lockOwner
             /\ \E i \in 1..Len(lockQueue[l]) :
                   lockQueue' = [lockQueue EXCEPT ![l] = RemoveAt(@, i)]
    <3>1. \A i \in 1..Len(lockQueue[l]) : RemoveAt(lockQueue[l], i) \in Seq(Calls)
      BY <2>2, <2>5, RemoveAtProperties
    <3>2. QED
      BY <3>1, <2>5, <1>0
  <2>6. QED
    BY <2>1, <2>3, <2>4, <2>5 DEF LeaveLock, l
<1>3. QED
  BY <1>1, <1>2

-----------------------------------------------------------------------------
(* ExecInv is inductive: one lemma per group of actions.                   *)

LEMMA CallPreserves ==
  ASSUME ExecInv, NEW c \in Calls, NEW r \in Offered, Call(c, r)
  PROVE  ExecInv'
<1>0. TypeOK /\ RequestInv /\ r \in Requests /\ pc[c] = "idle"
  BY ServerAssumption DEF ExecInv, Call, CallLimited, CallTakesLock, CallWaitsForLock
<1>1. /\ req' = [req EXCEPT ![c] = r] /\ UNCHANGED threadVars
      /\ req' \in [Calls -> Requests \cup {NoRequest}]
      /\ \A d \in Calls : d # c => req'[d] = req[d]
      /\ req'[c] = r
  <2>1. req' = [req EXCEPT ![c] = r] /\ UNCHANGED threadVars
    BY DEF Call, CallLimited, CallTakesLock, CallWaitsForLock
  <2>2. req \in [Calls -> Requests \cup {NoRequest}]
    BY <1>0 DEF TypeOK
  <2>3. QED
    BY <1>0, <2>1, <2>2
<1>2. /\ permits' \in SUBSET Calls /\ permitQueue' \in Seq(Calls)
      /\ \/ Submit(c)
         \/ jobs' = jobs /\ \E p \in {"waitLock", "waitPermit"} : pc' = [pc EXCEPT ![c] = p]
  <2>1. CASE EnterSemaphore(c, r)
    BY <2>1, <1>0, EnterEffect
  <2>2. CASE CallWaitsForLock(c, r)
    BY <2>2, <1>0 DEF CallWaitsForLock, permitVars, TypeOK
  <2>3. QED
    BY <2>1, <2>2 DEF Call, CallLimited, CallTakesLock
<1>3. /\ lockOwner' \in [Locks -> Calls \cup {Nobody}]
      /\ lockQueue' \in [Locks -> Seq(Calls)]
  <2>0. /\ lockOwner \in [Locks -> Calls \cup {Nobody}]
        /\ lockQueue \in [Locks -> Seq(Calls)]
    BY <1>0 DEF TypeOK
  <2>1. CASE CallLimited(c, r)
    BY <2>0, <2>1 DEF CallLimited, lockVars
  <2>2. CASE CallTakesLock(c, r)
    BY <2>0, <2>2 DEF CallTakesLock
  <2>3. CASE CallWaitsForLock(c, r)
    <3>1. LockOf(r) \in Locks
      BY <2>3, <1>0, RequestFacts DEF CallWaitsForLock
    <3>2. Append(lockQueue[LockOf(r)], c) \in Seq(Calls)
      BY <3>1, <2>0, AppendProperties
    <3>3. QED
      BY <3>2, <2>0, <2>3 DEF CallWaitsForLock
  <2>4. QED
    BY <2>1, <2>2, <2>3 DEF Call
<1>4. /\ JobsInv' /\ RunningInv'
      /\ pc' \in [Calls -> {"idle", "waitLock", "waitPermit", "inThread", "resuming"}]
      /\ jobs' \in Seq(Calls)
      /\ pc'[c] # "idle" /\ \A d \in Calls : d # c => pc'[d] = pc[d]
  BY <1>0, <1>1, <1>2, SubmitPreserves
<1>5. TypeOK'
  BY <1>0, <1>1, <1>2, <1>3, <1>4 DEF TypeOK, threadVars
<1>6. RequestInv'
  BY <1>0, <1>1, <1>4 DEF RequestInv
<1>v. VisitInv'
  BY <1>1 DEF ExecInv, VisitInv, Serving, threadVars
<1>7. QED
  BY <1>4, <1>5, <1>6, <1>v DEF ExecInv

LEMMA GrantPreserves ==
  ASSUME ExecInv, NEW c \in Calls, LockGranted(c) \/ PermitGranted(c)
  PROVE  ExecInv'
<1>0. /\ TypeOK /\ RequestInv /\ pc[c] \in {"waitLock", "waitPermit"}
      /\ req[c] \in Requests
      /\ UNCHANGED <<req, lockVars, threadVars>>
  BY DEF ExecInv, LockGranted, PermitGranted, RequestInv
<1>2. /\ permits' \in SUBSET Calls /\ permitQueue' \in Seq(Calls)
      /\ \/ Submit(c)
         \/ jobs' = jobs /\ \E p \in {"waitLock", "waitPermit"} : pc' = [pc EXCEPT ![c] = p]
  <2>1. CASE EnterSemaphore(c, req[c])
    BY <2>1, <1>0, EnterEffect
  <2>2. CASE PermitGranted(c)
    BY <2>2, <1>0 DEF PermitGranted, permitVars, TypeOK
  <2>3. QED
    BY <2>1, <2>2 DEF LockGranted
<1>4. /\ JobsInv' /\ RunningInv'
      /\ pc' \in [Calls -> {"idle", "waitLock", "waitPermit", "inThread", "resuming"}]
      /\ jobs' \in Seq(Calls)
      /\ pc'[c] # "idle" /\ \A d \in Calls : d # c => pc'[d] = pc[d]
  <2>1. (\A d \in Calls : d # c => req'[d] = req[d]) /\ UNCHANGED threadVars
    BY <1>0
  <2>2. QED
    BY <1>0, <1>2, <2>1, SubmitPreserves
<1>5. TypeOK'
  BY <1>0, <1>2, <1>4 DEF TypeOK, lockVars, threadVars
<1>6. RequestInv'
  BY <1>0, <1>4 DEF RequestInv
<1>v. VisitInv'
  BY <1>0 DEF ExecInv, VisitInv, Serving, threadVars
<1>7. QED
  BY <1>4, <1>5, <1>6, <1>v DEF ExecInv

LEMMA ReturnPreserves ==
  ASSUME ExecInv, NEW c \in Calls, Return(c)
  PROVE  ExecInv'
<1>0. /\ TypeOK /\ RequestInv /\ JobsInv /\ RunningInv
      /\ pc[c] = "resuming" /\ req[c] \in Requests
      /\ pc' = [pc EXCEPT ![c] = "idle"]
      /\ req' = [req EXCEPT ![c] = NoRequest]
      /\ UNCHANGED <<jobs, threadVars>>
      /\ LeaveSemaphore(c) /\ LeaveLock(c)
  BY DEF ExecInv, Return, RequestInv
<1>1. /\ pc \in [Calls -> {"idle", "waitLock", "waitPermit", "inThread", "resuming"}]
      /\ jobs \in Seq(Calls)
      /\ running \in [Workers -> Calls \cup {Nobody, Orphan}]
      /\ req \in [Calls -> Requests \cup {NoRequest}]
  BY <1>0 DEF TypeOK
<1>2. /\ \A d \in Calls : d # c => pc'[d] = pc[d] /\ req'[d] = req[d]
      /\ pc'[c] = "idle"
  BY <1>0, <1>1
<1>3. TypeOK'
  BY <1>0, <1>1, LeaveEffect DEF TypeOK, threadVars
<1>4. RequestInv'
  BY <1>0, <1>2 DEF RequestInv
<1>5. JobsInv'
  <2>1. \A i \in 1..Len(jobs) : jobs[i] \in Calls
    BY <1>1, ElementOfSeq
  <2>2. QED
    BY <1>0, <1>2, <2>1 DEF JobsInv, threadVars
<1>6. RunningInv'
  BY <1>0, <1>2 DEF RunningInv, threadVars
<1>v. VisitInv'
  BY <1>0 DEF ExecInv, VisitInv, Serving, threadVars
<1>7. QED
  BY <1>3, <1>4, <1>5, <1>6, <1>v DEF ExecInv

LEMMA CancelPreserves ==
  ASSUME ExecInv, NEW c \in Calls, Cancel(c)
  PROVE  ExecInv'
<1>0. /\ TypeOK /\ RequestInv /\ JobsInv /\ RunningInv
      /\ pc[c] # "idle" /\ req[c] \in Requests
      /\ pc' = [pc EXCEPT ![c] = "idle"]
      /\ req' = [req EXCEPT ![c] = NoRequest]
      /\ UNCHANGED <<job, todo, session>>
      /\ LeaveSemaphore(c) /\ LeaveLock(c) /\ AbandonJob(c)
  BY DEF ExecInv, Cancel, RequestInv
<1>1. /\ pc \in [Calls -> {"idle", "waitLock", "waitPermit", "inThread", "resuming"}]
      /\ jobs \in Seq(Calls)
      /\ running \in [Workers -> Calls \cup {Nobody, Orphan}]
      /\ req \in [Calls -> Requests \cup {NoRequest}]
  BY <1>0 DEF TypeOK
<1>2. /\ \A d \in Calls : d # c => pc'[d] = pc[d] /\ req'[d] = req[d]
      /\ pc'[c] = "idle"
  BY <1>0, <1>1
<1>a. /\ jobs' \in Seq(Calls)
      /\ running' \in [Workers -> Calls \cup {Nobody, Orphan}]
      /\ \A i \in 1..Len(jobs') :
            jobs'[i] # c /\ \E j \in 1..Len(jobs) : jobs'[i] = jobs[j]
      /\ \A i, j \in 1..Len(jobs') : i # j => jobs'[i] # jobs'[j]
      /\ \A w \in Workers :
            /\ running'[w] # c
            /\ running'[w] = running[w] \/ (running'[w] = Orphan /\ running[w] = c)
  BY <1>0, AbandonEffect
<1>3. TypeOK'
  BY <1>0, <1>1, <1>a, LeaveEffect DEF TypeOK
<1>4. RequestInv'
  BY <1>0, <1>2 DEF RequestInv
<1>5. JobsInv'
  <2>1. \A i \in 1..Len(jobs') : jobs'[i] \in Calls
    BY <1>a, ElementOfSeq
  <2>2. \A i \in 1..Len(jobs') : pc'[jobs'[i]] = "inThread"
    BY <1>0, <1>2, <1>a, <2>1 DEF JobsInv
  <2>3. \A i \in 1..Len(jobs'), w \in Workers : running'[w] # jobs'[i]
    <3>1. SUFFICES ASSUME NEW i \in 1..Len(jobs'), NEW w \in Workers
                   PROVE  running'[w] # jobs'[i]
      OBVIOUS
    <3>2. PICK j \in 1..Len(jobs) : jobs'[i] = jobs[j]
      BY <1>a
    <3>3. running[w] # jobs[j]
      BY <1>0 DEF JobsInv
    <3>4. running'[w] = running[w] \/ running'[w] = Orphan
      BY <1>a
    <3>5. jobs'[i] # Orphan
      BY <2>1, ServerAssumption
    <3>6. QED
      BY <3>2, <3>3, <3>4, <3>5
  <2>4. QED
    BY <1>a, <2>2, <2>3 DEF JobsInv
<1>6. RunningInv'
  <2>0. Nobody \notin Calls /\ Orphan \notin Calls
    BY ServerAssumption
  <2>1. ASSUME NEW w \in Workers, running'[w] \in Calls
        PROVE  /\ running'[w] = running[w] /\ running[w] # c
               /\ pc'[running'[w]] = "inThread" /\ job'[w] = req'[running'[w]]
    BY <2>0, <2>1, <1>0, <1>2, <1>a DEF RunningInv
  <2>2. \A v, w \in Workers :
           v # w /\ running'[v] \in Calls => running'[v] # running'[w]
    BY <2>0, <2>1, <1>0, <1>a DEF RunningInv
  <2>3. \A w \in Workers : running'[w] # Nobody => job'[w] \in Requests
    BY <2>0, <1>0, <1>a DEF RunningInv
  <2>4. QED
    BY <2>1, <2>2, <2>3 DEF RunningInv
<1>v. VisitInv'
  <2>1. \A w \in Workers : running'[w] = Nobody <=> running[w] = Nobody
    BY <1>a, ServerAssumption
  <2>2. QED
    BY <2>1, <1>0 DEF ExecInv, VisitInv, Serving
<1>7. QED
  BY <1>3, <1>4, <1>5, <1>6, <1>v DEF ExecInv

LEMMA BeginPreserves ==
  ASSUME ExecInv, NEW w \in Workers, Begin(w)
  PROVE  ExecInv'
<1> DEFINE h == Head(jobs)
<1>0. /\ TypeOK /\ RequestInv /\ JobsInv /\ RunningInv
      /\ running[w] = Nobody /\ jobs # <<>>
      /\ running' = [running EXCEPT ![w] = h]
      /\ job' = [job EXCEPT ![w] = req[h]]
      /\ todo' = [todo EXCEPT ![w] = Itinerary(req[h])]
      /\ jobs' = Tail(jobs)
      /\ UNCHANGED <<loopVars, lockVars, permitVars, session>>
  BY DEF ExecInv, Begin
<1>1. /\ jobs \in Seq(Calls)
      /\ running \in [Workers -> Calls \cup {Nobody, Orphan}]
      /\ job \in [Workers -> Requests \cup {NoRequest}]
      /\ todo \in [Workers -> Seq(Devices)]
  BY <1>0 DEF TypeOK
<1>2. /\ h \in Calls /\ h = jobs[1] /\ 1 \in 1..Len(jobs)
      /\ jobs' \in Seq(Calls)
      /\ \A j \in 1..Len(jobs') : /\ jobs'[j] = jobs[j + 1]
                                  /\ j + 1 \in 1..Len(jobs)
                                  /\ j + 1 # 1
  BY <1>0, <1>1, ServeHead
<1> HIDE DEF h
<1>3. /\ pc[h] = "inThread" /\ req[h] \in Requests
      /\ \A v \in Workers : running[v] # h
  BY <1>0, <1>2 DEF JobsInv, RequestInv
<1>4. Itinerary(req[h]) \in Seq(Devices)
  BY <1>3, RequestFacts
<1>5. TypeOK'
  BY <1>0, <1>1, <1>2, <1>3, <1>4 DEF TypeOK, loopVars, lockVars, permitVars
<1>6. RequestInv'
  BY <1>0 DEF RequestInv, loopVars
<1>7. JobsInv'
  <2>1. \A i \in 1..Len(jobs') : pc'[jobs'[i]] = "inThread" /\ jobs'[i] # h
    BY <1>0, <1>2 DEF JobsInv, loopVars
  <2>2. \A i, j \in 1..Len(jobs') : i # j => jobs'[i] # jobs'[j]
    <3>1. \A i, j \in 1..Len(jobs') : i # j => i + 1 # j + 1
      OBVIOUS
    <3>2. QED
      BY <3>1, <1>0, <1>2 DEF JobsInv
  <2>3. \A i \in 1..Len(jobs'), v \in Workers : running'[v] # jobs'[i]
    BY <2>1, <1>0, <1>1, <1>2 DEF JobsInv
  <2>4. QED
    BY <2>1, <2>2, <2>3 DEF JobsInv
<1>8. RunningInv'
  <2>1. /\ running'[w] = h /\ job'[w] = req[h]
        /\ \A v \in Workers : v # w => running'[v] = running[v] /\ job'[v] = job[v]
    BY <1>0, <1>1
  <2>2. QED
    BY <2>1, <1>0, <1>3 DEF RunningInv, loopVars
<1>v. VisitInv'
  <2>1. /\ running'[w] = h /\ job'[w] = req[h] /\ todo'[w] = Itinerary(req[h])
        /\ session'[w] = NoDevice /\ h # Nobody
        /\ \A v \in Workers : v # w => /\ running'[v] = running[v] /\ job'[v] = job[v]
                                      /\ todo'[v] = todo[v] /\ session'[v] = session[v]
    BY <1>0, <1>1, <1>2, ServerAssumption DEF ExecInv, VisitInv
  <2>2. /\ req[h].tool \in SingleTools => Itinerary(req[h]) = <<req[h].target>>
        /\ req[h].tool \in BatfishTools => Itinerary(req[h]) = <<>>
    BY <1>3, RequestFacts
  <2>3. QED
    BY <2>1, <2>2 DEF ExecInv, VisitInv, Serving
<1>9. QED
  BY <1>5, <1>6, <1>7, <1>8, <1>v DEF ExecInv

LEMMA ThreadStepPreserves ==
  ASSUME ExecInv, NEW w \in Workers, ThreadStep(w)
  PROVE  ExecInv'
<1>0. TypeOK /\ RequestInv /\ JobsInv /\ RunningInv /\ VisitInv
  BY DEF ExecInv
<1>1. CASE Connect(w) \/ ConnectFails(w) \/ Disconnect(w)
  <2>1. UNCHANGED <<loopVars, lockVars, permitVars, jobs, running, job>>
    BY <1>1 DEF Connect, ConnectFails, Disconnect
  <2>2. RequestInv' /\ JobsInv' /\ RunningInv'
    BY <2>1, <1>0 DEF RequestInv, JobsInv, RunningInv, loopVars
  <2>3. /\ todo' \in [Workers -> Seq(Devices)]
        /\ session' \in [Workers -> Devices \cup {NoDevice}]
    <3>0. /\ todo \in [Workers -> Seq(Devices)]
          /\ session \in [Workers -> Devices \cup {NoDevice}]
      BY <1>0 DEF TypeOK
    <3>1. CASE Connect(w)
      <4>1. Head(todo[w]) \in Devices
        BY <3>0, <3>1, ServeHead DEF Connect
      <4>2. QED
        BY <4>1, <3>0, <3>1 DEF Connect
    <3>2. CASE ConnectFails(w)
      <4>1. Tail(todo[w]) \in Seq(Devices)
        BY <3>0, <3>2, ServeHead DEF ConnectFails
      <4>2. QED
        BY <4>1, <3>0, <3>2 DEF ConnectFails
    <3>3. CASE Disconnect(w)
      <4>1. Tail(todo[w]) \in Seq(Devices)
        BY <3>0, <3>3, <1>0, ServeHead DEF Disconnect, VisitInv
      <4>2. QED
        BY <4>1, <3>0, <3>3 DEF Disconnect
    <3>4. QED
      BY <1>1, <3>1, <3>2, <3>3
  <2>4. TypeOK'
    BY <2>1, <2>3, <1>0 DEF TypeOK, loopVars, lockVars, permitVars
  <2>v. VisitInv'
    <3>0. /\ todo \in [Workers -> Seq(Devices)]
          /\ session \in [Workers -> Devices \cup {NoDevice}]
          /\ \A v \in Workers : v # w => /\ todo'[v] = todo[v]
                                        /\ session'[v] = session[v]
      BY <1>0, <1>1 DEF TypeOK, Connect, ConnectFails, Disconnect
    <3>1. /\ running[w] # Nobody /\ todo[w] # <<>>
          /\ todo'[w] = todo[w] \/ (todo'[w] = Tail(todo[w]) /\ session'[w] = NoDevice)
          /\ session'[w] # NoDevice => session'[w] = Head(todo'[w]) /\ todo'[w] = todo[w]
      BY <3>0, <1>0, <1>1 DEF Connect, ConnectFails, Disconnect, VisitInv
    <3>2. \A x : Tail(<<x>>) = <<>>
      OBVIOUS
    <3>3. QED
      BY <3>0, <3>1, <3>2, <2>1, <1>0 DEF VisitInv, Serving
  <2>5. QED
    BY <2>2, <2>4, <2>v DEF ExecInv
<1>2. CASE Finish(w)
  <2>0. /\ running[w] # Nobody
        /\ running' = [running EXCEPT ![w] = Nobody]
        /\ job' = [job EXCEPT ![w] = NoRequest]
        /\ todo' = [todo EXCEPT ![w] = <<>>]
        /\ pc' = [c \in Calls |-> IF c = running[w] THEN "resuming" ELSE pc[c]]
        /\ UNCHANGED <<req, lockVars, permitVars, jobs, session>>
    BY <1>2 DEF Finish
  <2>1. /\ pc \in [Calls -> {"idle", "waitLock", "waitPermit", "inThread", "resuming"}]
        /\ jobs \in Seq(Calls)
        /\ running \in [Workers -> Calls \cup {Nobody, Orphan}]
        /\ job \in [Workers -> Requests \cup {NoRequest}]
        /\ todo \in [Workers -> Seq(Devices)]
    BY <1>0 DEF TypeOK
  <2>2. /\ running'[w] = Nobody
        /\ \A v \in Workers : v # w => running'[v] = running[v] /\ job'[v] = job[v]
        /\ \A c \in Calls : c # running[w] => pc'[c] = pc[c]
    BY <2>0, <2>1
  <2>3. TypeOK'
    BY <2>0, <2>1, <1>0, EmptySeq DEF TypeOK, lockVars, permitVars
  <2>4. RequestInv'
    BY <2>0, <2>2, <1>0 DEF RequestInv, RunningInv
  <2>5. JobsInv'
    <3>1. \A i \in 1..Len(jobs) : jobs[i] \in Calls /\ pc'[jobs[i]] = "inThread"
      BY <2>1, <2>2, <1>0, ElementOfSeq DEF JobsInv
    <3>2. \A i \in 1..Len(jobs), v \in Workers : running'[v] # jobs[i]
      BY <3>1, <2>2, <1>0, ServerAssumption DEF JobsInv
    <3>3. QED
      BY <3>1, <3>2, <2>0, <1>0 DEF JobsInv
  <2>6. RunningInv'
    BY <2>0, <2>2, <1>0, ServerAssumption DEF RunningInv
  <2>v. VisitInv'
    <3>1. /\ running'[w] = Nobody /\ todo'[w] = <<>> /\ session'[w] = NoDevice
          /\ \A v \in Workers : v # w => todo'[v] = todo[v] /\ session'[v] = session[v]
      BY <2>0, <2>1, <1>2 DEF Finish
    <3>2. QED
      BY <3>1, <2>2, <1>0 DEF VisitInv, Serving
  <2>7. QED
    BY <2>3, <2>4, <2>5, <2>6, <2>v DEF ExecInv
<1>3. QED
  BY <1>1, <1>2 DEF ThreadStep

LEMMA ExecNext == ExecInv /\ [Next]_vars => ExecInv'
<1> SUFFICES ASSUME ExecInv, [Next]_vars PROVE ExecInv'
  OBVIOUS
<1>1. ASSUME NEW c \in Calls, NEW r \in Offered, Call(c, r) PROVE ExecInv'
  BY <1>1, CallPreserves
<1>2. ASSUME NEW c \in Calls, LoopStep(c) \/ Cancel(c) PROVE ExecInv'
  BY <1>2, GrantPreserves, ReturnPreserves, CancelPreserves DEF LoopStep
<1>3. ASSUME NEW w \in Workers, Begin(w) \/ ThreadStep(w) PROVE ExecInv'
  BY <1>3, BeginPreserves, ThreadStepPreserves
<1>4. CASE UNCHANGED vars
  BY <1>4 DEF ExecInv, TypeOK, RequestInv, JobsInv, RunningInv, VisitInv, Serving,
              vars, loopVars, lockVars, permitVars, threadVars
<1>5. QED
  BY <1>1, <1>2, <1>3, <1>4 DEF Next

LEMMA ExecInvariant == Spec => []ExecInv
  BY ExecInit, ExecNext, PTL DEF Spec

\* Every variable keeps its type, whatever clients ask for or cancel.
THEOREM TypeCorrect == Spec => []TypeOK
<1>1. ExecInv => TypeOK
  BY DEF ExecInv
<1>2. QED
  BY <1>1, ExecInvariant, PTL
=============================================================================
