----------------------- MODULE McpServerLocks_proofs -----------------------
(***************************************************************************)
(* What the locks and the semaphore of the MCP server guarantee, for every *)
(* number of calls, devices, threads and permits.  HoldInv is the reason   *)
(* all of it is true: whoever is past a lock still owns it, whoever is     *)
(* past the semaphore still has a permit, and no more permits are out than *)
(* there are.  It holds with calls cancelled or not; a cancelled call cuts *)
(* the link from its thread to itself, and that thread is nobody's.        *)
(* QueueInv adds who waits, and that nobody waits for what is free.        *)
(***************************************************************************)
EXTENDS McpServer_proofs

OwnsLock ==
  \A c \in Calls :
    pc[c] \in {"waitPermit", "inThread", "resuming"} /\ UsesLock(req[c])
      => lockOwner[LockOf(req[c])] = c

HasPermit ==
  \A c \in Calls :
    pc[c] \in {"inThread", "resuming"} /\ UsesPermit(req[c]) => c \in permits

PermitBound == IsFiniteSet(permits) /\ Cardinality(permits) <= MaxConcurrent

HoldInv == OwnsLock /\ HasPermit /\ PermitBound

LEMMA HoldInit == Init => HoldInv
<1> SUFFICES ASSUME Init PROVE HoldInv
  OBVIOUS
<1>1. OwnsLock /\ HasPermit
  BY DEF Init, OwnsLock, HasPermit
<1>2. PermitBound
  BY FS_EmptySet, ServerAssumption DEF Init, PermitBound
<1>3. QED
  BY <1>1, <1>2 DEF HoldInv

\* Handing a permit on, or taking a free one, stays within the bound.
LEMMA EnterBound ==
  ASSUME TypeOK, PermitBound, NEW c \in Calls, NEW r \in Requests, EnterSemaphore(c, r)
  PROVE  /\ PermitBound' /\ permits \subseteq permits'
         /\ pc'[c] = "inThread" /\ UsesPermit(r) => c \in permits'
<1>1. CASE UNCHANGED permits /\ ~UsesPermit(r)
  BY <1>1 DEF PermitBound
<1>2. CASE PermitFree /\ permits' = permits \cup {c}
  <2>1. /\ Cardinality(permits) < MaxConcurrent
        /\ Cardinality(permits) \in Nat /\ MaxConcurrent \in Nat
    BY <1>2, FS_CardinalityType, ServerAssumption DEF PermitFree, PermitBound
  <2>2. /\ IsFiniteSet(permits \cup {c})
        /\ Cardinality(permits \cup {c}) <= Cardinality(permits) + 1
        /\ Cardinality(permits \cup {c}) \in Nat
    <3>1. IsFiniteSet(permits)
      BY DEF PermitBound
    <3>2. /\ IsFiniteSet(permits \cup {c})
          /\ Cardinality(permits \cup {c}) =
                IF c \in permits THEN Cardinality(permits) ELSE Cardinality(permits) + 1
      BY <3>1, FS_AddElement
    <3>3. QED
      BY <3>2, <2>1
  <2>3. QED
    BY <1>2, <2>1, <2>2 DEF PermitBound
<1>3. CASE UNCHANGED permits /\ pc' = [pc EXCEPT ![c] = "waitPermit"]
  <2>1. pc'[c] # "inThread"
    BY <1>3 DEF TypeOK
  <2>2. QED
    BY <1>3, <2>1 DEF PermitBound
<1>4. QED
  BY <1>1, <1>2, <1>3 DEF EnterSemaphore, permitVars

LEMMA LeaveBound ==
  ASSUME PermitBound, NEW c \in Calls, LeaveSemaphore(c)
  PROVE  PermitBound' /\ permits \ {c} \subseteq permits'
<1>1. CASE UNCHANGED permits
  BY <1>1 DEF PermitBound
<1>2. CASE c \in permits /\ permits' = permits \ {c}
  <2>1. /\ Cardinality(permits) \in Nat /\ MaxConcurrent \in Nat
        /\ Cardinality(permits) <= MaxConcurrent
    BY FS_CardinalityType, ServerAssumption DEF PermitBound
  <2>2. /\ IsFiniteSet(permits \ {c})
        /\ Cardinality(permits \ {c}) = Cardinality(permits) - 1
    BY <1>2, FS_RemoveElement DEF PermitBound
  <2>3. QED
    BY <1>2, <2>1, <2>2 DEF PermitBound
<1>3. ASSUME NEW h, c \in permits, permits' = (permits \ {c}) \cup {h}
      PROVE  PermitBound' /\ permits \ {c} \subseteq permits'
  <2>1. /\ IsFiniteSet(permits \ {c})
        /\ Cardinality(permits \ {c}) = Cardinality(permits) - 1
        /\ Cardinality(permits) \in Nat
    BY <1>3, FS_RemoveElement, FS_CardinalityType DEF PermitBound
  <2> DEFINE rest == permits \ {c}
  <2>2. Cardinality(rest) \in Nat
    BY <2>1, FS_CardinalityType
  <2>3. /\ IsFiniteSet(rest \cup {h})
        /\ Cardinality(rest \cup {h}) =
              IF h \in rest THEN Cardinality(rest) ELSE Cardinality(rest) + 1
    BY <2>1, FS_AddElement
  <2>4. /\ Cardinality(rest \cup {h}) <= Cardinality(permits)
        /\ permits \ {c} \subseteq rest \cup {h}
    BY <2>1, <2>2, <2>3
  <2>5. /\ Cardinality(permits) <= MaxConcurrent /\ MaxConcurrent \in Nat
        /\ Cardinality(rest \cup {h}) \in Nat
    BY <2>3, FS_CardinalityType, ServerAssumption DEF PermitBound
  <2>6. permits' = rest \cup {h}
    BY <1>3
  <2> HIDE DEF rest
  <2>7. QED
    BY <2>1, <2>3, <2>4, <2>5, <2>6 DEF PermitBound
<1>4. QED
  BY <1>1, <1>2, <1>3 DEF LeaveSemaphore, permitVars

LEMMA CallHolds ==
  ASSUME ExecInv, HoldInv, NEW c \in Calls, NEW r \in Offered, Call(c, r)
  PROVE  HoldInv'
<1>0. /\ TypeOK /\ r \in Requests
      /\ req' = [req EXCEPT ![c] = r]
      /\ pc \in [Calls -> {"idle", "waitLock", "waitPermit", "inThread", "resuming"}]
      /\ req \in [Calls -> Requests \cup {NoRequest}]
      /\ lockOwner \in [Locks -> Calls \cup {Nobody}]
  BY ServerAssumption DEF ExecInv, TypeOK, Call, CallLimited, CallTakesLock, CallWaitsForLock
<1>1. CASE EnterSemaphore(c, r) /\ (CallLimited(c, r) \/ CallTakesLock(c, r))
  <2>1. /\ req'[c] = r /\ pc'[c] \in {"waitPermit", "inThread"}
        /\ \A d \in Calls : d # c => req'[d] = req[d] /\ pc'[d] = pc[d]
    BY <1>0, <1>1 DEF EnterSemaphore, Submit
  <2>2. PermitBound' /\ permits \subseteq permits'
        /\ (pc'[c] = "inThread" /\ UsesPermit(r) => c \in permits')
    BY <1>0, <1>1, EnterBound DEF HoldInv
  <2>3. HasPermit'
    BY <2>1, <2>2 DEF HoldInv, HasPermit
  <2>4. OwnsLock'
    <3>1. CASE CallLimited(c, r)
      BY <3>1, <2>1 DEF HoldInv, OwnsLock, CallLimited, lockVars
    <3>2. CASE CallTakesLock(c, r)
      <4>1. /\ LockOf(r) \in Locks /\ lockOwner[LockOf(r)] = Nobody
            /\ lockOwner' = [lockOwner EXCEPT ![LockOf(r)] = c]
        BY <3>2, <1>0, RequestFacts DEF CallTakesLock, LockFree
      <4>2. QED
        BY <4>1, <2>1, <1>0, ServerAssumption DEF HoldInv, OwnsLock
    <3>3. QED
      BY <1>1, <3>1, <3>2
  <2>5. QED
    BY <2>2, <2>3, <2>4 DEF HoldInv
<1>2. CASE CallWaitsForLock(c, r)
  <2>1. /\ req'[c] = r /\ pc'[c] = "waitLock"
        /\ \A d \in Calls : d # c => req'[d] = req[d] /\ pc'[d] = pc[d]
        /\ UNCHANGED <<lockOwner, permits>>
    BY <1>0, <1>2 DEF CallWaitsForLock, permitVars
  <2>2. QED
    BY <2>1 DEF HoldInv, OwnsLock, HasPermit, PermitBound
<1>3. QED
  BY <1>1, <1>2 DEF Call, CallLimited, CallTakesLock

LEMMA GrantHolds ==
  ASSUME ExecInv, HoldInv, NEW c \in Calls, LockGranted(c) \/ PermitGranted(c)
  PROVE  HoldInv'
<1>0. /\ TypeOK /\ req[c] \in Requests
      /\ pc \in [Calls -> {"idle", "waitLock", "waitPermit", "inThread", "resuming"}]
      /\ UNCHANGED <<req, lockOwner>>
  BY DEF ExecInv, TypeOK, RequestInv, LockGranted, PermitGranted, lockVars
<1>1. /\ pc'[c] \in {"waitPermit", "inThread"}
      /\ \A d \in Calls : d # c => pc'[d] = pc[d]
  BY <1>0 DEF LockGranted, PermitGranted, EnterSemaphore, Submit
<1>2. /\ PermitBound' /\ permits \subseteq permits'
      /\ pc'[c] = "inThread" /\ UsesPermit(req[c]) => c \in permits'
  <2>1. CASE LockGranted(c)
    BY <2>1, <1>0, EnterBound DEF LockGranted, HoldInv
  <2>2. CASE PermitGranted(c)
    BY <2>2 DEF PermitGranted, HoldInv, PermitBound, permitVars
  <2>3. QED
    BY <2>1, <2>2
<1>3. UsesLock(req[c]) => lockOwner[LockOf(req[c])] = c
  BY DEF LockGranted, PermitGranted, HoldInv, OwnsLock
<1>4. QED
  BY <1>0, <1>1, <1>2, <1>3 DEF HoldInv, OwnsLock, HasPermit

LEMMA LeaveHolds ==
  ASSUME ExecInv, HoldInv, NEW c \in Calls, Return(c) \/ Cancel(c)
  PROVE  HoldInv'
<1>0. /\ TypeOK /\ req[c] \in Requests
      /\ pc' = [pc EXCEPT ![c] = "idle"]
      /\ req' = [req EXCEPT ![c] = NoRequest]
      /\ LeaveSemaphore(c) /\ LeaveLock(c)
      /\ pc \in [Calls -> {"idle", "waitLock", "waitPermit", "inThread", "resuming"}]
      /\ req \in [Calls -> Requests \cup {NoRequest}]
      /\ lockOwner \in [Locks -> Calls \cup {Nobody}]
  BY DEF ExecInv, TypeOK, RequestInv, Return, Cancel
<1>1. /\ pc'[c] = "idle"
      /\ \A d \in Calls : d # c => pc'[d] = pc[d] /\ req'[d] = req[d]
  BY <1>0
<1>2. PermitBound' /\ permits \ {c} \subseteq permits'
  BY <1>0, LeaveBound DEF HoldInv
<1>3. \A l \in Locks : lockOwner[l] # c => lockOwner'[l] = lockOwner[l]
  BY <1>0 DEF LeaveLock, lockVars
<1>4. HasPermit'
  BY <1>1, <1>2 DEF HoldInv, HasPermit
<1>5. OwnsLock'
  <2>1. ASSUME NEW d \in Calls, d # c, UsesLock(req[d]),
               pc[d] \in {"waitPermit", "inThread", "resuming"}
        PROVE  lockOwner'[LockOf(req[d])] = d
    <3>1. req[d] \in Requests /\ lockOwner[LockOf(req[d])] = d
      BY <2>1 DEF ExecInv, RequestInv, HoldInv, OwnsLock
    <3>2. LockOf(req[d]) \in Locks
      BY <2>1, <3>1, RequestFacts
    <3>3. QED
      BY <2>1, <3>1, <3>2, <1>3
  <2>2. QED
    BY <2>1, <1>1 DEF OwnsLock
<1>6. QED
  BY <1>2, <1>4, <1>5 DEF HoldInv

LEMMA ThreadHolds ==
  ASSUME ExecInv, HoldInv, NEW w \in Workers, Begin(w) \/ ThreadStep(w)
  PROVE  HoldInv'
<1>1. CASE Begin(w) \/ Connect(w) \/ ConnectFails(w) \/ Disconnect(w)
  BY <1>1 DEF Begin, Connect, ConnectFails, Disconnect, HoldInv, OwnsLock, HasPermit,
              PermitBound, loopVars, lockVars, permitVars
<1>2. CASE Finish(w)
  <2>1. /\ UNCHANGED <<req, lockOwner, permits>>
        /\ \A d \in Calls : pc'[d] = pc[d] \/ (pc[d] = "inThread" /\ pc'[d] = "resuming")
    BY <1>2 DEF Finish, ExecInv, RunningInv, lockVars, permitVars
  <2>2. QED
    BY <2>1 DEF HoldInv, OwnsLock, HasPermit, PermitBound
<1>3. QED
  BY <1>1, <1>2 DEF ThreadStep

LEMMA HoldNext == ExecInv /\ HoldInv /\ [Next]_vars => HoldInv'
<1> SUFFICES ASSUME ExecInv, HoldInv, [Next]_vars PROVE HoldInv'
  OBVIOUS
<1>1. ASSUME NEW c \in Calls, NEW r \in Offered, Call(c, r) PROVE HoldInv'
  BY <1>1, CallHolds
<1>2. ASSUME NEW c \in Calls, LoopStep(c) \/ Cancel(c) PROVE HoldInv'
  BY <1>2, GrantHolds, LeaveHolds DEF LoopStep
<1>3. ASSUME NEW w \in Workers, Begin(w) \/ ThreadStep(w) PROVE HoldInv'
  BY <1>3, ThreadHolds
<1>4. CASE UNCHANGED vars
  BY <1>4 DEF HoldInv, OwnsLock, HasPermit, PermitBound,
              vars, loopVars, lockVars, permitVars
<1>5. QED
  BY <1>1, <1>2, <1>3, <1>4 DEF Next

LEMMA HoldInvariant == Spec => [](ExecInv /\ HoldInv)
  BY ExecInit, ExecNext, HoldInit, HoldNext, PTL DEF Spec

-----------------------------------------------------------------------------
(* From threads to the calls that await them.                              *)

\* A thread that is awaited serves a call past lock and semaphore.
LEMMA ThreadServes ==
  ASSUME ExecInv, NEW w \in Workers, Awaited(w)
  PROVE  /\ running[w] \in Calls /\ pc[running[w]] = "inThread"
         /\ job[w] = req[running[w]] /\ job[w] \in Requests
  BY ServerAssumption DEF ExecInv, TypeOK, RunningInv, Awaited

\* If it has an SSH session its tool needs a permit; if the tool is a
\* single-device tool the session is to the tool's device.
LEMMA SessionServes ==
  ASSUME ExecInv, NEW w \in Workers, Awaited(w), session[w] # NoDevice
  PROVE  /\ running[w] # Nobody
         /\ UsesPermit(job[w])
         /\ Serving(w, SingleTools) => session[w] = job[w].target
<1>1. /\ running[w] # Nobody /\ todo[w] # <<>> /\ session[w] = Head(todo[w])
      /\ Serving(w, SingleTools) => todo[w] = <<job[w].target>>
      /\ ~Serving(w, BatfishTools)
  BY DEF ExecInv, VisitInv
<1>2. UsesPermit(job[w])
  BY <1>1, ThreadServes, RequestFacts DEF Serving
<1>3. QED
  BY <1>1, <1>2

\* _run_with_device_lock keeps its promise: two single-device tools
\* whose calls are in flight never have sessions to the same device at once.
THEOREM DeviceLocksExclude == Spec => []LockedSessionsExclusive
<1>1. ExecInv /\ HoldInv => LockedSessionsExclusive
  <2> SUFFICES ASSUME ExecInv, HoldInv, NEW v \in Workers, NEW w \in Workers,
                      v # w, Awaited(v), Awaited(w),
                      Serving(v, SingleTools), Serving(w, SingleTools),
                      session[v] # NoDevice, session[v] = session[w]
               PROVE  FALSE
    BY DEF LockedSessionsExclusive
  <2>1. /\ running[v] \in Calls /\ running[w] \in Calls
        /\ pc[running[v]] = "inThread" /\ pc[running[w]] = "inThread"
        /\ job[v] = req[running[v]] /\ job[w] = req[running[w]]
        /\ job[v] \in Requests /\ job[w] \in Requests
    BY ThreadServes DEF Serving
  <2>2. job[v].target = job[w].target
    BY SessionServes
  <2>3. /\ UsesLock(job[v]) /\ UsesLock(job[w])
        /\ LockOf(job[v]) = LockOf(job[w])
    BY <2>1, <2>2, RequestFacts DEF Serving
  <2>4. running[v] = running[w]
    BY <2>1, <2>3 DEF HoldInv, OwnsLock
  <2>5. QED
    BY <2>1, <2>4 DEF ExecInv, RunningInv
<1>2. QED
  BY <1>1, HoldInvariant, PTL

\* _run_with_batfish_lock keeps its promise: one awaited thread at a
\* time works on the snapshot directory.
THEOREM BatfishLockExcludes == Spec => []BatfishSerialised
<1>1. ExecInv /\ HoldInv => BatfishSerialised
  <2> SUFFICES ASSUME ExecInv, HoldInv, NEW v \in Workers, NEW w \in Workers,
                      v # w, Awaited(v), Awaited(w),
                      Serving(v, BatfishTools), Serving(w, BatfishTools)
               PROVE  FALSE
    BY DEF BatfishSerialised
  <2>1. /\ running[v] \in Calls /\ running[w] \in Calls
        /\ pc[running[v]] = "inThread" /\ pc[running[w]] = "inThread"
        /\ job[v] = req[running[v]] /\ job[w] = req[running[w]]
        /\ job[v] \in Requests /\ job[w] \in Requests
    BY ThreadServes DEF Serving
  <2>2. /\ UsesLock(job[v]) /\ UsesLock(job[w])
        /\ LockOf(job[v]) = LockOf(job[w])
    BY <2>1, RequestFacts DEF Serving
  <2>3. running[v] = running[w]
    BY <2>1, <2>2 DEF HoldInv, OwnsLock
  <2>4. QED
    BY <2>1, <2>3 DEF ExecInv, RunningInv
<1>2. QED
  BY <1>1, HoldInvariant, PTL

\* The semaphore caps the SSH sessions of all calls in flight: each awaited
\* thread with a session stands for its own permit.
THEOREM SemaphoreCaps == Spec => []SessionsCapped
<1>1. ExecInv /\ HoldInv => SessionsCapped
  <2> SUFFICES ASSUME ExecInv, HoldInv PROVE SessionsCapped
    OBVIOUS
  <2> DEFINE S == {w \in Workers : session[w] # NoDevice /\ Awaited(w)}
             f == [w \in S |-> running[w]]
  <2>1. ASSUME NEW w \in S
        PROVE  running[w] \in Calls /\ running[w] \in permits
    <3>1. running[w] # Nobody /\ UsesPermit(job[w])
      BY SessionServes
    <3>2. running[w] \in Calls /\ pc[running[w]] = "inThread" /\ job[w] = req[running[w]]
      BY <3>1, ThreadServes
    <3>3. QED
      BY <3>1, <3>2 DEF HoldInv, HasPermit
  <2>2. \A v, w \in S : v # w => running[v] # running[w]
    BY <2>1 DEF ExecInv, RunningInv
  <2>3. f \in Injection(S, permits)
    BY <2>1, <2>2 DEF Injection, IsInjective
  <2>4. /\ IsFiniteSet(permits) /\ Cardinality(permits) <= MaxConcurrent
        /\ MaxConcurrent \in Nat
    BY ServerAssumption DEF HoldInv, PermitBound
  <2> HIDE DEF S, f
  <2>5. IsFiniteSet(S) /\ Cardinality(S) <= Cardinality(permits)
    BY <2>3, <2>4, FS_Injection
  <2>6. Cardinality(S) \in Nat /\ Cardinality(permits) \in Nat
    BY <2>4, <2>5, FS_CardinalityType
  <2>7. Cardinality(S) <= MaxConcurrent
    BY <2>4, <2>5, <2>6
  <2>8. QED
    BY <2>7 DEF S, SessionsCapped
<1>2. QED
  BY <1>1, HoldInvariant, PTL

-----------------------------------------------------------------------------
(***************************************************************************)
(* The queues.  A lock and a permit go from hand to hand without ever      *)
(* being forgotten because a queue holds only calls that really wait, each *)
(* once, and never the holder: the waiter a release hands over to is there *)
(* to use it.                                                              *)
(***************************************************************************)
Queued(s) == {s[i] : i \in 1..Len(s)}
OnceEach(s) == \A i, j \in 1..Len(s) : i # j => s[i] # s[j]

Wants(c, l) == pc[c] # "idle" /\ UsesLock(req[c]) /\ LockOf(req[c]) = l

LockQueueInv ==
  \A l \in Locks :
    /\ lockOwner[l] # Nobody => Wants(lockOwner[l], l)
    /\ lockOwner[l] = Nobody => lockQueue[l] = <<>>
    /\ OnceEach(lockQueue[l])
    /\ \A c \in Queued(lockQueue[l]) :
          pc[c] = "waitLock" /\ Wants(c, l) /\ lockOwner[l] # c

PermitQueueInv ==
  /\ \A c \in permits :
        pc[c] \in {"waitPermit", "inThread", "resuming"} /\ UsesPermit(req[c])
  /\ Cardinality(permits) < MaxConcurrent => permitQueue = <<>>
  /\ OnceEach(permitQueue)
  /\ \A c \in Queued(permitQueue) :
        pc[c] = "waitPermit" /\ UsesPermit(req[c]) /\ c \notin permits

QueueInv == LockQueueInv /\ PermitQueueInv

LEMMA EmptyQueue == Queued(<<>>) = {} /\ OnceEach(<<>>)
  BY DEF Queued, OnceEach

LEMMA JoinQueue ==
  ASSUME NEW S, NEW s \in Seq(S), NEW c \in S, c \notin Queued(s), OnceEach(s)
  PROVE  /\ Queued(Append(s, c)) = Queued(s) \cup {c}
         /\ OnceEach(Append(s, c))
<1>1. /\ Len(Append(s, c)) = Len(s) + 1 /\ Len(s) \in Nat
      /\ \A i \in 1..Len(s) : Append(s, c)[i] = s[i]
      /\ Append(s, c)[Len(s) + 1] = c
  BY AppendProperties
<1>2. \A i \in 1..(Len(s) + 1) : i = Len(s) + 1 \/ i \in 1..Len(s)
  BY <1>1
<1>3. \A i \in 1..Len(s) : s[i] # c /\ i \in 1..(Len(s) + 1)
  BY <1>1 DEF Queued
<1>4. Len(s) + 1 \in 1..(Len(s) + 1)
  BY <1>1
<1>5. Queued(Append(s, c)) = Queued(s) \cup {c}
  BY <1>1, <1>2, <1>3, <1>4 DEF Queued
<1>6. OnceEach(Append(s, c))
  BY <1>1, <1>2, <1>3 DEF OnceEach
<1>7. QED
  BY <1>5, <1>6

LEMMA QuitQueue ==
  ASSUME NEW S, NEW s \in Seq(S), NEW i \in 1..Len(s), OnceEach(s)
  PROVE  /\ Queued(RemoveAt(s, i)) \subseteq Queued(s) \ {s[i]}
         /\ OnceEach(RemoveAt(s, i))
<1> DEFINE t == RemoveAt(s, i)
           k(j) == IF j < i THEN j ELSE j + 1
<1>1. /\ Len(t) = Len(s) - 1 /\ Len(s) \in Nat
      /\ \A j \in 1..(Len(s) - 1) : t[j] = IF j < i THEN s[j] ELSE s[j + 1]
  BY RemoveAtProperties, LenProperties
<1>2. \A j \in 1..(Len(s) - 1) : k(j) \in 1..Len(s) /\ k(j) # i /\ t[j] = s[k(j)]
  BY <1>1
<1>3. \A j, m \in 1..(Len(s) - 1) : j # m => k(j) # k(m)
  BY <1>1
<1> HIDE DEF t, k
<1>4. Queued(t) \subseteq Queued(s) \ {s[i]}
  BY <1>1, <1>2 DEF Queued, OnceEach
<1>5. OnceEach(t)
  BY <1>1, <1>2, <1>3 DEF OnceEach
<1>6. QED
  BY <1>4, <1>5 DEF t

LEMMA ServeQueue ==
  ASSUME NEW S, NEW s \in Seq(S), s # <<>>, OnceEach(s)
  PROVE  /\ Head(s) \in Queued(s)
         /\ Queued(Tail(s)) \subseteq Queued(s) \ {Head(s)}
         /\ OnceEach(Tail(s))
<1>1. /\ Head(s) = s[1] /\ 1 \in 1..Len(s)
      /\ Len(Tail(s)) = Len(s) - 1 /\ Len(s) \in Nat
      /\ \A j \in 1..Len(Tail(s)) : /\ Tail(s)[j] = s[j + 1]
                                    /\ j + 1 \in 1..Len(s)
                                    /\ j + 1 # 1
  BY ServeHead, LenProperties
<1>2. Head(s) \in Queued(s)
  BY <1>1 DEF Queued
<1>3. Queued(Tail(s)) \subseteq Queued(s) \ {Head(s)}
  BY <1>1 DEF Queued, OnceEach
<1>4. \A i, j \in 1..Len(Tail(s)) : i # j => i + 1 # j + 1
  BY <1>1
<1>5. OnceEach(Tail(s))
  BY <1>1, <1>4 DEF OnceEach
<1>6. QED
  BY <1>2, <1>3, <1>5

LEMMA QueueInit == Init => QueueInv
<1> SUFFICES ASSUME Init PROVE QueueInv
  OBVIOUS
<1>1. LockQueueInv
  BY EmptyQueue DEF Init, LockQueueInv
<1>2. PermitQueueInv
  BY EmptyQueue DEF Init, PermitQueueInv
<1>3. QED
  BY <1>1, <1>2 DEF QueueInv

\* Only the call that steps changes what it wants; pc and req of the
\* others stay.
OthersStay(c) == \A d \in Calls : d # c => pc'[d] = pc[d] /\ req'[d] = req[d]

\* A call with no permit, and in no queue for one, enters the semaphore.
LEMMA EnterKeepsPermits ==
  ASSUME TypeOK, HoldInv, PermitQueueInv, NEW c \in Calls, NEW r \in Requests,
         c \notin permits, c \notin Queued(permitQueue),
         EnterSemaphore(c, r), OthersStay(c), req'[c] = r
  PROVE  PermitQueueInv'
<1>0. /\ permits \in SUBSET Calls /\ permitQueue \in Seq(Calls)
      /\ Queued(permitQueue) \subseteq Calls
      /\ pc \in [Calls -> {"idle", "waitLock", "waitPermit", "inThread", "resuming"}]
  BY ElementOfSeq DEF TypeOK, Queued
<1>1. CASE UNCHANGED permitVars
  <2>1. permits' = permits /\ permitQueue' = permitQueue
    BY <1>1 DEF permitVars
  <2>2. \A d \in permits : d # c /\ pc'[d] = pc[d] /\ req'[d] = req[d]
    BY <1>0 DEF OthersStay
  <2>3. \A d \in Queued(permitQueue) : d # c /\ pc'[d] = pc[d] /\ req'[d] = req[d]
    BY <1>0 DEF OthersStay
  <2>4. QED
    BY <2>1, <2>2, <2>3 DEF PermitQueueInv
<1>2. CASE /\ UsesPermit(r) /\ PermitFree /\ permits' = permits \cup {c}
           /\ Submit(c) /\ UNCHANGED permitQueue
  <2>1. permitQueue' = <<>> /\ pc'[c] = "inThread"
    BY <1>0, <1>2 DEF PermitFree, Submit
  <2>2. \A d \in permits : d # c /\ pc'[d] = pc[d] /\ req'[d] = req[d]
    BY <1>0 DEF OthersStay
  <2>3. \A d \in permits' :
          pc'[d] \in {"waitPermit", "inThread", "resuming"} /\ UsesPermit(req'[d])
    BY <1>2, <2>1, <2>2 DEF PermitQueueInv
  <2>4. QED
    BY <2>1, <2>3, EmptyQueue DEF PermitQueueInv
<1>3. CASE /\ UsesPermit(r) /\ ~PermitFree
           /\ permitQueue' = Append(permitQueue, c)
           /\ pc' = [pc EXCEPT ![c] = "waitPermit"] /\ UNCHANGED permits
  <2>1. /\ Queued(permitQueue') = Queued(permitQueue) \cup {c}
        /\ OnceEach(permitQueue')
    BY <1>0, <1>3, JoinQueue DEF PermitQueueInv
  <2>2. pc'[c] = "waitPermit"
    BY <1>0, <1>3
  <2>3. \A d \in permits : d # c /\ pc'[d] = pc[d] /\ req'[d] = req[d]
    BY <1>0 DEF OthersStay
  <2>4. \A d \in Queued(permitQueue) : d # c /\ pc'[d] = pc[d] /\ req'[d] = req[d]
    BY <1>0 DEF OthersStay
  <2>5. ~(Cardinality(permits) < MaxConcurrent)
    BY <1>3 DEF PermitFree, PermitQueueInv
  <2>6. \A d \in permits :
          pc'[d] \in {"waitPermit", "inThread", "resuming"} /\ UsesPermit(req'[d])
    BY <2>3 DEF PermitQueueInv
  <2>7. \A d \in Queued(permitQueue) \cup {c} :
          pc'[d] = "waitPermit" /\ UsesPermit(req'[d]) /\ d \notin permits
    BY <1>3, <2>2, <2>4 DEF PermitQueueInv
  <2>8. QED
    BY <1>3, <2>1, <2>5, <2>6, <2>7 DEF PermitQueueInv
<1>4. QED
  BY <1>1, <1>2, <1>3 DEF EnterSemaphore

\* Whoever leaves the semaphore is gone from it, and hands a permit it held
\* to the first waiter, if there is one.
LEMMA LeaveKeepsPermits ==
  ASSUME TypeOK, HoldInv, PermitQueueInv, NEW c \in Calls,
         LeaveSemaphore(c), OthersStay(c)
  PROVE  PermitQueueInv'
<1>0. /\ permits \in SUBSET Calls /\ permitQueue \in Seq(Calls)
      /\ Queued(permitQueue) \subseteq Calls
  BY ElementOfSeq DEF TypeOK, Queued
<1>1. SUFFICES /\ permits' \subseteq Calls /\ c \notin permits'
               /\ Queued(permitQueue') \subseteq Queued(permitQueue) \ {c}
               /\ permits' \subseteq permits \cup Queued(permitQueue)
               /\ permits' \cap Queued(permitQueue') = {}
               /\ OnceEach(permitQueue')
               /\ Cardinality(permits') < MaxConcurrent => permitQueue' = <<>>
  <2> SUFFICES ASSUME permits' \subseteq Calls, c \notin permits',
                      Queued(permitQueue') \subseteq Queued(permitQueue) \ {c},
                      permits' \subseteq permits \cup Queued(permitQueue),
                      permits' \cap Queued(permitQueue') = {},
                      OnceEach(permitQueue'),
                      Cardinality(permits') < MaxConcurrent => permitQueue' = <<>>
               PROVE  PermitQueueInv'
    OBVIOUS
  <2>1. \A d \in permits' :
          /\ d # c /\ pc'[d] = pc[d] /\ req'[d] = req[d]
          /\ pc[d] \in {"waitPermit", "inThread", "resuming"} /\ UsesPermit(req[d])
    BY DEF OthersStay, PermitQueueInv
  <2>2. \A d \in Queued(permitQueue') :
          /\ d # c /\ pc'[d] = pc[d] /\ req'[d] = req[d]
          /\ pc[d] = "waitPermit" /\ UsesPermit(req[d]) /\ d \notin permits'
    BY <1>0 DEF OthersStay, PermitQueueInv
  <2>3. QED
    BY <2>1, <2>2 DEF PermitQueueInv
<1>2. CASE c \notin permits /\ (\A i \in 1..Len(permitQueue) : permitQueue[i] # c)
           /\ UNCHANGED permitVars
  BY <1>0, <1>2 DEF permitVars, Queued, PermitQueueInv
<1>3. CASE c \in permits /\ permitQueue = <<>> /\ permits' = permits \ {c}
           /\ UNCHANGED permitQueue
  BY <1>0, <1>3, EmptyQueue
<1>4. CASE /\ c \in permits /\ permitQueue # <<>>
           /\ permits' = (permits \ {c}) \cup {Head(permitQueue)}
           /\ permitQueue' = Tail(permitQueue)
  <2> DEFINE h == Head(permitQueue)
             rest == permits \ {c}
  <2>1. /\ h \in Queued(permitQueue)
        /\ Queued(permitQueue') \subseteq Queued(permitQueue) \ {h}
        /\ OnceEach(permitQueue')
    BY <1>0, <1>4, ServeQueue DEF PermitQueueInv
  <2>2. h \notin permits /\ h # c /\ c \notin Queued(permitQueue)
    BY <1>4, <2>1 DEF PermitQueueInv
  <2>3. \A d \in Queued(permitQueue) : d \notin permits
    BY DEF PermitQueueInv
  <2>4. Cardinality(permits') = Cardinality(permits)
    <3>1. /\ IsFiniteSet(rest)
          /\ Cardinality(rest) = Cardinality(permits) - 1
          /\ Cardinality(permits) \in Nat
      BY <1>4, FS_RemoveElement, FS_CardinalityType DEF HoldInv, PermitBound
    <3>2. h \notin rest /\ permits' = rest \cup {h}
      BY <2>2, <1>4
    <3> HIDE DEF rest, h
    <3>3. Cardinality(rest \cup {h}) = Cardinality(rest) + 1
      BY <3>1, <3>2, FS_AddElement
    <3>4. QED
      BY <3>1, <3>2, <3>3
  <2>5. ~(Cardinality(permits) < MaxConcurrent)
    BY <1>4 DEF PermitQueueInv
  <2> HIDE DEF h
  <2>6. permits' = (permits \ {c}) \cup {h}
    BY <1>4 DEF h
  <2>7. QED
    BY <1>0, <2>1, <2>2, <2>3, <2>4, <2>5, <2>6
<1>5. CASE /\ \E i \in 1..Len(permitQueue) :
                 /\ permitQueue[i] = c
                 /\ permitQueue' = RemoveAt(permitQueue, i)
           /\ UNCHANGED permits
  <2>1. PICK i \in 1..Len(permitQueue) :
                 /\ permitQueue[i] = c
                 /\ permitQueue' = RemoveAt(permitQueue, i)
    BY <1>5
  <2>2. /\ Queued(permitQueue') \subseteq Queued(permitQueue) \ {c}
        /\ OnceEach(permitQueue')
    BY <1>0, <2>1, QuitQueue DEF PermitQueueInv
  <2>3. c \in Queued(permitQueue)
    BY <2>1 DEF Queued
  <2>4. c \notin permits
    BY <2>3 DEF PermitQueueInv
  <2>5. permitQueue # <<>>
    BY <2>3, EmptyQueue
  <2>6. /\ ~(Cardinality(permits) < MaxConcurrent)
        /\ permits \cap Queued(permitQueue') = {}
    BY <2>2, <2>5 DEF PermitQueueInv
  <2>7. QED
    BY <1>0, <1>5, <2>2, <2>4, <2>6
<1>6. QED
  BY <1>2, <1>3, <1>4, <1>5 DEF LeaveSemaphore

WantsNext(c, l) == pc'[c] # "idle" /\ UsesLock(req'[c]) /\ LockOf(req'[c]) = l

\* A call that keeps its place at the locks, or that was at no lock, leaves
\* the locks as they are for everybody else.
LEMMA LocksUntouched ==
  ASSUME TypeOK, LockQueueInv, NEW c \in Calls, UNCHANGED lockVars, OthersStay(c),
         \A l \in Locks : /\ c \notin Queued(lockQueue[l])
                          /\ lockOwner[l] = c => WantsNext(c, l)
  PROVE  LockQueueInv'
<1>0. /\ lockOwner \in [Locks -> Calls \cup {Nobody}]
      /\ lockQueue \in [Locks -> Seq(Calls)]
      /\ lockOwner' = lockOwner /\ lockQueue' = lockQueue
  BY DEF TypeOK, lockVars
<1>1. SUFFICES ASSUME NEW l \in Locks
               PROVE  /\ lockOwner[l] # Nobody => WantsNext(lockOwner[l], l)
                      /\ \A d \in Queued(lockQueue[l]) :
                            pc'[d] = "waitLock" /\ WantsNext(d, l) /\ lockOwner[l] # d
  BY <1>0 DEF LockQueueInv, Wants, WantsNext
<1>2. Queued(lockQueue[l]) \subseteq Calls
  BY <1>0, ElementOfSeq DEF Queued
<1>3. ASSUME NEW d \in Queued(lockQueue[l])
      PROVE  pc'[d] = "waitLock" /\ WantsNext(d, l) /\ lockOwner[l] # d
  <2>1. pc'[d] = pc[d] /\ req'[d] = req[d]
    BY <1>2 DEF OthersStay
  <2>2. QED
    BY <2>1 DEF LockQueueInv, Wants, WantsNext
<1>4. ASSUME lockOwner[l] # Nobody PROVE WantsNext(lockOwner[l], l)
  <2>1. CASE lockOwner[l] = c
    BY <2>1
  <2>2. CASE lockOwner[l] # c
    <3>1. lockOwner[l] \in Calls /\ Wants(lockOwner[l], l)
      BY <1>0, <1>4 DEF LockQueueInv
    <3>2. pc'[lockOwner[l]] = pc[lockOwner[l]] /\ req'[lockOwner[l]] = req[lockOwner[l]]
      BY <2>2, <3>1 DEF OthersStay
    <3>3. QED
      BY <1>0, <3>1, <3>2 DEF Wants, WantsNext
  <2>3. QED
    BY <2>1, <2>2
<1>5. QED
  BY <1>3, <1>4

\* One lock changes hands or queue; all others are as they were.
LEMMA OneLockChanges ==
  ASSUME TypeOK, LockQueueInv, NEW c \in Calls, NEW m \in Locks, OthersStay(c),
         NEW o \in Calls \cup {Nobody}, NEW q \in Seq(Calls),
         \A l \in Locks \ {m} : lockOwner'[l] = lockOwner[l] /\ lockQueue'[l] = lockQueue[l],
         lockOwner'[m] = o, lockQueue'[m] = q,
         \A l \in Locks \ {m} : c # lockOwner[l] /\ c \notin Queued(lockQueue[l]),
         o # Nobody => WantsNext(o, m), o = Nobody => q = <<>>, OnceEach(q),
         \A d \in Queued(q) : pc'[d] = "waitLock" /\ WantsNext(d, m) /\ o # d
  PROVE  LockQueueInv'
<1>0. /\ lockOwner \in [Locks -> Calls \cup {Nobody}]
      /\ lockQueue \in [Locks -> Seq(Calls)]
  BY DEF TypeOK
<1>1. ASSUME NEW l \in Locks, l # m
      PROVE  /\ lockOwner'[l] = lockOwner[l] /\ lockQueue'[l] = lockQueue[l]
             /\ lockOwner[l] # Nobody => WantsNext(lockOwner[l], l)
             /\ \A d \in Queued(lockQueue[l]) :
                   pc'[d] = "waitLock" /\ WantsNext(d, l) /\ lockOwner[l] # d
  <2>0. l \in Locks \ {m}
    BY <1>1
  <2>1. Queued(lockQueue[l]) \subseteq Calls
    BY <1>0, ElementOfSeq DEF Queued
  <2>2. ASSUME NEW d \in Queued(lockQueue[l])
        PROVE  pc'[d] = "waitLock" /\ WantsNext(d, l) /\ lockOwner[l] # d
    <3>1. pc'[d] = pc[d] /\ req'[d] = req[d]
      BY <2>0, <2>1 DEF OthersStay
    <3>2. QED
      BY <3>1 DEF LockQueueInv, Wants, WantsNext
  <2>3. ASSUME lockOwner[l] # Nobody PROVE WantsNext(lockOwner[l], l)
    <3>1. lockOwner[l] \in Calls /\ Wants(lockOwner[l], l) /\ lockOwner[l] # c
      BY <1>0, <2>0, <2>3 DEF LockQueueInv
    <3>2. pc'[lockOwner[l]] = pc[lockOwner[l]] /\ req'[lockOwner[l]] = req[lockOwner[l]]
      BY <3>1 DEF OthersStay
    <3>3. lockOwner'[l] = lockOwner[l]
      BY <2>0
    <3>4. QED
      BY <3>1, <3>2, <3>3 DEF Wants, WantsNext
  <2>4. QED
    BY <2>0, <2>2, <2>3
<1>2. ASSUME NEW l \in Locks
      PROVE  /\ lockOwner'[l] # Nobody => WantsNext(lockOwner'[l], l)
             /\ lockOwner'[l] = Nobody => lockQueue'[l] = <<>>
             /\ OnceEach(lockQueue'[l])
             /\ \A d \in Queued(lockQueue'[l]) :
                   pc'[d] = "waitLock" /\ WantsNext(d, l) /\ lockOwner'[l] # d
  <2>1. CASE l = m
    BY <2>1
  <2>2. CASE l # m
    <3>1. /\ lockOwner'[l] = lockOwner[l] /\ lockQueue'[l] = lockQueue[l]
          /\ lockOwner[l] # Nobody => WantsNext(lockOwner[l], l)
          /\ \A d \in Queued(lockQueue[l]) :
                   pc'[d] = "waitLock" /\ WantsNext(d, l) /\ lockOwner[l] # d
      BY <1>1, <2>2
    <3>2. lockOwner[l] = Nobody => lockQueue[l] = <<>>
      BY DEF LockQueueInv
    <3>3. OnceEach(lockQueue[l])
      BY DEF LockQueueInv
    <3>4. QED
      BY <3>1, <3>2, <3>3
  <2>3. QED
    BY <2>1, <2>2
<1>3. QED
  BY <1>2 DEF LockQueueInv, Wants, WantsNext

\* Where a call is not: an idle one is nowhere, and a call that does not
\* wait for a lock is in no lock's queue.
LEMMA Elsewhere ==
  ASSUME TypeOK, QueueInv, NEW c \in Calls
  PROVE  /\ pc[c] = "idle" => /\ c \notin permits /\ c \notin Queued(permitQueue)
                              /\ \A l \in Locks : lockOwner[l] # c
         /\ pc[c] # "waitLock" => \A l \in Locks : c \notin Queued(lockQueue[l])
         /\ pc[c] = "waitLock" => c \notin permits /\ c \notin Queued(permitQueue)
         /\ \A l \in Locks : ~(UsesLock(req[c]) /\ LockOf(req[c]) = l)
                => lockOwner[l] # c /\ c \notin Queued(lockQueue[l])
<1>1. c # Nobody
  BY ServerAssumption
<1>2. QED
  BY <1>1 DEF QueueInv, LockQueueInv, PermitQueueInv, Wants

LEMMA CallKeepsQueues ==
  ASSUME ExecInv, HoldInv, QueueInv, NEW c \in Calls, NEW r \in Offered, Call(c, r)
  PROVE  QueueInv'
<1>0. /\ TypeOK /\ r \in Requests /\ pc[c] = "idle" /\ c # Nobody
      /\ req' = [req EXCEPT ![c] = r]
      /\ pc \in [Calls -> {"idle", "waitLock", "waitPermit", "inThread", "resuming"}]
      /\ req \in [Calls -> Requests \cup {NoRequest}]
      /\ lockOwner \in [Locks -> Calls \cup {Nobody}]
      /\ lockQueue \in [Locks -> Seq(Calls)]
  BY ServerAssumption
     DEF ExecInv, TypeOK, Call, CallLimited, CallTakesLock, CallWaitsForLock
<1>1. /\ c \notin permits /\ c \notin Queued(permitQueue)
      /\ \A l \in Locks : lockOwner[l] # c /\ c \notin Queued(lockQueue[l])
  BY <1>0, Elsewhere
<1>2. CASE EnterSemaphore(c, r) /\ (CallLimited(c, r) \/ CallTakesLock(c, r))
  <2>1. /\ OthersStay(c) /\ req'[c] = r /\ pc'[c] # "idle"
    BY <1>0, <1>2 DEF EnterSemaphore, Submit, OthersStay
  <2>2. PermitQueueInv'
    BY <1>0, <1>1, <1>2, <2>1, EnterKeepsPermits DEF QueueInv
  <2>3. CASE CallLimited(c, r)
    BY <1>0, <1>1, <2>1, <2>2, <2>3, LocksUntouched DEF QueueInv, CallLimited
  <2>4. CASE CallTakesLock(c, r)
    <3> DEFINE m == LockOf(r)
    <3>1. /\ m \in Locks /\ lockQueue[m] = <<>> /\ UsesLock(r)
          /\ lockOwner' = [lockOwner EXCEPT ![m] = c] /\ lockQueue' = lockQueue
      BY <1>0, <2>4, RequestFacts DEF CallTakesLock, LockFree
    <3> HIDE DEF m
    <3>2. /\ lockOwner'[m] = c /\ lockQueue'[m] = <<>>
          /\ \A l \in Locks \ {m} : lockOwner'[l] = lockOwner[l] /\ lockQueue'[l] = lockQueue[l]
      BY <1>0, <3>1
    <3>3. WantsNext(c, m)
      BY <2>1, <3>1 DEF WantsNext, m
    <3>4. <<>> \in Seq(Calls)
      BY EmptySeq
    <3>5. LockQueueInv'
      BY <1>0, <1>1, <2>1, <3>1, <3>2, <3>3, <3>4, EmptyQueue, OneLockChanges DEF QueueInv
    <3>6. QED
      BY <2>2, <3>5 DEF QueueInv
  <2>5. QED
    BY <1>2, <2>3, <2>4
<1>3. CASE CallWaitsForLock(c, r)
  <2> DEFINE m == LockOf(r)
             q == Append(lockQueue[m], c)
  <2>1. /\ OthersStay(c) /\ req'[c] = r /\ pc'[c] = "waitLock"
        /\ m \in Locks /\ UsesLock(r) /\ ~LockFree(m)
        /\ lockQueue' = [lockQueue EXCEPT ![m] = q] /\ lockOwner' = lockOwner
        /\ permits' = permits /\ permitQueue' = permitQueue
    BY <1>0, <1>3, RequestFacts DEF CallWaitsForLock, OthersStay, permitVars
  <2>2. /\ q \in Seq(Calls) /\ lockQueue[m] \in Seq(Calls)
        /\ Queued(q) = Queued(lockQueue[m]) \cup {c}
        /\ OnceEach(q)
    <3>1. lockQueue[m] \in Seq(Calls) /\ OnceEach(lockQueue[m])
      BY <1>0, <2>1 DEF QueueInv, LockQueueInv
    <3>2. QED
      BY <1>1, <2>1, <3>1, JoinQueue, AppendProperties
  <2>3. lockOwner[m] # Nobody /\ lockOwner[m] \in Calls /\ lockOwner[m] # c
    BY <1>0, <1>1, <2>1 DEF LockFree, QueueInv, LockQueueInv
  <2>4. WantsNext(c, m)
    BY <2>1 DEF Wants, WantsNext
  <2> HIDE DEF m, q
  <2>5. /\ lockOwner'[m] = lockOwner[m] /\ lockQueue'[m] = q
        /\ \A l \in Locks \ {m} : lockOwner'[l] = lockOwner[l] /\ lockQueue'[l] = lockQueue[l]
    BY <1>0, <2>1
  <2>6. WantsNext(lockOwner[m], m)
    <3>1. Wants(lockOwner[m], m)
      BY <2>1, <2>3 DEF QueueInv, LockQueueInv
    <3>2. /\ pc'[lockOwner[m]] = pc[lockOwner[m]] /\ req'[lockOwner[m]] = req[lockOwner[m]]
          /\ lockOwner' = lockOwner
      BY <2>1, <2>3 DEF OthersStay
    <3>3. QED
      BY <3>1, <3>2 DEF Wants, WantsNext
  <2>7. ASSUME NEW d \in Queued(q)
        PROVE  pc'[d] = "waitLock" /\ WantsNext(d, m) /\ lockOwner[m] # d
    <3>1. CASE d = c
      BY <3>1, <2>1, <2>3, <2>4
    <3>2. CASE d # c
      <4>1. d \in Queued(lockQueue[m]) /\ d \in Calls
        BY <2>2, <3>2, ElementOfSeq DEF Queued
      <4>2. pc'[d] = pc[d] /\ req'[d] = req[d]
        BY <2>1, <3>2, <4>1 DEF OthersStay
      <4>3. QED
        BY <2>1, <4>1, <4>2 DEF QueueInv, LockQueueInv, Wants, WantsNext
    <3>3. QED
      BY <3>1, <3>2
  <2>8. LockQueueInv'
    <3> DEFINE o == lockOwner[m]
    <3>1. /\ o \in Calls \cup {Nobody} /\ lockOwner'[m] = o
          /\ o # Nobody => WantsNext(o, m)
          /\ o = Nobody => q = <<>>
          /\ \A d \in Queued(q) : pc'[d] = "waitLock" /\ WantsNext(d, m) /\ o # d
      <4>1. lockOwner[m] # Nobody /\ lockOwner[m] \in Calls
        BY <2>3
      <4>2. WantsNext(o, m)
        BY <2>6
      <4>3. QED
        BY <2>5, <4>1, <4>2, <2>7
    <3> HIDE DEF o
    <3>2. /\ TypeOK /\ LockQueueInv /\ m \in Locks /\ OthersStay(c)
          /\ q \in Seq(Calls) /\ OnceEach(q) /\ lockQueue'[m] = q
          /\ \A l \in Locks \ {m} : lockOwner'[l] = lockOwner[l] /\ lockQueue'[l] = lockQueue[l]
          /\ \A l \in Locks \ {m} : c # lockOwner[l] /\ c \notin Queued(lockQueue[l])
      BY <1>0, <1>1, <2>1, <2>2, <2>5 DEF QueueInv
    <3>3. QED
      BY <3>1, <3>2, OneLockChanges
  <2>9. PermitQueueInv'
    <3>1. permits \subseteq Calls /\ Queued(permitQueue) \subseteq Calls
      BY <1>0, ElementOfSeq DEF TypeOK, Queued
    <3>2. \A d \in permits : d # c /\ pc'[d] = pc[d] /\ req'[d] = req[d]
      BY <1>1, <2>1, <3>1 DEF OthersStay
    <3>3. \A d \in Queued(permitQueue) : d # c /\ pc'[d] = pc[d] /\ req'[d] = req[d]
      BY <1>1, <2>1, <3>1 DEF OthersStay
    <3>4. QED
      BY <2>1, <3>2, <3>3 DEF QueueInv, PermitQueueInv
  <2>10. QED
    BY <2>8, <2>9 DEF QueueInv
<1>4. QED
  BY <1>2, <1>3 DEF Call, CallLimited, CallTakesLock

LEMMA GrantKeepsQueues ==
  ASSUME ExecInv, HoldInv, QueueInv, NEW c \in Calls, LockGranted(c) \/ PermitGranted(c)
  PROVE  QueueInv'
<1>0. /\ TypeOK /\ req[c] \in Requests /\ c # Nobody /\ c \in Calls
      /\ pc \in [Calls -> {"idle", "waitLock", "waitPermit", "inThread", "resuming"}]
      /\ req' = req /\ UNCHANGED lockVars
  BY ServerAssumption DEF ExecInv, TypeOK, RequestInv, LockGranted, PermitGranted
<1>1. /\ OthersStay(c) /\ pc'[c] # "idle" /\ req'[c] = req[c]
  BY <1>0 DEF LockGranted, PermitGranted, EnterSemaphore, Submit, OthersStay
<1>2. \A l \in Locks : /\ c \notin Queued(lockQueue[l])
                       /\ lockOwner[l] = c => WantsNext(c, l)
  <2>1. ASSUME NEW l \in Locks PROVE c \notin Queued(lockQueue[l])
    <3>1. CASE pc[c] = "waitLock"
      BY <3>1 DEF LockGranted, PermitGranted, QueueInv, LockQueueInv, Wants
    <3>2. CASE pc[c] # "waitLock"
      BY <1>0, <3>2, Elsewhere
    <3>3. QED
      BY <3>1, <3>2
  <2>2. ASSUME NEW l \in Locks, lockOwner[l] = c PROVE WantsNext(c, l)
    <3>1. Wants(c, l)
      BY <1>0, <2>2 DEF QueueInv, LockQueueInv
    <3>2. QED
      BY <1>1, <3>1 DEF Wants, WantsNext
  <2>3. QED
    BY <2>1, <2>2
<1>3. LockQueueInv'
  BY <1>0, <1>1, <1>2, LocksUntouched DEF QueueInv
<1>4. PermitQueueInv'
  <2>1. CASE LockGranted(c)
    <3>1. c \notin permits /\ c \notin Queued(permitQueue) /\ EnterSemaphore(c, req[c])
      BY <1>0, <2>1, Elsewhere DEF LockGranted
    <3>2. QED
      BY <1>0, <1>1, <3>1, EnterKeepsPermits DEF QueueInv
  <2>2. CASE PermitGranted(c)
    <3>1. /\ pc'[c] = "inThread" /\ c \in permits
          /\ permits' = permits /\ permitQueue' = permitQueue
      BY <1>0, <2>2 DEF PermitGranted, Submit, permitVars
    <3>2. /\ permits \subseteq Calls /\ Queued(permitQueue) \subseteq Calls
      BY <1>0, ElementOfSeq DEF TypeOK, Queued
    <3>3. \A d \in permits : /\ req'[d] = req[d]
                             /\ pc'[d] \in {"waitPermit", "inThread", "resuming"}
      BY <1>0, <1>1, <3>1, <3>2 DEF OthersStay, QueueInv, PermitQueueInv
    <3>4. \A d \in Queued(permitQueue) : d # c /\ pc'[d] = pc[d] /\ req'[d] = req[d]
      BY <1>1, <3>1, <3>2 DEF OthersStay, QueueInv, PermitQueueInv
    <3>5. QED
      BY <3>1, <3>3, <3>4 DEF QueueInv, PermitQueueInv
  <2>3. QED
    BY <2>1, <2>2
<1>5. QED
  BY <1>3, <1>4 DEF QueueInv

LEMMA LeaveKeepsLocks ==
  ASSUME TypeOK, QueueInv, NEW c \in Calls, req[c] \in Requests, LeaveLock(c), OthersStay(c)
  PROVE  LockQueueInv'
<1> DEFINE m == LockOf(req[c])
<1>0. /\ c # Nobody
      /\ lockOwner \in [Locks -> Calls \cup {Nobody}]
      /\ lockQueue \in [Locks -> Seq(Calls)]
  BY ServerAssumption DEF TypeOK
<1>1. \A l \in Locks : l # m => c # lockOwner[l] /\ c \notin Queued(lockQueue[l])
  BY Elsewhere
<1>2. CASE ~UsesLock(req[c]) /\ UNCHANGED lockVars
  <2>1. \A l \in Locks : lockOwner[l] # c /\ c \notin Queued(lockQueue[l])
    BY <1>2, Elsewhere
  <2>2. QED
    BY <1>2, <2>1, LocksUntouched DEF QueueInv
<1>3. ASSUME UsesLock(req[c]), NEW o \in Calls \cup {Nobody}, NEW q \in Seq(Calls),
             \A l \in Locks \ {m} : lockOwner'[l] = lockOwner[l] /\ lockQueue'[l] = lockQueue[l],
             lockOwner'[m] = o, lockQueue'[m] = q,
             o # c, c \notin Queued(q), o \notin Queued(q), OnceEach(q),
             Queued(q) \subseteq Queued(lockQueue[m]),
             o # Nobody => Wants(o, m), o = Nobody => q = <<>>
      PROVE  LockQueueInv'
  <2>1. m \in Locks
    BY <1>3, RequestFacts
  <2>2. \A d \in Queued(q) : pc'[d] = "waitLock" /\ WantsNext(d, m) /\ o # d
    <3>1. SUFFICES ASSUME NEW d \in Queued(q) PROVE pc'[d] = "waitLock" /\ WantsNext(d, m)
      BY <1>3
    <3>2. d \in Calls /\ d # c /\ d \in Queued(lockQueue[m])
      <4>1. d \in Queued(lockQueue[m]) /\ d # c
        BY <1>3
      <4>2. lockQueue[m] \in Seq(Calls)
        BY <1>0, <2>1
      <4>3. Queued(lockQueue[m]) \subseteq Calls
        BY <4>2, ElementOfSeq DEF Queued
      <4>4. QED
        BY <4>1, <4>3
    <3>3. pc[d] = "waitLock" /\ Wants(d, m)
      BY <2>1, <3>2 DEF QueueInv, LockQueueInv
    <3>4. pc'[d] = pc[d] /\ req'[d] = req[d]
      BY <3>2 DEF OthersStay
    <3>5. QED
      BY <3>3, <3>4 DEF Wants, WantsNext
  <2>3. o # Nobody => WantsNext(o, m)
    <3>1. SUFFICES ASSUME o # Nobody PROVE WantsNext(o, m)
      OBVIOUS
    <3>2. o \in Calls /\ o # c /\ Wants(o, m)
      BY <1>3, <3>1
    <3>3. pc'[o] = pc[o] /\ req'[o] = req[o]
      BY <3>2 DEF OthersStay
    <3>4. QED
      BY <3>2, <3>3 DEF Wants, WantsNext
  <2>4. \A l \in Locks \ {m} : c # lockOwner[l] /\ c \notin Queued(lockQueue[l])
    BY <1>1
  <2> HIDE DEF m
  <2>5. QED
    BY <1>3, <2>1, <2>2, <2>3, <2>4, OneLockChanges DEF QueueInv
<1>4. ASSUME UsesLock(req[c]), lockOwner[m] = c, lockQueue[m] = <<>>,
             lockOwner' = [lockOwner EXCEPT ![m] = Nobody], UNCHANGED lockQueue
      PROVE  LockQueueInv'
  <2>1. m \in Locks
    BY <1>4, RequestFacts
  <2>2. /\ lockOwner'[m] = Nobody /\ lockQueue'[m] = <<>>
        /\ \A l \in Locks \ {m} : lockOwner'[l] = lockOwner[l] /\ lockQueue'[l] = lockQueue[l]
    BY <1>0, <1>4, <2>1
  <2>3. Nobody \in Calls \cup {Nobody} /\ <<>> \in Seq(Calls)
    BY EmptySeq
  <2>4. \A d : d \notin Queued(<<>>)
    BY EmptyQueue
  <2> HIDE DEF m
  <2>5. QED
    BY <1>0, <1>3, <1>4, <2>2, <2>3, <2>4, EmptyQueue
<1>5. ASSUME UsesLock(req[c]), lockOwner[m] = c, lockQueue[m] # <<>>,
             lockOwner' = [lockOwner EXCEPT ![m] = Head(lockQueue[m])],
             lockQueue' = [lockQueue EXCEPT ![m] = Tail(lockQueue[m])]
      PROVE  LockQueueInv'
  <2>1. m \in Locks /\ lockQueue[m] \in Seq(Calls)
    BY <1>0, <1>5, RequestFacts
  <2> HIDE DEF m
  <2>2. PICK o : o = Head(lockQueue[m])
    OBVIOUS
  <2>3. PICK q : q = Tail(lockQueue[m])
    OBVIOUS
  <2>4. /\ lockOwner'[m] = o /\ lockQueue'[m] = q
        /\ \A l \in Locks \ {m} : lockOwner'[l] = lockOwner[l] /\ lockQueue'[l] = lockQueue[l]
    BY <1>0, <1>5, <2>1, <2>2, <2>3
  <2>5. o \in Calls /\ q \in Seq(Calls)
    BY <1>5, <2>1, <2>2, <2>3, ServeHead
  <2>6. /\ o \in Queued(lockQueue[m])
        /\ Queued(q) \subseteq Queued(lockQueue[m]) \ {o}
        /\ OnceEach(q)
    <3>1. OnceEach(lockQueue[m])
      BY <2>1 DEF QueueInv, LockQueueInv
    <3>2. QED
      BY <1>5, <2>1, <2>2, <2>3, <3>1, ServeQueue
  <2>7. Wants(o, m) /\ o # c /\ c \notin Queued(lockQueue[m])
    BY <1>5, <2>1, <2>6 DEF QueueInv, LockQueueInv
  <2>8. o # Nobody
    BY <2>5, ServerAssumption
  <2>9. QED
    BY <1>3, <1>5, <2>4, <2>5, <2>6, <2>7, <2>8
<1>6. ASSUME UsesLock(req[c]), UNCHANGED lockOwner,
             NEW i \in 1..Len(lockQueue[m]), lockQueue[m][i] = c,
             lockQueue' = [lockQueue EXCEPT ![m] = RemoveAt(lockQueue[m], i)]
      PROVE  LockQueueInv'
  <2>1. m \in Locks /\ lockQueue[m] \in Seq(Calls)
    BY <1>0, <1>6, RequestFacts
  <2> HIDE DEF m
  <2>2. PICK q : q = RemoveAt(lockQueue[m], i)
    OBVIOUS
  <2>3. PICK o : o = lockOwner[m]
    OBVIOUS
  <2>4. /\ lockOwner'[m] = o /\ lockQueue'[m] = q
        /\ \A l \in Locks \ {m} : lockOwner'[l] = lockOwner[l] /\ lockQueue'[l] = lockQueue[l]
    BY <1>0, <1>6, <2>1, <2>2, <2>3
  <2>5. /\ q \in Seq(Calls)
        /\ Queued(q) \subseteq Queued(lockQueue[m]) \ {c}
        /\ OnceEach(q)
    <3>1. OnceEach(lockQueue[m])
      BY <2>1 DEF QueueInv, LockQueueInv
    <3>2. QED
      BY <1>6, <2>1, <2>2, <3>1, QuitQueue, RemoveAtProperties
  <2>6. c \in Queued(lockQueue[m])
    BY <1>6 DEF Queued
  <2>7. o # c /\ o \in Calls \cup {Nobody} /\ o \notin Queued(lockQueue[m])
    BY <1>0, <2>1, <2>3, <2>6 DEF QueueInv, LockQueueInv
  <2>8. o # Nobody /\ Wants(o, m)
    <3>1. lockQueue[m] # <<>>
      BY <2>6, EmptyQueue
    <3>2. QED
      BY <2>1, <2>3, <3>1 DEF QueueInv, LockQueueInv
  <2>9. QED
    BY <1>3, <1>6, <2>4, <2>5, <2>7, <2>8
<1>7. QED
  BY <1>2, <1>4, <1>5, <1>6 DEF LeaveLock

LEMMA LeaveKeepsQueues ==
  ASSUME ExecInv, HoldInv, QueueInv, NEW c \in Calls, Return(c) \/ Cancel(c)
  PROVE  QueueInv'
<1>1. /\ TypeOK /\ req[c] \in Requests /\ LeaveSemaphore(c) /\ LeaveLock(c)
      /\ OthersStay(c)
  BY DEF ExecInv, TypeOK, RequestInv, Return, Cancel, OthersStay
<1>2. QED
  BY <1>1, LeaveKeepsPermits, LeaveKeepsLocks DEF QueueInv

LEMMA ThreadKeepsQueues ==
  ASSUME ExecInv, HoldInv, QueueInv, NEW w \in Workers, Begin(w) \/ ThreadStep(w)
  PROVE  QueueInv'
<1>1. CASE Begin(w) \/ Connect(w) \/ ConnectFails(w) \/ Disconnect(w)
  <2>1. UNCHANGED <<loopVars, lockVars, permitVars>>
    BY <1>1 DEF Begin, Connect, ConnectFails, Disconnect
  <2>2. QED
    BY <2>1 DEF QueueInv, LockQueueInv, PermitQueueInv, Wants, loopVars, lockVars, permitVars
<1>2. CASE Finish(w)
  <2>0. /\ lockOwner \in [Locks -> Calls \cup {Nobody}]
        /\ lockQueue \in [Locks -> Seq(Calls)]
        /\ permits \subseteq Calls /\ permitQueue \in Seq(Calls)
    BY DEF ExecInv, TypeOK
  <2>1. /\ req' = req /\ lockOwner' = lockOwner /\ lockQueue' = lockQueue
        /\ permits' = permits /\ permitQueue' = permitQueue
        /\ \A d \in Calls : pc'[d] = pc[d] \/ (pc[d] = "inThread" /\ pc'[d] = "resuming")
    BY <1>2 DEF Finish, ExecInv, RunningInv, lockVars, permitVars
  <2>2. ASSUME NEW l \in Locks
        PROVE  /\ lockOwner[l] # Nobody => WantsNext(lockOwner[l], l)
               /\ \A d \in Queued(lockQueue[l]) :
                     pc'[d] = "waitLock" /\ WantsNext(d, l) /\ lockOwner[l] # d
    <3>1. Queued(lockQueue[l]) \subseteq Calls
      BY <2>0, ElementOfSeq DEF Queued
    <3>2. \A d \in Calls : Wants(d, l) => WantsNext(d, l)
      BY <2>1 DEF Wants, WantsNext
    <3>3. lockOwner[l] # Nobody => WantsNext(lockOwner[l], l)
      BY <2>0, <3>2 DEF QueueInv, LockQueueInv
    <3>4. \A d \in Queued(lockQueue[l]) :
             pc'[d] = "waitLock" /\ WantsNext(d, l) /\ lockOwner[l] # d
      BY <2>1, <3>1, <3>2 DEF QueueInv, LockQueueInv
    <3>5. QED
      BY <3>3, <3>4
  <2>3. LockQueueInv'
    BY <2>1, <2>2 DEF QueueInv, LockQueueInv, Wants, WantsNext
  <2>4. PermitQueueInv'
    <3>1. Queued(permitQueue) \subseteq Calls
      BY <2>0, ElementOfSeq DEF Queued
    <3>2. QED
      BY <2>0, <2>1, <3>1 DEF QueueInv, PermitQueueInv
  <2>5. QED
    BY <2>3, <2>4 DEF QueueInv
<1>3. QED
  BY <1>1, <1>2 DEF ThreadStep

LEMMA QueueNext == ExecInv /\ HoldInv /\ QueueInv /\ [Next]_vars => QueueInv'
<1> SUFFICES ASSUME ExecInv, HoldInv, QueueInv, [Next]_vars PROVE QueueInv'
  OBVIOUS
<1>1. ASSUME NEW c \in Calls, NEW r \in Offered, Call(c, r) PROVE QueueInv'
  BY <1>1, CallKeepsQueues
<1>2. ASSUME NEW c \in Calls, LoopStep(c) \/ Cancel(c) PROVE QueueInv'
  BY <1>2, GrantKeepsQueues, LeaveKeepsQueues DEF LoopStep
<1>3. ASSUME NEW w \in Workers, Begin(w) \/ ThreadStep(w) PROVE QueueInv'
  BY <1>3, ThreadKeepsQueues
<1>4. CASE UNCHANGED vars
  BY <1>4 DEF QueueInv, LockQueueInv, PermitQueueInv, Wants,
              vars, loopVars, lockVars, permitVars
<1>5. QED
  BY <1>1, <1>2, <1>3, <1>4 DEF Next

LEMMA QueueInvariant == Spec => []QueueInv
<1>1. Spec => [](ExecInv /\ HoldInv)
  BY HoldInvariant
<1>2. QED
  BY <1>1, QueueInit, QueueNext, PTL DEF Spec

\* Nothing leaks, however calls return or are cancelled: locks and permits
\* belong to calls in flight that asked for them, and free ones have no
\* waiters ("async with", Lock.release and Semaphore.release).
THEOREM ReleasesAreComplete == Spec => []NothingLeaks
<1>1. QueueInv => NothingLeaks
  BY DEF QueueInv, LockQueueInv, PermitQueueInv, Wants, NothingLeaks
<1>2. QED
  BY <1>1, QueueInvariant, PTL

\* Lock first, permit second: no call holds a permit while it waits for a
\* device (_run_with_device_lock).
THEOREM PermitsWork == Spec => []PermitsNeverIdle
<1>1. QueueInv => PermitsNeverIdle
  BY DEF QueueInv, PermitQueueInv, PermitsNeverIdle
<1>2. QED
  BY <1>1, QueueInvariant, PTL

-----------------------------------------------------------------------------
(***************************************************************************)
(* McpServer implements DeviceGate.  The step that submits a call's job    *)
(* enters the gate, leaving the "async with" blocks leaves it, every other *)
(* step stutters; HoldInv says why a call that enters finds nobody in its  *)
(* way.                                                                    *)
(***************************************************************************)
Past == {"inThread", "resuming"}

\* Entering the semaphore lets a call into the gate, or keeps it waiting.
LEMMA EnterGate ==
  ASSUME ExecInv, HoldInv, NEW c \in Calls, pc[c] \notin Past,
         HoldInv', req'[c] \in Requests,
         UsesLock(req'[c]) => \A d \in Calls \ {c} :
             lockOwner[LockOf(req'[c])] # d,
         \A d \in Calls \ {c} : pc'[d] = pc[d] /\ req'[d] = req[d],
         pc'[c] \in {"waitLock", "waitPermit", "inThread"}
  PROVE  [Gate!Next]_Admitted
<1> DEFINE r == req'[c]
<1>0. /\ NoRequest \notin Requests /\ NoDevice \notin Locks
      /\ \A d \in Calls : pc[d] # "idle" => req[d] \in Requests
  BY ServerAssumption DEF Locks, ExecInv, RequestInv
<1>1. CASE pc'[c] # "inThread"
  BY <1>1 DEF Admitted, Past
<1>2. CASE pc'[c] = "inThread"
  <2>1. Admitted' = [Admitted EXCEPT ![c] = r]
    BY <1>2 DEF Admitted
  <2>2. /\ Gate!Inside = {d \in Calls : pc[d] \in Past}
        /\ c \notin Gate!Inside
        /\ \A d \in Gate!Inside : /\ Admitted[d] = req[d] /\ req[d] \in Requests
                                  /\ d \in Calls /\ pc[d] \in Past /\ d # c
    BY <1>0 DEF Gate!Inside, Admitted, Past
  <2>3. \A d \in Gate!Inside : ~Gate!Conflicts(r, Admitted[d])
    <3> SUFFICES ASSUME NEW d \in Gate!Inside, Gate!Conflicts(r, Admitted[d])
                 PROVE  FALSE
      OBVIOUS
    <3>1. /\ UsesLock(r) /\ UsesLock(req[d]) /\ LockOf(r) = LockOf(req[d])
      BY <1>0, <2>2, RequestFacts DEF Gate!Conflicts
    <3>2. lockOwner[LockOf(req[d])] = d
      BY <2>2, <3>1 DEF HoldInv, OwnsLock, Past
    <3>3. QED
      BY <2>2, <3>1, <3>2
  <2>4. ASSUME UsesPermit(r)
        PROVE  Cardinality(Gate!CountedInside) < MaxConcurrent
    <3>1. \A d \in Gate!CountedInside : d \in Calls \ {c} /\ d \in permits'
      BY <2>2 DEF Gate!CountedInside, HoldInv, HasPermit, Past
    <3>2. c \in permits'
      BY <1>2, <2>4 DEF HoldInv, HasPermit
    <3>3. /\ IsFiniteSet(permits') /\ Cardinality(permits') <= MaxConcurrent
          /\ Cardinality(permits') \in Nat /\ MaxConcurrent \in Nat
      BY FS_CardinalityType, ServerAssumption DEF HoldInv, PermitBound
    <3>4. /\ IsFiniteSet(permits' \ {c})
          /\ Cardinality(permits' \ {c}) = Cardinality(permits') - 1
      BY <3>2, <3>3, FS_RemoveElement
    <3>5. Gate!CountedInside \in SUBSET (permits' \ {c})
      BY <3>1
    <3>6. /\ Cardinality(Gate!CountedInside) <= Cardinality(permits' \ {c})
          /\ IsFiniteSet(Gate!CountedInside)
      BY <3>4, <3>5, FS_Subset
    <3>7. Cardinality(Gate!CountedInside) \in Nat
      BY <3>6, FS_CardinalityType
    <3>8. QED
      BY <3>3, <3>4, <3>6, <3>7
  <2>c. Gate!Cardinality(Gate!CountedInside) = Cardinality(Gate!CountedInside)
    BY DEF Gate!Cardinality, Cardinality
  <2>5. Gate!Enter(c, r)
    BY <2>1, <2>2, <2>3, <2>4, <2>c DEF Gate!Enter
  <2>6. QED
    BY <2>5 DEF Gate!Next
<1>3. QED
  BY <1>1, <1>2

LEMMA LeaveGate ==
  ASSUME ExecInv, NEW c \in Calls, Return(c) \/ Cancel(c)
  PROVE  [Gate!Next]_Admitted
<1>1. /\ pc' = [pc EXCEPT ![c] = "idle"]
      /\ req' = [req EXCEPT ![c] = NoRequest]
      /\ pc \in [Calls -> {"idle", "waitLock", "waitPermit", "inThread", "resuming"}]
      /\ req \in [Calls -> Requests \cup {NoRequest}]
      /\ pc[c] # "idle" => req[c] \in Requests
  BY DEF Return, Cancel, ExecInv, TypeOK, RequestInv
<1>2. Admitted' = [Admitted EXCEPT ![c] = NoRequest]
  BY <1>1 DEF Admitted
<1>3. CASE pc[c] \in Past
  <2>1. c \in Gate!Inside
    BY <1>1, <1>3, ServerAssumption DEF Gate!Inside, Admitted, Past
  <2>2. QED
    BY <1>2, <2>1 DEF Gate!Leave, Gate!Next
<1>4. CASE pc[c] \notin Past
  BY <1>1, <1>4 DEF Admitted, Past
<1>5. QED
  BY <1>3, <1>4

\* Locks and semaphore together do what DeviceGate says, cancellation
\* included: they never admit a call that should have waited.
THEOREM ServerImplementsGate == Spec => ImplementsGate
<1>1. Init => Gate!Init
  BY DEF Init, Gate!Init, Admitted
<1>2. ASSUME ExecInv, HoldInv, HoldInv', [Next]_vars
      PROVE  [Gate!Next]_Admitted
  <2>1. ASSUME NEW c \in Calls, NEW r \in Offered, Call(c, r)
        PROVE  [Gate!Next]_Admitted
    <3>0. /\ r \in Requests /\ pc[c] = "idle" /\ TypeOK
          /\ pc \in [Calls -> {"idle", "waitLock", "waitPermit", "inThread", "resuming"}]
          /\ req \in [Calls -> Requests \cup {NoRequest}]
          /\ req' = [req EXCEPT ![c] = r]
      BY <1>2, <2>1, ServerAssumption
         DEF ExecInv, TypeOK, Call, CallLimited, CallTakesLock, CallWaitsForLock
    <3>1. /\ req'[c] = r /\ pc'[c] \in {"waitLock", "waitPermit", "inThread"}
          /\ \A d \in Calls \ {c} : pc'[d] = pc[d] /\ req'[d] = req[d]
      BY <3>0, <2>1
         DEF Call, CallLimited, CallTakesLock, CallWaitsForLock, EnterSemaphore, Submit
    <3>2. CASE CallWaitsForLock(c, r)
      BY <3>0, <3>2 DEF CallWaitsForLock, Admitted
    <3>3. CASE CallLimited(c, r) \/ CallTakesLock(c, r)
      <4>1. UsesLock(r) => \A d \in Calls \ {c} : lockOwner[LockOf(r)] # d
        BY <3>3, ServerAssumption DEF CallLimited, CallTakesLock, LockFree
      <4>2. QED
        BY <1>2, <3>0, <3>1, <4>1, EnterGate DEF Past
    <3>4. QED
      BY <2>1, <3>2, <3>3 DEF Call
  <2>2. ASSUME NEW c \in Calls, LockGranted(c) \/ PermitGranted(c)
        PROVE  [Gate!Next]_Admitted
    <3>0. /\ pc \in [Calls -> {"idle", "waitLock", "waitPermit", "inThread", "resuming"}]
          /\ pc[c] \in {"waitLock", "waitPermit"} /\ UNCHANGED req
          /\ req[c] \in Requests
      BY <1>2, <2>2 DEF ExecInv, TypeOK, RequestInv, LockGranted, PermitGranted
    <3>1. /\ pc'[c] \in {"waitPermit", "inThread"}
          /\ \A d \in Calls \ {c} : pc'[d] = pc[d]
      BY <3>0, <2>2 DEF LockGranted, PermitGranted, EnterSemaphore, Submit
    <3>2. UsesLock(req[c]) => lockOwner[LockOf(req[c])] = c
      BY <1>2, <2>2 DEF LockGranted, PermitGranted, HoldInv, OwnsLock
    <3>3. QED
      BY <1>2, <3>0, <3>1, <3>2, EnterGate DEF Past
  <2>3. ASSUME NEW c \in Calls, Return(c) \/ Cancel(c)
        PROVE  [Gate!Next]_Admitted
    BY <1>2, <2>3, LeaveGate
  <2>4. ASSUME NEW w \in Workers, Begin(w) \/ ThreadStep(w)
        PROVE  [Gate!Next]_Admitted
    <3>1. CASE UNCHANGED loopVars
      BY <3>1 DEF loopVars, Admitted
    <3>2. CASE Finish(w)
      <4>1. /\ UNCHANGED req
            /\ \A d \in Calls : pc'[d] \in Past <=> pc[d] \in Past
        BY <1>2, <3>2 DEF Finish, ExecInv, RunningInv, Past
      <4>2. QED
        BY <4>1 DEF Admitted, Past
    <3>3. QED
      BY <2>4, <3>1, <3>2
         DEF Begin, ThreadStep, Connect, ConnectFails, Disconnect, loopVars
  <2>5. CASE UNCHANGED vars
    BY <2>5 DEF vars, loopVars, Admitted
  <2>6. QED
    BY <1>2, <2>1, <2>2, <2>3, <2>4, <2>5 DEF Next, LoopStep
<1>3. QED
  BY <1>1, <1>2, HoldInvariant, PTL DEF Spec, ImplementsGate, Gate!Spec
=============================================================================
