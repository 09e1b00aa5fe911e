----------------------------- MODULE McpServer -----------------------------
(***************************************************************************)
(* The concurrency control of mcp_server.py: tool calls are coroutines on  *)
(* one event loop, blocking SSH and Batfish work runs in executor threads  *)
(* started by asyncio.to_thread.  A call may have to hold                  *)
(*                                                                         *)
(*   - the lock of its device      (_get_device_lock, single-device tools) *)
(*   - the Batfish lock            (_get_batfish_lock, Batfish tools)      *)
(*   - one permit of the semaphore (_get_semaphore, every tool with SSH)   *)
(*                                                                         *)
(* before its thread starts, always lock first and permit second.  asyncio *)
(* locks and semaphores are FIFO and hand over directly: a released lock   *)
(* with waiters belongs to the first waiter, a newcomer queues behind.     *)
(*                                                                         *)
(* A cancelled call leaves the event loop at once, and its "async with"    *)
(* blocks release what it holds, but a thread cannot be cancelled: a job   *)
(* that has begun runs to its end with no call waiting for it.             *)
(***************************************************************************)
EXTENDS Naturals, FiniteSets, Sequences, SequencesExt

CONSTANTS
    Devices,        \* devices with a management address
    Managed,        \* those inside the agent boundary
    Calls,          \* slots for tool calls in flight
    Workers,        \* threads of the event loop's default executor
    MaxConcurrent,  \* MAX_CONCURRENT_DEVICES
    Offered,        \* the requests clients send: records [tool, target]
    Sweep,          \* Sweep[t]: the devices sweep tool t visits, in order
    Cancellable,    \* may a client cancel a call in flight?
    NoDevice, BatfishLock, NoRequest, Nobody, Orphan

SweepTools  == {"check_fabric_health", "check_branch_connectivity",
                "check_spec_compliance"}
LimitTools  == SweepTools \cup {"run_chaos_test"}
SingleTools == {"get_device_state", "get_bgp_prefix", "cloud_tunnel_health"}
BatfishTools == {"run_batfish_validation", "blast_radius"}

Requests ==
    [tool : SweepTools \cup BatfishTools, target : {NoDevice}]
      \cup [tool : SingleTools, target : Devices]
      \cup [tool : {"run_chaos_test"}, target : Managed]

Locks == Devices \cup {BatfishLock}

ASSUME ServerAssumption ==
    /\ Managed \subseteq Devices
    /\ NoDevice \notin Locks /\ BatfishLock \notin Devices
    /\ NoRequest \notin Requests
    /\ Nobody \notin Calls /\ Orphan \notin Calls /\ Nobody # Orphan
    /\ IsFiniteSet(Workers)
    /\ MaxConcurrent \in Nat \ {0}
    /\ Offered \subseteq Requests
    /\ Sweep \in [SweepTools -> Seq(Managed)]
    /\ Cancellable \in BOOLEAN

VARIABLES
    pc,           \* where the coroutine of each call stands
    req,          \* the request each call serves
    lockOwner,    \* the call that owns each lock, or Nobody
    lockQueue,    \* calls waiting for each lock, oldest first
    permits,      \* calls that hold a permit of the semaphore
    permitQueue,  \* calls waiting for a permit, oldest first
    jobs,         \* calls whose job no thread has begun, oldest first
    running,      \* the call each thread works for; Orphan: cancelled since
    job,          \* the request each thread works on
    todo,         \* the devices each thread has still to visit
    session       \* the device each thread has an SSH session to

loopVars   == <<pc, req>>
lockVars   == <<lockOwner, lockQueue>>
permitVars == <<permits, permitQueue>>
threadVars == <<running, job, todo, session>>
vars == <<loopVars, lockVars, permitVars, jobs, threadVars>>

-----------------------------------------------------------------------------
\* Faulty variants (names in ...Bug) stand before what they replace; they
\* are plausible slips in this code that a property must notice.
UsesLockDeviceBug(r) == r.tool \in (SingleTools \ {"get_device_state"}) \cup BatfishTools
UsesLockBatfishBug(r) == r.tool \in SingleTools \cup {"run_batfish_validation"}
UsesPermitBug(r) == r.tool \in LimitTools

UsesLock(r)   == r.tool \in SingleTools \cup BatfishTools
UsesPermit(r) == r.tool \in LimitTools \cup SingleTools
LockOf(r)     == IF r.tool \in BatfishTools THEN BatfishLock ELSE r.target

(***************************************************************************)
(* The devices a request's thread contacts, in order.  run_chaos_test      *)
(* injects, then runs the three agent skills; its rollback does not get    *)
(* as far as the device, because signal.signal raises outside the main     *)
(* thread (see ChaosCycle).  Batfish tools are offline.                    *)
(***************************************************************************)
Itinerary(r) ==
    CASE r.tool \in SweepTools -> Sweep[r.tool]
      [] r.tool = "run_chaos_test" ->
            <<r.target>> \o Sweep["check_fabric_health"]
               \o Sweep["check_branch_connectivity"]
               \o Sweep["check_spec_compliance"]
      [] r.tool \in SingleTools -> <<r.target>>
      [] OTHER -> <<>>

PermitFreeBug == permitQueue = <<>> /\ Cardinality(permits) <= MaxConcurrent
PermitFree == permitQueue = <<>> /\ Cardinality(permits) < MaxConcurrent
LockFree(l) == lockOwner[l] = Nobody /\ lockQueue[l] = <<>>

Init ==
    /\ pc = [c \in Calls |-> "idle"]
    /\ req = [c \in Calls |-> NoRequest]
    /\ lockOwner = [l \in Locks |-> Nobody]
    /\ lockQueue = [l \in Locks |-> <<>>]
    /\ permits = {}
    /\ permitQueue = <<>>
    /\ jobs = <<>>
    /\ running = [w \in Workers |-> Nobody]
    /\ job = [w \in Workers |-> NoRequest]
    /\ todo = [w \in Workers |-> <<>>]
    /\ session = [w \in Workers |-> NoDevice]

-----------------------------------------------------------------------------
(* Steps of the event loop.  What follows an uncontended acquire runs in   *)
(* the same step: the coroutine is not suspended.                          *)

SubmitBug(c) ==  \* result handed over before the thread has it
    /\ jobs' = Append(jobs, c)
    /\ pc' = [pc EXCEPT ![c] = "done"]

\* asyncio.to_thread: hand the job to the executor and await its future.
Submit(c) ==
    /\ jobs' = Append(jobs, c)
    /\ pc' = [pc EXCEPT ![c] = "inThread"]

\* Past the lock: enter the semaphore, if the tool uses it, then submit.
EnterSemaphore(c, r) ==
    \/ /\ ~UsesPermit(r)
       /\ Submit(c)
       /\ UNCHANGED permitVars
    \/ /\ UsesPermit(r) /\ PermitFree
       /\ permits' = permits \cup {c}
       /\ Submit(c)
       /\ UNCHANGED permitQueue
    \/ /\ UsesPermit(r) /\ ~PermitFree
       /\ permitQueue' = Append(permitQueue, c)
       /\ pc' = [pc EXCEPT ![c] = "waitPermit"]
       /\ UNCHANGED <<permits, jobs>>

\* _run_with_device_limit
CallLimited(c, r) ==
    /\ pc[c] = "idle"
    /\ ~UsesLock(r)
    /\ req' = [req EXCEPT ![c] = r]
    /\ EnterSemaphore(c, r)
    /\ UNCHANGED <<lockVars, threadVars>>

\* _run_with_device_lock, _run_with_batfish_lock: the lock is free
CallTakesLock(c, r) ==
    /\ pc[c] = "idle"
    /\ UsesLock(r) /\ LockFree(LockOf(r))
    /\ req' = [req EXCEPT ![c] = r]
    /\ lockOwner' = [lockOwner EXCEPT ![LockOf(r)] = c]
    /\ EnterSemaphore(c, r)
    /\ UNCHANGED <<lockQueue, threadVars>>

CallWaitsForLockBug(c, r) ==  \* semaphore entered before the lock
    /\ pc[c] = "idle"
    /\ UsesLock(r) /\ ~LockFree(LockOf(r))
    /\ req' = [req EXCEPT ![c] = r]
    /\ lockQueue' = [lockQueue EXCEPT ![LockOf(r)] = Append(@, c)]
    /\ pc' = [pc EXCEPT ![c] = "waitLock"]
    /\ permits' = IF UsesPermit(r) /\ PermitFree THEN permits \cup {c} ELSE permits
    /\ UNCHANGED <<lockOwner, permitQueue, jobs, threadVars>>

\* _run_with_device_lock, _run_with_batfish_lock: the lock is taken
CallWaitsForLock(c, r) ==
    /\ pc[c] = "idle"
    /\ UsesLock(r) /\ ~LockFree(LockOf(r))
    /\ req' = [req EXCEPT ![c] = r]
    /\ lockQueue' = [lockQueue EXCEPT ![LockOf(r)] = Append(@, c)]
    /\ pc' = [pc EXCEPT ![c] = "waitLock"]
    /\ UNCHANGED <<lockOwner, permitVars, jobs, threadVars>>

Call(c, r) == CallLimited(c, r) \/ CallTakesLock(c, r) \/ CallWaitsForLock(c, r)

\* A waiter the lock was handed to runs again.
LockGranted(c) ==
    /\ pc[c] = "waitLock"
    /\ lockOwner[LockOf(req[c])] = c
    /\ EnterSemaphore(c, req[c])
    /\ UNCHANGED <<req, lockVars, threadVars>>

\* A waiter the permit was handed to runs again.
PermitGranted(c) ==
    /\ pc[c] = "waitPermit"
    /\ c \in permits
    /\ Submit(c)
    /\ UNCHANGED <<req, lockVars, permitVars, threadVars>>

LeaveLockBug(c) ==  \* released without waking the first waiter
    LET l == LockOf(req[c]) IN
    \/ /\ ~UsesLock(req[c])
       /\ UNCHANGED lockVars
    \/ /\ UsesLock(req[c]) /\ lockOwner[l] = c
       /\ lockOwner' = [lockOwner EXCEPT ![l] = Nobody]
       /\ UNCHANGED lockQueue
    \/ /\ UsesLock(req[c])
       /\ \E i \in 1..Len(lockQueue[l]) :
             /\ lockQueue[l][i] = c
             /\ lockQueue' = [lockQueue EXCEPT ![l] = RemoveAt(@, i)]
       /\ UNCHANGED lockOwner

\* Leaving "async with lock": owner hands over, waiter leaves the queue.
LeaveLock(c) ==
    LET l == LockOf(req[c]) IN
    \/ /\ ~UsesLock(req[c])
       /\ UNCHANGED lockVars
    \/ /\ UsesLock(req[c]) /\ lockOwner[l] = c /\ lockQueue[l] = <<>>
       /\ lockOwner' = [lockOwner EXCEPT ![l] = Nobody]
       /\ UNCHANGED lockQueue
    \/ /\ UsesLock(req[c]) /\ lockOwner[l] = c /\ lockQueue[l] # <<>>
       /\ lockOwner' = [lockOwner EXCEPT ![l] = Head(lockQueue[l])]
       /\ lockQueue' = [lockQueue EXCEPT ![l] = Tail(@)]
    \/ /\ UsesLock(req[c])
       /\ \E i \in 1..Len(lockQueue[l]) :
             /\ lockQueue[l][i] = c
             /\ lockQueue' = [lockQueue EXCEPT ![l] = RemoveAt(@, i)]
       /\ UNCHANGED lockOwner

LeaveSemaphoreBug(c) ==  \* acquire/release without try/finally
    \/ /\ c \notin permits \/ pc[c] # "resuming"
       /\ UNCHANGED permitVars
    \/ /\ c \in permits /\ pc[c] = "resuming" /\ permitQueue = <<>>
       /\ permits' = permits \ {c}
       /\ UNCHANGED permitQueue
    \/ /\ c \in permits /\ pc[c] = "resuming" /\ permitQueue # <<>>
       /\ permits' = (permits \ {c}) \cup {Head(permitQueue)}
       /\ permitQueue' = Tail(permitQueue)

\* Leaving "async with semaphore", likewise.
LeaveSemaphore(c) ==
    \/ /\ c \notin permits
       /\ \A i \in 1..Len(permitQueue) : permitQueue[i] # c
       /\ UNCHANGED permitVars
    \/ /\ c \in permits /\ permitQueue = <<>>
       /\ permits' = permits \ {c}
       /\ UNCHANGED permitQueue
    \/ /\ c \in permits /\ permitQueue # <<>>
       /\ permits' = (permits \ {c}) \cup {Head(permitQueue)}
       /\ permitQueue' = Tail(permitQueue)
    \/ /\ \E i \in 1..Len(permitQueue) :
             /\ permitQueue[i] = c
             /\ permitQueue' = RemoveAt(permitQueue, i)
       /\ UNCHANGED permits

\* The awaited thread has ended, in success or with an exception.
Return(c) ==
    /\ pc[c] = "resuming"
    /\ pc' = [pc EXCEPT ![c] = "idle"]
    /\ req' = [req EXCEPT ![c] = NoRequest]
    /\ LeaveSemaphore(c)
    /\ LeaveLock(c)
    /\ UNCHANGED <<jobs, threadVars>>

\* What becomes of the job of a cancelled call: dropped if not begun, else
\* the thread goes on alone.
AbandonJob(c) ==
    \/ /\ pc[c] # "inThread"
       /\ UNCHANGED <<jobs, running>>
    \/ /\ pc[c] = "inThread"
       /\ \E i \in 1..Len(jobs) : jobs[i] = c /\ jobs' = RemoveAt(jobs, i)
       /\ UNCHANGED running
    \/ /\ pc[c] = "inThread"
       /\ \E w \in Workers :
             /\ running[w] = c
             /\ running' = [running EXCEPT ![w] = Orphan]
       /\ UNCHANGED jobs

\* The client cancels, or disconnects: CancelledError at the await.
Cancel(c) ==
    /\ Cancellable
    /\ pc[c] \in {"waitLock", "waitPermit", "inThread"}
    /\ pc' = [pc EXCEPT ![c] = "idle"]
    /\ req' = [req EXCEPT ![c] = NoRequest]
    /\ AbandonJob(c)
    /\ LeaveSemaphore(c)
    /\ LeaveLock(c)
    /\ UNCHANGED <<job, todo, session>>

-----------------------------------------------------------------------------
(* Steps of the executor's threads.                                        *)

Begin(w) ==
    /\ running[w] = Nobody
    /\ jobs # <<>>
    /\ running' = [running EXCEPT ![w] = Head(jobs)]
    /\ job' = [job EXCEPT ![w] = req[Head(jobs)]]
    /\ todo' = [todo EXCEPT ![w] = Itinerary(req[Head(jobs)])]
    /\ jobs' = Tail(jobs)
    /\ UNCHANGED <<loopVars, lockVars, permitVars, session>>

Connect(w) ==
    /\ session[w] = NoDevice /\ todo[w] # <<>>
    /\ session' = [session EXCEPT ![w] = Head(todo[w])]
    /\ UNCHANGED <<loopVars, lockVars, permitVars, jobs, running, job, todo>>

\* _connect returns None, or the device is not in the spec: it is skipped.
\* A chaos test that cannot connect to inject ends instead (Finish).
ConnectFails(w) ==
    /\ session[w] = NoDevice /\ todo[w] # <<>>
    /\ job[w].tool = "run_chaos_test" => todo[w] # Itinerary(job[w])
    /\ todo' = [todo EXCEPT ![w] = Tail(@)]
    /\ UNCHANGED <<loopVars, lockVars, permitVars, jobs, running, job, session>>

Disconnect(w) ==
    /\ session[w] # NoDevice
    /\ session' = [session EXCEPT ![w] = NoDevice]
    /\ todo' = [todo EXCEPT ![w] = Tail(@)]
    /\ UNCHANGED <<loopVars, lockVars, permitVars, jobs, running, job>>

\* The thread returns, or raises with devices left to visit (_connect lets
\* all but Netmiko's authentication and timeout exceptions through).  An
\* exception inside a session closes it first (Disconnect).
Finish(w) ==
    /\ running[w] # Nobody
    /\ session[w] = NoDevice
    /\ running' = [running EXCEPT ![w] = Nobody]
    /\ job' = [job EXCEPT ![w] = NoRequest]
    /\ todo' = [todo EXCEPT ![w] = <<>>]
    /\ pc' = [c \in Calls |-> IF c = running[w] THEN "resuming" ELSE pc[c]]
    /\ UNCHANGED <<req, lockVars, permitVars, jobs, session>>

ThreadStep(w) == Connect(w) \/ ConnectFails(w) \/ Disconnect(w) \/ Finish(w)
LoopStep(c) == LockGranted(c) \/ PermitGranted(c) \/ Return(c)

Next ==
    \/ \E c \in Calls, r \in Offered : Call(c, r)
    \/ \E c \in Calls : LoopStep(c) \/ Cancel(c)
    \/ \E w \in Workers : Begin(w) \/ ThreadStep(w)

Spec == Init /\ [][Next]_vars

(***************************************************************************)
(* Fairness: the event loop runs a ready coroutine, an idle executor       *)
(* thread takes a job, and a thread's next blocking operation ends because *)
(* every Netmiko connection and read has a timeout.  Clients owe nothing.  *)
(***************************************************************************)
Fairness ==
    /\ \A c \in Calls : WF_vars(LoopStep(c))
    /\ WF_vars(\E w \in Workers : Begin(w))
    /\ \A w \in Workers : WF_vars(ThreadStep(w))

FairSpec == Spec /\ Fairness

-----------------------------------------------------------------------------
\* Every variable keeps its type: above all, a call past "async with" is at
\* one of the places the event loop knows.
TypeOK ==
    /\ pc \in [Calls -> {"idle", "waitLock", "waitPermit", "inThread", "resuming"}]
    /\ req \in [Calls -> Requests \cup {NoRequest}]
    /\ lockOwner \in [Locks -> Calls \cup {Nobody}]
    /\ lockQueue \in [Locks -> Seq(Calls)]
    /\ permits \in SUBSET Calls
    /\ permitQueue \in Seq(Calls)
    /\ jobs \in Seq(Calls)
    /\ running \in [Workers -> Calls \cup {Nobody, Orphan}]
    /\ job \in [Workers -> Requests \cup {NoRequest}]
    /\ todo \in [Workers -> Seq(Devices)]
    /\ session \in [Workers -> Devices \cup {NoDevice}]

-----------------------------------------------------------------------------
(* Safety.                                                                 *)

Serving(w, tools) == running[w] # Nobody /\ job[w].tool \in tools

\* The thread works for a call that still awaits it.
Awaited(w) == running[w] \in Calls

\* No two calls of single-device tools have a session to the same device at
\* the same time: what _run_with_device_lock is for.  Only the thread that a
\* cancelled call has left behind is not covered.
LockedSessionsExclusive ==
    \A v, w \in Workers :
        /\ v # w /\ Awaited(v) /\ Awaited(w)
        /\ Serving(v, SingleTools) /\ Serving(w, SingleTools)
        /\ session[v] # NoDevice
        => session[v] # session[w]

\* The semaphore caps the SSH sessions of all calls in flight: no tool opens
\* one without a permit, none opens two, no permit is handed out twice.
SessionsCapped ==
    Cardinality({w \in Workers : session[w] # NoDevice /\ Awaited(w)}) <= MaxConcurrent

\* Batfish work is serialised: of the calls in flight one at a time has the
\* snapshot directory and the fork of it (_run_with_batfish_lock).
BatfishSerialised ==
    \A v, w \in Workers :
        Awaited(v) /\ Awaited(w) /\ Serving(v, BatfishTools) /\ Serving(w, BatfishTools)
          => v = w

\* Nothing leaks, however calls are cancelled: a lock or a permit belongs to
\* a call still in flight that asked for it, and a lock or a permit that is
\* free has nobody waiting for it.
NothingLeaks ==
    /\ \A l \in Locks :
          /\ lockOwner[l] # Nobody =>
                /\ pc[lockOwner[l]] # "idle"
                /\ UsesLock(req[lockOwner[l]])
                /\ LockOf(req[lockOwner[l]]) = l
          /\ lockOwner[l] = Nobody => lockQueue[l] = <<>>
    /\ \A c \in permits : pc[c] # "idle" /\ UsesPermit(req[c])
    /\ Cardinality(permits) < MaxConcurrent => permitQueue = <<>>

\* The acquisition order: a call that holds a permit is never kept waiting
\* for a device lock, so calls queued on one slow device cannot use up the
\* permits the other devices need.
PermitsNeverIdle == \A c \in permits : pc[c] # "waitLock"

\* "Prevents overlapping SSH sessions to the same device when multiple MCP
\* tool calls run concurrently": while a thread whose call holds the lock of
\* a device has its session there, no other thread, whatever tool it serves,
\* has one.
NoOverlappingSSH ==
    \A v, w \in Workers :
        /\ v # w /\ Awaited(v)
        /\ session[v] # NoDevice /\ lockOwner[session[v]] = running[v]
        => session[w] # session[v]

-----------------------------------------------------------------------------
(* The server implements DeviceGate: a call is inside from the step that   *)
(* submits its job to the step that leaves the "async with" block.         *)

\* The request of each call that is past lock and semaphore.
Admitted ==
    [c \in Calls |->
        IF pc[c] \in {"inThread", "resuming"} THEN req[c] ELSE NoRequest]

Gate == INSTANCE DeviceGate WITH
    Resource   <- [r \in Requests |-> IF UsesLock(r) THEN LockOf(r) ELSE NoDevice],
    Counted    <- {r \in Requests : UsesPermit(r)},
    Capacity   <- MaxConcurrent,
    NoResource <- NoDevice,
    inside     <- Admitted

\* Locks and semaphore together admit exactly as the gate does: per device
\* and Batfish one call, over all SSH tools at most MAX_CONCURRENT_DEVICES,
\* with calls cancelled or not.
ImplementsGate == Gate!Spec

-----------------------------------------------------------------------------
(* Liveness.                                                               *)

\* Every call returns to its client: neither lock order, queues nor the
\* bounded executor can strand one.
EveryCallReturns == \A c \in Calls : pc[c] # "idle" ~> pc[c] = "idle"

=============================================================================
