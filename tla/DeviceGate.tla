---------------------------- MODULE DeviceGate ----------------------------
(***************************************************************************)
(* What the MCP server's concurrency control promises a caller, without    *)
(* locks, semaphores or queues: a gate that calls enter one at a time per  *)
(* exclusive resource and at most Capacity at a time over all counted      *)
(* requests.  McpServer implements it.                                     *)
(***************************************************************************)
EXTENDS Naturals, FiniteSets

CONSTANTS
    Calls,       \* callers
    Requests,    \* what they may ask for
    Resource,    \* Resource[r]: what r needs for itself, or NoResource
    Counted,     \* the requests that count against Capacity
    Capacity,
    NoRequest, NoResource

VARIABLE inside  \* the request each call inside the gate serves

Init == inside = [c \in Calls |-> NoRequest]

Conflicts(r, s) == Resource[r] # NoResource /\ Resource[r] = Resource[s]

Inside == {c \in Calls : inside[c] # NoRequest}
CountedInside == {c \in Inside : inside[c] \in Counted}

Enter(c, r) ==
    /\ c \notin Inside
    /\ \A d \in Inside : ~Conflicts(r, inside[d])
    /\ r \in Counted => Cardinality(CountedInside) < Capacity
    /\ inside' = [inside EXCEPT ![c] = r]

Leave(c) ==
    /\ c \in Inside
    /\ inside' = [inside EXCEPT ![c] = NoRequest]

Next == \E c \in Calls : Leave(c) \/ \E r \in Requests : Enter(c, r)

Spec == Init /\ [][Next]_inside
=============================================================================
