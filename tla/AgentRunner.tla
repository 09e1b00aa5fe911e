---------------------------- MODULE AgentRunner ----------------------------
(***************************************************************************)
(* agent/runner.py, agent/telegram_notifier.py, agent/netbox_reconciler.py: *)
(* skills that visit the managed devices one by one, count passes and      *)
(* failures and tell the operator over Telegram; a drift from the spec     *)
(* goes into the journal of the device in NetBox too.  A scheduled runner  *)
(* goes through all skills, sends a summary after each and sleeps; the     *)
(* tools of the MCP server run one skill each, in threads that share the   *)
(* notifier's cooldowns.  NetBox reconciliation counts failures for its log *)
(* only; the count is left out.                                            *)
(*                                                                         *)
(* Time passes in ticks of one schedule period.  Of a time stamp only its  *)
(* age counts, and only up to the cooldown, or the dedup window; messages  *)
(* and calls to NetBox take no time on this scale.  A device has at most   *)
(* one drift, always the same.                                             *)
(***************************************************************************)
EXTENDS Naturals, FiniteSets, Sequences

CONSTANTS
    Devices,
    Skills,      \* the skills, in the order run_all_skills runs them
    Visits,      \* Visits[s]: the devices skill s checks, in order
    Scheduled,   \* runners of "agent.runner --schedule"
    Threads,     \* runners of MCP tool calls
    Server,      \* the process of those threads
    Cooldown,    \* ALERT_COOLDOWN, in ticks
    Window,      \* DEDUP_WINDOW, in ticks
    Reconciling, \* ENABLE_NETBOX_RECONCILIATION
    Troubles     \* what may go wrong besides the devices

Runners == Scheduled \cup Threads
SkillNames == {Skills[i] : i \in DOMAIN Skills}
Keys == SkillNames \X Devices
\* Every scheduled runner is a process of its own, with its own _last_alert.
Process(r) == IF r \in Threads THEN Server ELSE r
Processes == Scheduled \cup {Server}

ASSUME RunnerAssumption ==
    /\ IsFiniteSet(Devices) /\ IsFiniteSet(Runners)
    /\ Skills \in Seq(SkillNames) \ {<<>>}
    /\ Visits \in [SkillNames -> Seq(Devices)]
    /\ \A s \in SkillNames : \A i, j \in DOMAIN Visits[s] :
          Visits[s][i] = Visits[s][j] => i = j
    /\ Scheduled \cap Threads = {} /\ Server \notin Scheduled
    /\ Cooldown \in Nat \ {0} /\ Window \in Nat \ {0}
    /\ Reconciling \in BOOLEAN
    /\ Troubles \subseteq {"refused", "send_raises", "summary_raises", "connect_raises",
                       "netbox_fails", "unreadable"}

VARIABLES
    faulty,       \* devices that fail their checks
    unreachable,  \* devices without SSH
    pc,           \* where each runner stands
    skill,        \* the number of its skill
    left,         \* the devices it has still to visit, the current one first
    seen,         \* what it has seen of the current one
    passed,       \* results["passed"], results["failed"],
    failed,
    entry,        \* results["devices"]
    age,          \* ticks since the time stamps in each process's _last_alert
    heard,        \* ticks since a failure alert of each process reached the operator
    chat,         \* the last message that did, for each skill and device
    journal,      \* ticks since the youngest journal entry about each device
    entries       \* entries since the one before was out of the window

worldVars == <<faulty, unreachable>>
resultVars == <<passed, failed, entry>>
chatVars == <<heard, chat>>
netboxVars == <<journal, entries>>
vars == <<worldVars, pc, skill, left, seen, resultVars, age, chatVars, netboxVars>>

Device(r) == Head(left[r])
Key(r) == <<Skills[skill[r]], Device(r)>>

Init ==
    /\ faulty = {} /\ unreachable = {}
    /\ pc = [r \in Runners |-> "idle"]
    /\ skill = [r \in Runners |-> 1]
    /\ left = [r \in Runners |-> <<>>]
    /\ seen = [r \in Runners |-> "none"]
    /\ passed = [r \in Runners |-> 0]
    /\ failed = [r \in Runners |-> 0]
    /\ entry = [r \in Runners |-> [d \in Devices |-> "none"]]
    /\ age = [p \in Processes |-> [k \in Keys |-> Cooldown]]
    /\ heard = [p \in Processes |-> [k \in Keys |-> Cooldown]]
    /\ chat = [k \in Keys |-> "none"]
    /\ journal = [d \in Devices |-> Window]
    /\ entries = [d \in Devices |-> 0]

Goto(r, l) == pc' = [pc EXCEPT ![r] = l]

\* The runner enters the skill with number i, with empty results.
EnterSkill(r, i) ==
    /\ skill' = [skill EXCEPT ![r] = i]
    /\ left' = [left EXCEPT ![r] = Visits[Skills[i]]]
    /\ passed' = [passed EXCEPT ![r] = 0]
    /\ failed' = [failed EXCEPT ![r] = 0]
    /\ entry' = [entry EXCEPT ![r] = [d \in Devices |-> "none"]]
    /\ Goto(r, "device")

\* The run is over: the results are gone with the call.
EndRun(r, l) ==
    /\ skill' = [skill EXCEPT ![r] = 1]
    /\ left' = [left EXCEPT ![r] = <<>>]
    /\ passed' = [passed EXCEPT ![r] = 0]
    /\ failed' = [failed EXCEPT ![r] = 0]
    /\ entry' = [entry EXCEPT ![r] = [d \in Devices |-> "none"]]
    /\ Goto(r, l)

NextDeviceBug(r, e) ==  \* a device whose check raised is tried again
    /\ entry' = [entry EXCEPT ![r][Device(r)] = e]
    /\ left' = [left EXCEPT ![r] = IF e = "error" THEN @ ELSE Tail(@)]
    /\ seen' = [seen EXCEPT ![r] = "none"]
    /\ Goto(r, "device")

\* results["devices"][name] = e, on to the next device.
NextDevice(r, e) ==
    /\ entry' = [entry EXCEPT ![r][Device(r)] = e]
    /\ left' = [left EXCEPT ![r] = Tail(@)]
    /\ seen' = [seen EXCEPT ![r] = "none"]
    /\ Goto(r, "device")

CountPass(r) == passed' = [passed EXCEPT ![r] = @ + 1] /\ UNCHANGED failed
CountFail(r) == failed' = [failed EXCEPT ![r] = @ + 1] /\ UNCHANGED passed

-----------------------------------------------------------------------------
(* A skill, device by device.                                              *)

Start(r) ==
    /\ pc[r] = "idle"
    /\ \/ r \in Scheduled /\ EnterSkill(r, 1)
       \/ r \in Threads /\ \E i \in DOMAIN Skills : EnterSkill(r, i)
    /\ UNCHANGED <<worldVars, seen, age, chatVars, netboxVars>>

AtDevice(r) == pc[r] = "device" /\ left[r] # <<>>

UnreachableBug(r) ==  \* "continue" before the count
    /\ AtDevice(r) /\ Device(r) \in unreachable
    /\ NextDevice(r, "unreachable")
    /\ UNCHANGED <<worldVars, skill, passed, failed, age, chatVars, netboxVars>>

\* _connect returns None.
Unreachable(r) ==
    /\ AtDevice(r) /\ Device(r) \in unreachable
    /\ CountFail(r)
    /\ NextDevice(r, "unreachable")
    /\ UNCHANGED <<worldVars, skill, age, chatVars, netboxVars>>

\* The show command is answered, the verdict counted; then the notifier.
Passes(r) ==
    /\ AtDevice(r) /\ Device(r) \notin unreachable \cup faulty
    /\ CountPass(r)
    /\ seen' = [seen EXCEPT ![r] = "clean"]
    /\ Goto(r, "send")
    /\ UNCHANGED <<worldVars, skill, left, entry, age, chatVars, netboxVars>>

Fails(r) ==
    /\ AtDevice(r) /\ Device(r) \in faulty \ unreachable
    /\ CountFail(r)
    /\ seen' = [seen EXCEPT ![r] = "faulty"]
    /\ Goto(r, "limit")
    /\ UNCHANGED <<worldVars, skill, left, entry, age, chatVars, netboxVars>>

\* The except clause: before the verdict is counted, or in the notifier,
\* after it.
CheckRaises(r) ==
    /\ AtDevice(r) /\ Device(r) \notin unreachable
    /\ CountFail(r)
    /\ NextDevice(r, "error")
    /\ UNCHANGED <<worldVars, skill, age, chatVars, netboxVars>>

SendRaises(r) ==
    /\ pc[r] = "send" /\ "send_raises" \in Troubles
    /\ CountFail(r)
    /\ NextDevice(r, "error")
    /\ UNCHANGED <<worldVars, skill, age, chatVars, netboxVars>>

\* _connect lets through what is neither an authentication nor a timeout
\* exception of Netmiko, outside the try statement: the run is over.
ConnectRaises(r) ==
    /\ AtDevice(r) /\ "connect_raises" \in Troubles
    /\ EndRun(r, IF r \in Scheduled THEN "dead" ELSE "idle")
    /\ UNCHANGED <<worldVars, seen, age, chatVars, netboxVars>>

-----------------------------------------------------------------------------
(* send_skill_result, send_drift_alert.                                    *)

\* The notifier has returned: a drift is reconciled next, whatever became of
\* the alert.
Alerted(r) ==
    IF Skills[skill[r]] = "spec_compliance" /\ seen[r] = "faulty" /\ Reconciling
    THEN Goto(r, "journal") /\ UNCHANGED <<entry, left, seen>>
    ELSE NextDevice(r, seen[r])

RateLimitedBug(r) ==  \* the time stamp renewed on every call
    /\ pc[r] = "limit" /\ age[Process(r)][Key(r)] < Cooldown
    /\ age' = [age EXCEPT ![Process(r)][Key(r)] = 0]
    /\ Alerted(r)
    /\ UNCHANGED <<worldVars, skill, passed, failed, chatVars, netboxVars>>

\* _is_rate_limited, up to the lookup ...
RateLimited(r) ==
    /\ pc[r] = "limit" /\ age[Process(r)][Key(r)] < Cooldown
    /\ Alerted(r)
    /\ UNCHANGED <<worldVars, skill, passed, failed, age, chatVars, netboxVars>>

NotLimited(r) ==
    /\ pc[r] = "limit" /\ age[Process(r)][Key(r)] = Cooldown
    /\ Goto(r, "stamp")
    /\ UNCHANGED <<worldVars, skill, left, seen, resultVars, age, chatVars, netboxVars>>

StampBug(r) ==  \* the cooldown not recorded
    /\ pc[r] = "stamp"
    /\ Goto(r, "send")
    /\ UNCHANGED <<worldVars, skill, left, seen, resultVars, age, chatVars, netboxVars>>

\* ... and from there on.  Nothing keeps another thread out in between.
Stamp(r) ==
    /\ pc[r] = "stamp"
    /\ age' = [age EXCEPT ![Process(r)][Key(r)] = 0]
    /\ Goto(r, "send")
    /\ UNCHANGED <<worldVars, skill, left, seen, resultVars, chatVars, netboxVars>>

\* send_message is answered with status 200.
Delivered(r) ==
    /\ pc[r] = "send"
    /\ chat' = [chat EXCEPT ![Key(r)] = seen[r]]
    /\ heard' = IF seen[r] = "faulty" THEN [heard EXCEPT ![Process(r)][Key(r)] = 0] ELSE heard
    /\ Alerted(r)
    /\ UNCHANGED <<worldVars, skill, passed, failed, age, netboxVars>>

\* Another status, or no credentials: nobody looks at the result.
Refused(r) ==
    /\ pc[r] = "send" /\ "refused" \in Troubles
    /\ Alerted(r)
    /\ UNCHANGED <<worldVars, skill, passed, failed, age, chatVars, netboxVars>>

-----------------------------------------------------------------------------
(* reconcile_drifts, create_journal_entry.                                 *)

Reconciled(r) ==
    /\ NextDevice(r, "faulty")
    /\ UNCHANGED <<worldVars, skill, passed, failed, age, chatVars>>

\* Whatever raises, and a device NetBox does not know: at most the log tells.
NetBoxFails(r) ==
    /\ pc[r] \in {"journal", "post", "blind"} /\ "netbox_fails" \in Troubles
    /\ Reconciled(r) /\ UNCHANGED netboxVars

\* All drifts have an entry in the window.
Duplicate(r) ==
    /\ pc[r] = "journal" /\ journal[Device(r)] < Window
    /\ Reconciled(r) /\ UNCHANGED netboxVars

NewDriftBug(r) ==  \* the window not looked at: one entry is enough for good
    /\ pc[r] = "journal" /\ entries[Device(r)] = 0
    /\ Goto(r, "post")
    /\ UNCHANGED <<worldVars, skill, left, seen, resultVars, age, chatVars, netboxVars>>
NewDriftAlwaysBug(r) ==  \* entries not looked for
    /\ pc[r] = "journal"
    /\ Goto(r, "post")
    /\ UNCHANGED <<worldVars, skill, left, seen, resultVars, age, chatVars, netboxVars>>

\* There is none, or the journal cannot be read and is taken for empty.
NewDrift(r) ==
    /\ pc[r] = "journal"
    /\ \/ journal[Device(r)] = Window /\ Goto(r, "post")
       \/ "unreadable" \in Troubles /\ Goto(r, "blind")
    /\ UNCHANGED <<worldVars, skill, left, seen, resultVars, age, chatVars, netboxVars>>

\* One entry for the drifts.  The ledger counts those made after a look.
Post(r) ==
    /\ pc[r] \in {"post", "blind"}
    /\ journal' = [journal EXCEPT ![Device(r)] = 0]
    /\ entries' = [entries EXCEPT ![Device(r)] =
          LET recent == IF journal[Device(r)] = Window THEN 0 ELSE @
          IN  IF pc[r] = "blind" \/ recent > Cardinality(Runners) THEN recent
              ELSE recent + 1]
    /\ Reconciled(r)

-----------------------------------------------------------------------------
(* run_all_skills after a skill, the sleep of main.                        *)

SkillDone(r) == pc[r] = "device" /\ left[r] = <<>>

\* send_summary returns, with True or False.
Summary(r) ==
    /\ SkillDone(r) /\ r \in Scheduled
    /\ \/ skill[r] < Len(Skills) /\ EnterSkill(r, skill[r] + 1)
       \/ skill[r] = Len(Skills) /\ EndRun(r, "sleep")
    /\ UNCHANGED <<worldVars, seen, age, chatVars, netboxVars>>

SummaryRaises(r) ==
    /\ SkillDone(r) /\ r \in Scheduled /\ "summary_raises" \in Troubles
    /\ EndRun(r, "dead")
    /\ UNCHANGED <<worldVars, seen, age, chatVars, netboxVars>>

\* A tool call returns the results to its client.
ToolReturns(r) ==
    /\ SkillDone(r) /\ r \in Threads
    /\ EndRun(r, "idle")
    /\ UNCHANGED <<worldVars, seen, age, chatVars, netboxVars>>

\* A tick: cooldowns run, time.sleep ends.
Older(a, limit) == IF a < limit THEN a + 1 ELSE a
Tick ==
    /\ \A r \in Runners : pc[r] \notin {"stamp", "send", "journal", "post", "blind"}
    /\ age' = [p \in Processes |-> [k \in Keys |-> Older(age[p][k], Cooldown)]]
    /\ heard' = [p \in Processes |-> [k \in Keys |-> Older(heard[p][k], Cooldown)]]
    /\ journal' = [d \in Devices |-> Older(journal[d], Window)]
    /\ pc' = [r \in Runners |-> IF pc[r] = "sleep" THEN "idle" ELSE pc[r]]
    /\ UNCHANGED <<worldVars, skill, left, seen, resultVars, chat, entries>>

\* Environment: devices break, are mended, are lost and come back.
World ==
    /\ \E d \in Devices :
          \/ /\ faulty' \in {faulty \cup {d}, faulty \ {d}}
             /\ UNCHANGED unreachable
          \/ /\ unreachable' \in {unreachable \cup {d}, unreachable \ {d}}
             /\ UNCHANGED faulty
    /\ UNCHANGED <<pc, skill, left, seen, resultVars, age, chatVars, netboxVars>>

\* What a runner does of itself.  Tool calls are up to the clients.
Progress(r) ==
    \/ r \in Scheduled /\ Start(r)
    \/ Unreachable(r) \/ Passes(r) \/ Fails(r) \/ RateLimited(r) \/ NotLimited(r)
    \/ Stamp(r) \/ Delivered(r) \/ Refused(r) \/ Summary(r) \/ ToolReturns(r)
    \/ Duplicate(r) \/ NewDrift(r) \/ Post(r)

Raise(r) ==
    \/ CheckRaises(r) \/ SendRaises(r) \/ ConnectRaises(r) \/ SummaryRaises(r)
    \/ NetBoxFails(r)

Next ==
    \/ \E r \in Runners : Start(r) \/ Progress(r) \/ Raise(r)
    \/ Tick
    \/ World

Spec == Init /\ [][Next]_vars

\* The skill visits the device.
VisitedKeys == {k \in Keys : \E i \in DOMAIN Visits[k[1]] : Visits[k[1]][i] = k[2]}

(***************************************************************************)
(* Fairness: runners run on and time passes; a check that is made again    *)
(* and again does not raise every time, and a message that is sent again   *)
(* and again gets through at last.                                         *)
(***************************************************************************)
Fairness ==
    /\ \A r \in Runners : WF_vars(Progress(r) \/ Raise(r))
    /\ \A r \in Scheduled, k \in VisitedKeys :
          /\ SF_vars(Fails(r) /\ Key(r) = k)
          /\ SF_vars(Delivered(r) /\ Key(r) = k /\ seen[r] = "faulty")
          /\ SF_vars(NewDrift(r) /\ Key(r) = k)
          /\ SF_vars(Post(r) /\ Key(r) = k)
    /\ SF_vars(Tick)

FairSpec == Spec /\ Fairness

-----------------------------------------------------------------------------
\* Every variable keeps its type; the counts start anew with every skill and
\* no device is counted more than twice.
TypeOK ==
    /\ faulty \subseteq Devices /\ unreachable \subseteq Devices
    /\ pc \in [Runners -> {"idle", "device", "limit", "stamp", "send", "sleep", "dead",
                         "journal", "post", "blind"}]
    /\ skill \in [Runners -> DOMAIN Skills]
    /\ left \in [Runners -> Seq(Devices)]
    /\ seen \in [Runners -> {"none", "clean", "faulty"}]
    /\ passed \in [Runners -> 0..Cardinality(Devices)]
    /\ failed \in [Runners -> 0..(2 * Cardinality(Devices))]
    /\ entry \in [Runners -> [Devices -> {"none", "unreachable", "error", "clean", "faulty"}]]
    /\ age \in [Processes -> [Keys -> 0..Cooldown]]
    /\ heard \in [Processes -> [Keys -> 0..Cooldown]]
    /\ chat \in [Keys -> {"none", "clean", "faulty"}]
    /\ journal \in [Devices -> 0..Window]
    /\ entries \in [Devices -> 0..Cardinality(Runners) + 1]

-----------------------------------------------------------------------------
(* Safety.                                                                 *)

Entries(r, E) == {d \in Devices : entry[r][d] \in E}
NotPassed == {"unreachable", "error", "faulty"}

\* When a skill is done it has a result for every device it had to visit,
\* and its counts hide no failure: whatever raised on the way, as many
\* failures are counted as there are results that are not clean.
NoFailureHidden ==
    \A r \in Runners : SkillDone(r) =>
        /\ Entries(r, {"none"}) =
              Devices \ {Visits[Skills[skill[r]]][i] : i \in DOMAIN Visits[Skills[skill[r]]]}
        /\ failed[r] >= Cardinality(Entries(r, NotPassed))
        /\ passed[r] >= Cardinality(Entries(r, {"clean"}))

\* Failure alerts of one process about one skill and device reach the
\* operator a cooldown apart, as long as the process has one thread.
AlertsApart ==
    [][\A p \in Processes, k \in Keys :
          heard'[p][k] < heard[p][k] => heard[p][k] = Cooldown]_vars

\* Nothing makes read, check and create of a journal entry one step, so the
\* runners may log one drift several times: once each in a dedup window, and
\* no more, but for entries made without a look at the journal
\* (netbox_reconciler.py:118-149).
EntriesBounded == \A d \in Devices : entries[d] <= Cardinality(Runners)

-----------------------------------------------------------------------------
(* Liveness.                                                               *)

\* As long as no exception has ended the schedule for good.
Alive == [](\A r \in Scheduled : pc[r] # "dead")
\* A device that fails for good is reported for good, although alerts are
\* lost and suppressed: in the end the last the operator has heard of it is
\* a failure.  (Of a device that cannot be reached nothing is ever sent.)
OperatorInformed ==
    \A k \in VisitedKeys : Scheduled # {} =>
        (Alive /\ <>[](k[2] \in faulty \ unreachable) => <>[](chat[k] = "faulty"))

\* A drift that lasts is logged anew whenever the window is over: neither a
\* suppressed or failed alert nor entries of the past keep it out of the
\* journal (runner.py:336-347).
DriftRecorded ==
    \A d \in Devices :
        <<"spec_compliance", d>> \in VisitedKeys /\ Scheduled # {} /\ Reconciling =>
            (Alive /\ <>[](d \in faulty \ unreachable) => []<>(journal[d] < Window))
=============================================================================
