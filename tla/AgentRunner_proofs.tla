------------------------- MODULE AgentRunner_proofs -------------------------
(***************************************************************************)
(* TypeOK, NoFailureHidden and EntriesBounded for any number of devices,   *)
(* skills, runners and processes, and AlertsApart for processes of one     *)
(* runner each.                                                            *)
(*                                                                         *)
(* Sound says of one runner how its counts, its results and the devices    *)
(* still to visit belong together: a device is to visit, or out of the     *)
(* skill's reach, exactly when it has no result, so the counts are as      *)
(* large as the results, but for the verdict under way.  Spaced and        *)
(* Budget say the same of alerts and of journal entries: a runner past the *)
(* look at the time stamp, or the journal, is already accounted for.       *)
(***************************************************************************)
EXTENDS AgentRunner, FiniteSetTheorems, SequenceTheorems, TLAPS

Members(s) == {s[i] : i \in DOMAIN s}
Distinct(s) == \A i, j \in DOMAIN s : s[i] = s[j] => i = j

Results == {"unreachable", "error", "clean", "faulty"}
Having(e, E) == {d \in Devices : e[d] \in E}

Under == {"limit", "stamp", "send", "journal", "post", "blind"}
Away == {"idle", "sleep", "dead"}
ResultMap == [Devices -> {"none"} \cup Results]

CleanUnder(l, v) == IF l = "send" /\ v = "clean" THEN 1 ELSE 0
FaultUnder(l, v) == IF l \in Under /\ v = "faulty" THEN 1 ELSE 0

\* Counts p and f belong to the results e, with a verdict v at place l.
Score(l, v, p, f, e) ==
    /\ p \in Nat /\ f \in Nat
    /\ Cardinality(Having(e, {"clean"})) + CleanUnder(l, v) <= p
    /\ p <= Cardinality(Having(e, Results)) + CleanUnder(l, v)
    /\ Cardinality(Having(e, NotPassed)) + FaultUnder(l, v) <= f
    /\ f <= 2 * Cardinality(Having(e, Results)) + FaultUnder(l, v)

\* Results e and devices t to visit belong to skill k.
Agenda(k, t, e) ==
    /\ Distinct(t)
    /\ Members(t) \subseteq Members(Visits[Skills[k]])
    /\ Having(e, {"none"}) = (Devices \ Members(Visits[Skills[k]])) \cup Members(t)

Sound(l, k, t, v, p, f, e) ==
    /\ l \in Away => p = 0 /\ f = 0
    /\ l \notin Away => Agenda(k, t, e) /\ Score(l, v, p, f, e)
    /\ l \in Under => /\ t # <<>> /\ v \in {"clean", "faulty"}
                      /\ v = "clean" => l = "send"

RunnerShape ==
    /\ pc \in [Runners -> {"device"} \cup Under \cup Away]
    /\ skill \in [Runners -> DOMAIN Skills]
    /\ left \in [Runners -> Seq(Devices)]
    /\ seen \in [Runners -> {"none", "clean", "faulty"}]
    /\ passed \in [Runners -> Nat]
    /\ failed \in [Runners -> Nat]
    /\ entry \in [Runners -> ResultMap]

OtherShape ==
    /\ faulty \subseteq Devices /\ unreachable \subseteq Devices
    /\ age \in [Processes -> [Keys -> 0..Cooldown]]
    /\ heard \in [Processes -> [Keys -> 0..Cooldown]]
    /\ chat \in [Keys -> {"none", "clean", "faulty"}]
    /\ journal \in [Devices -> 0..Window]
    /\ entries \in [Devices -> Nat]

SoundRunner(r) == Sound(pc[r], skill[r], left[r], seen[r], passed[r], failed[r], entry[r])

RunnersSound == RunnerShape /\ \A r \in Runners : SoundRunner(r)

Posting(d) == {r \in Runners : pc[r] = "post" /\ Device(r) = d}

\* The entries of a window and those on their way.
Budget == \A d \in Devices :
    /\ entries[d] <= Cardinality(Runners)
    /\ journal[d] < Window => entries[d] + Cardinality(Posting(d)) <= Cardinality(Runners)

OneRunnerEach == \A r, q \in Runners : Process(r) = Process(q) => r = q

\* Time stamps are no older than the alerts they stand for, and a runner past
\* the look at one has nothing within the cooldown to come too close to.
Spaced ==
    /\ \A p \in Processes, k \in Keys : age[p][k] <= heard[p][k]
    /\ \A r \in Runners :
          /\ pc[r] = "stamp" => heard[Process(r)][Key(r)] = Cooldown
          /\ pc[r] = "send" /\ seen[r] = "faulty" =>
                age[Process(r)][Key(r)] = 0 /\ heard[Process(r)][Key(r)] = Cooldown

Inv == RunnersSound /\ OtherShape /\ Budget

-----------------------------------------------------------------------------
(* Constants, lists of devices, results.                                   *)

LEMMA SkillFacts ==
  ASSUME NEW i \in DOMAIN Skills
  PROVE  /\ Skills[i] \in SkillNames
         /\ Visits[Skills[i]] \in Seq(Devices)
         /\ Distinct(Visits[Skills[i]])
BY RunnerAssumption DEF SkillNames, Distinct

LEMMA FirstSkill == 1 \in DOMAIN Skills
BY RunnerAssumption, EmptySeq, LenProperties

LEMMA Nonempty ==
  ASSUME NEW t \in Seq(Devices), t # <<>>, Distinct(t)
  PROVE  /\ Head(t) \in Devices /\ Head(t) \in Members(t)
         /\ Tail(t) \in Seq(Devices) /\ Distinct(Tail(t))
         /\ Members(Tail(t)) = Members(t) \ {Head(t)}
<1>1. /\ Len(t) \in Nat \ {0} /\ DOMAIN t = 1..Len(t)
      /\ Head(t) = t[1] /\ t[1] \in Devices
  BY EmptySeq, LenProperties, ElementOfSeq
<1>2. /\ Tail(t) \in Seq(Devices) /\ DOMAIN Tail(t) = 1..(Len(t) - 1)
      /\ \A i \in 1..(Len(t) - 1) : Tail(t)[i] = t[i + 1]
  BY <1>1, HeadTailProperties
<1>3. Distinct(Tail(t))
  BY <1>1, <1>2 DEF Distinct
<1>4. ASSUME NEW x \in Members(Tail(t)) PROVE x \in Members(t) \ {Head(t)}
  BY <1>1, <1>2 DEF Members, Distinct
<1>5. ASSUME NEW x \in Members(t) \ {Head(t)} PROVE x \in Members(Tail(t))
  <2>1. PICK i \in 1..Len(t) : x = t[i]
    BY <1>1 DEF Members
  <2>2. i - 1 \in 1..(Len(t) - 1) /\ Tail(t)[i - 1] = x
    BY <1>1, <1>2, <2>1
  <2>3. QED
    BY <1>2, <2>2 DEF Members
<1>6. Members(Tail(t)) = Members(t) \ {Head(t)}
  BY <1>4, <1>5
<1>7. Head(t) \in Members(t)
  BY <1>1 DEF Members
<1>8. QED
  BY <1>1, <1>2, <1>3, <1>6, <1>7

LEMMA NoMembers ==
  ASSUME NEW t \in Seq(Devices), t = <<>>
  PROVE  Members(t) = {}
BY DEF Members

LEMMA HavingFinite ==
  ASSUME NEW e, NEW E
  PROVE  /\ IsFiniteSet(Having(e, E))
         /\ Cardinality(Having(e, E)) \in Nat
         /\ Cardinality(Having(e, E)) <= Cardinality(Devices)
         /\ Cardinality(Devices) \in Nat
BY RunnerAssumption, FS_Subset, FS_CardinalityType DEF Having

\* e becomes n: device d gets the result x.
Resulting(e, n, d, x) ==
    /\ n \in ResultMap /\ n[d] = x
    /\ \A c \in Devices \ {d} : n[c] = e[c]

\* Then there is one result more, if there was none.
LEMMA OneMore ==
  ASSUME NEW e \in ResultMap, NEW d \in Devices, e[d] = "none", NEW x \in Results,
         NEW n, Resulting(e, n, d, x), NEW E \in SUBSET Results
  PROVE  Cardinality(Having(n, E)) =
            Cardinality(Having(e, E)) + (IF x \in E THEN 1 ELSE 0)
<1>1. d \notin Having(e, E)
  BY DEF Having, Results
<1>2. CASE x \in E
  <2>1. Having(n, E) = Having(e, E) \cup {d}
    BY <1>2 DEF Having, Resulting
  <2>2. QED
    BY <1>1, <1>2, <2>1, HavingFinite, FS_AddElement
<1>3. CASE x \notin E
  <2>1. Having(n, E) = Having(e, E)
    BY <1>1, <1>3 DEF Having, Resulting
  <2>2. QED
    BY <1>3, <2>1, HavingFinite
<1>4. QED
  BY <1>2, <1>3

\* The next device of an agenda has no result yet.
LEMMA NextHasNone ==
  ASSUME NEW k \in DOMAIN Skills, NEW t \in Seq(Devices), NEW e \in ResultMap,
         Agenda(k, t, e), t # <<>>
  PROVE  Head(t) \in Devices /\ e[Head(t)] = "none"
BY Nonempty DEF Agenda, Having

\* Hence there is room for one more result.
LEMMA RoomForOne ==
  ASSUME NEW k \in DOMAIN Skills, NEW t \in Seq(Devices), NEW e \in ResultMap,
         Agenda(k, t, e), t # <<>>
  PROVE  Cardinality(Having(e, Results)) + 1 <= Cardinality(Devices)
<1>1. Head(t) \in Devices /\ e[Head(t)] = "none"
  BY NextHasNone
<1>2. Having(e, Results) \in SUBSET Devices /\ Head(t) \notin Having(e, Results)
  BY <1>1 DEF Having, Results
<1>3. Cardinality(Having(e, Results)) # Cardinality(Devices)
  BY <1>1, <1>2, RunnerAssumption, FS_Subset
<1>4. QED
  BY <1>3, HavingFinite

-----------------------------------------------------------------------------
(* What a step does to one runner.                                         *)

LEMMA Fresh ==
  ASSUME NEW k \in DOMAIN Skills, NEW v
  PROVE  Sound("device", k, Visits[Skills[k]], v, 0, 0, [d \in Devices |-> "none"])
<1> DEFINE e == [d \in Devices |-> "none"]
<1>1. Having(e, {"clean"}) = {} /\ Having(e, Results) = {} /\ Having(e, NotPassed) = {}
      /\ Having(e, {"none"}) = Devices
  BY DEF Having, Results, NotPassed
<1>2. Score("device", v, 0, 0, e)
  BY <1>1, FS_EmptySet DEF Score, CleanUnder, FaultUnder, Under
<1>3. Members(Visits[Skills[k]]) \subseteq Devices
  BY SkillFacts, ElementOfSeq, LenProperties DEF Members
<1>4. Agenda(k, Visits[Skills[k]], e)
  BY <1>1, <1>3, SkillFacts DEF Agenda
<1>5. QED
  BY <1>2, <1>4 DEF Sound, Away, Under

LEMMA AgendaAdvances ==
  ASSUME NEW k \in DOMAIN Skills, NEW t \in Seq(Devices), NEW e \in ResultMap,
         Agenda(k, t, e), t # <<>>, NEW x \in Results,
         NEW n, Resulting(e, n, Head(t), x)
  PROVE  Agenda(k, Tail(t), n)
<1>1. Head(t) \in Devices /\ Head(t) \in Members(t) /\ Distinct(Tail(t))
      /\ Members(Tail(t)) = Members(t) \ {Head(t)}
  BY Nonempty DEF Agenda
<1>2. Having(n, {"none"}) = Having(e, {"none"}) \ {Head(t)}
  BY <1>1 DEF Resulting, Having, Results
<1>3. QED
  BY <1>1, <1>2 DEF Agenda

\* A device gets its result, which is the verdict under way, or a failure
\* that has just been counted.
LEMMA Advance ==
  ASSUME NEW l \in {"device"} \cup Under, NEW k \in DOMAIN Skills, NEW t \in Seq(Devices),
         NEW v \in {"none", "clean", "faulty"}, NEW p \in Nat, NEW f \in Nat,
         NEW e \in ResultMap, Sound(l, k, t, v, p, f, e), t # <<>>,
         NEW x \in Results, NEW g \in Nat, NEW n, Resulting(e, n, Head(t), x),
         \/ g = f /\ l \in Under /\ x = v
         \/ g = f + 1 /\ l \in {"device", "send"} /\ x \in {"unreachable", "error"}
  PROVE  Sound("device", k, Tail(t), "none", p, g, n)
<1>1. Agenda(k, t, e) /\ Score(l, v, p, f, e)
  BY DEF Sound, Away, Under
<1>2. Agenda(k, Tail(t), n)
  BY <1>1, AgendaAdvances
<1>3. Head(t) \in Devices /\ e[Head(t)] = "none"
  BY <1>1, NextHasNone
<1>4. /\ Cardinality(Having(n, {"clean"})) =
            Cardinality(Having(e, {"clean"})) + (IF x = "clean" THEN 1 ELSE 0)
      /\ Cardinality(Having(n, NotPassed)) =
            Cardinality(Having(e, NotPassed)) + (IF x = "clean" THEN 0 ELSE 1)
      /\ Cardinality(Having(n, Results)) = Cardinality(Having(e, Results)) + 1
  <2>1. {"clean"} \in SUBSET Results /\ NotPassed \in SUBSET Results /\ Results \in SUBSET Results
        /\ (x \in NotPassed <=> x # "clean")
    BY DEF Results, NotPassed
  <2>2. QED
    BY <1>3, <2>1, OneMore
<1>5. Score("device", "none", p, g, n)
  <2>1. /\ Cardinality(Having(e, {"clean"})) \in Nat
        /\ Cardinality(Having(e, NotPassed)) \in Nat
        /\ Cardinality(Having(e, Results)) \in Nat
    BY HavingFinite
  <2>2. CASE g = f /\ l \in Under /\ x = v
    <3>1. v \in {"clean", "faulty"} /\ (v = "clean" => l = "send")
      BY <2>2 DEF Sound
    <3>2. QED
      BY <1>1, <1>4, <2>1, <2>2, <3>1 DEF Score, CleanUnder, FaultUnder, Under
  <2>3. CASE g = f + 1 /\ l \in {"device", "send"} /\ x \in {"unreachable", "error"}
    <3>1. l = "send" => v \in {"clean", "faulty"}
      BY <2>3 DEF Sound, Under
    <3>2. QED
      BY <1>1, <1>4, <2>1, <2>3, <3>1 DEF Score, CleanUnder, FaultUnder, Under
  <2>4. QED
    BY <2>2, <2>3
<1>6. QED
  BY <1>2, <1>5 DEF Sound, Away, Under

\* A verdict is counted.
LEMMA Counted ==
  ASSUME NEW k \in DOMAIN Skills, NEW t \in Seq(Devices),
         NEW v, NEW p \in Nat, NEW f \in Nat,
         NEW e \in ResultMap, Sound("device", k, t, v, p, f, e), t # <<>>
  PROVE  /\ Sound("send", k, t, "clean", p + 1, f, e)
         /\ Sound("limit", k, t, "faulty", p, f + 1, e)
<1>1. Agenda(k, t, e) /\ Score("device", v, p, f, e)
  BY DEF Sound, Away
<1>2. /\ Cardinality(Having(e, {"clean"})) \in Nat
      /\ Cardinality(Having(e, NotPassed)) \in Nat
      /\ Cardinality(Having(e, Results)) \in Nat
  BY HavingFinite
<1>3. Score("send", "clean", p + 1, f, e) /\ Score("limit", "faulty", p, f + 1, e)
  BY <1>1, <1>2 DEF Score, CleanUnder, FaultUnder, Under
<1>4. QED
  BY <1>1, <1>3 DEF Sound, Away, Under

\* A failure on its way through the notifier and the reconciler.
LEMMA OnItsWay ==
  ASSUME NEW l \in Under, NEW m \in Under, NEW k, NEW t, NEW p, NEW f, NEW e,
         Sound(l, k, t, "faulty", p, f, e)
  PROVE  Sound(m, k, t, "faulty", p, f, e)
BY DEF Sound, Score, CleanUnder, FaultUnder, Under, Away

-----------------------------------------------------------------------------
(* Every action changes one runner; Tick wakes those that sleep.           *)

Only(r) ==
    /\ pc' = [pc EXCEPT ![r] = pc'[r]] /\ skill' = [skill EXCEPT ![r] = skill'[r]]
    /\ left' = [left EXCEPT ![r] = left'[r]] /\ seen' = [seen EXCEPT ![r] = seen'[r]]
    /\ passed' = [passed EXCEPT ![r] = passed'[r]]
    /\ failed' = [failed EXCEPT ![r] = failed'[r]]
    /\ entry' = [entry EXCEPT ![r] = entry'[r]]

Typed(l, k, t, v, p, f, e) ==
    /\ l \in {"device"} \cup Under \cup Away /\ k \in DOMAIN Skills
    /\ t \in Seq(Devices) /\ v \in {"none", "clean", "faulty"}
    /\ p \in Nat /\ f \in Nat /\ e \in ResultMap

TypedRunner(r) == Typed(pc[r], skill[r], left[r], seen[r], passed[r], failed[r], entry[r])

LEMMA TypesOf ==
  ASSUME RunnersSound, NEW r \in Runners
  PROVE  /\ pc[r] \in {"device"} \cup Under \cup Away /\ skill[r] \in DOMAIN Skills
         /\ left[r] \in Seq(Devices) /\ seen[r] \in {"none", "clean", "faulty"}
         /\ passed[r] \in Nat /\ failed[r] \in Nat /\ entry[r] \in ResultMap
         /\ Sound(pc[r], skill[r], left[r], seen[r], passed[r], failed[r], entry[r])
         /\ pc[r] \in Under => left[r] # <<>> /\ seen[r] \in {"clean", "faulty"}
         /\ pc[r] \in Under /\ pc[r] # "send" => seen[r] = "faulty"
         /\ pc[r] \in Under \cup {"device"} /\ left[r] # <<>> =>
               Device(r) \in Devices /\ Key(r) \in Keys
<1>1. /\ pc[r] \in {"device"} \cup Under \cup Away /\ skill[r] \in DOMAIN Skills
      /\ left[r] \in Seq(Devices) /\ seen[r] \in {"none", "clean", "faulty"}
      /\ passed[r] \in Nat /\ failed[r] \in Nat /\ entry[r] \in ResultMap
      /\ Sound(pc[r], skill[r], left[r], seen[r], passed[r], failed[r], entry[r])
  BY DEF RunnersSound, RunnerShape, SoundRunner
<1>2. /\ pc[r] \in Under => left[r] # <<>> /\ seen[r] \in {"clean", "faulty"}
      /\ pc[r] \in Under /\ pc[r] # "send" => seen[r] = "faulty"
  BY <1>1 DEF Sound
<1>3. ASSUME pc[r] \in Under \cup {"device"}, left[r] # <<>>
      PROVE  Device(r) \in Devices /\ Key(r) \in Keys
  <2>1. Agenda(skill[r], left[r], entry[r])
    BY <1>1, <1>3 DEF Sound, Under, Away
  <2>2. Device(r) \in Devices
    BY <1>1, <1>3, <2>1, NextHasNone DEF Device
  <2>3. Skills[skill[r]] \in SkillNames
    BY <1>1, SkillFacts
  <2>4. QED
    BY <2>2, <2>3 DEF Key, Keys
<1>4. QED
  BY <1>1, <1>2, <1>3

LEMMA OneRunner ==
  ASSUME RunnersSound, NEW r \in Runners, Only(r), TypedRunner(r)', SoundRunner(r)'
  PROVE  RunnersSound'
<1>1. RunnerShape'
  BY DEF RunnersSound, RunnerShape, Only, TypedRunner, Typed
<1>2. ASSUME NEW q \in Runners PROVE SoundRunner(q)'
  <2>1. CASE q = r
    BY <2>1
  <2>2. CASE q # r
    <3>1. SoundRunner(q)
      BY DEF RunnersSound
    <3>2. /\ pc'[q] = pc[q] /\ skill'[q] = skill[q] /\ left'[q] = left[q]
          /\ seen'[q] = seen[q] /\ passed'[q] = passed[q] /\ failed'[q] = failed[q]
          /\ entry'[q] = entry[q]
      BY <2>2 DEF RunnersSound, RunnerShape, Only
    <3>3. QED
      BY <3>1, <3>2 DEF SoundRunner
  <2>3. QED
    BY <2>1, <2>2
<1>3. QED
  BY <1>1, <1>2 DEF RunnersSound

LEMMA Entering ==
  ASSUME RunnersSound, NEW r \in Runners, NEW i \in DOMAIN Skills, EnterSkill(r, i),
         UNCHANGED seen
  PROVE  RunnersSound'
<1>1. Only(r)
  BY DEF EnterSkill, Goto, Only, RunnersSound, RunnerShape
<1>2. /\ pc'[r] = "device" /\ skill'[r] = i /\ left'[r] = Visits[Skills[i]]
      /\ passed'[r] = 0 /\ failed'[r] = 0 /\ entry'[r] = [d \in Devices |-> "none"]
      /\ seen'[r] = seen[r]
  BY DEF EnterSkill, Goto, RunnersSound, RunnerShape
<1>3. SoundRunner(r)'
  BY <1>2, Fresh DEF SoundRunner
<1>4. TypedRunner(r)'
  BY <1>2, SkillFacts, TypesOf DEF TypedRunner, Typed, ResultMap
<1>5. QED
  BY <1>1, <1>3, <1>4, OneRunner

LEMMA Ending ==
  ASSUME RunnersSound, NEW r \in Runners, NEW l \in Away, EndRun(r, l), UNCHANGED seen
  PROVE  RunnersSound'
<1>1. Only(r)
  BY DEF EndRun, Goto, Only, RunnersSound, RunnerShape
<1>2. /\ pc'[r] = l /\ skill'[r] = 1 /\ left'[r] = <<>>
      /\ passed'[r] = 0 /\ failed'[r] = 0 /\ entry'[r] = [d \in Devices |-> "none"]
      /\ seen'[r] = seen[r]
  BY DEF EndRun, Goto, RunnersSound, RunnerShape
<1>3. SoundRunner(r)'
  BY <1>2 DEF SoundRunner, Sound, Away, Under
<1>4. TypedRunner(r)'
  BY <1>2, FirstSkill, TypesOf DEF TypedRunner, Typed, ResultMap
<1>5. QED
  BY <1>1, <1>3, <1>4, OneRunner

LEMMA Advancing ==
  ASSUME RunnersSound, NEW r \in Runners, pc[r] \in {"device"} \cup Under, left[r] # <<>>,
         NEW x \in Results, NEW g \in Nat,
         \/ g = failed[r] /\ pc[r] \in Under /\ x = seen[r]
         \/ g = failed[r] + 1 /\ pc[r] \in {"device", "send"} /\ x \in {"unreachable", "error"},
         NextDevice(r, x), failed' = [failed EXCEPT ![r] = g], UNCHANGED <<skill, passed>>
  PROVE  RunnersSound'
<1>0. /\ skill[r] \in DOMAIN Skills /\ left[r] \in Seq(Devices) /\ entry[r] \in ResultMap
      /\ seen[r] \in {"none", "clean", "faulty"} /\ passed[r] \in Nat /\ failed[r] \in Nat
      /\ Sound(pc[r], skill[r], left[r], seen[r], passed[r], failed[r], entry[r])
      /\ Device(r) \in Devices
  BY TypesOf
<1>1. Only(r)
  BY DEF NextDevice, Goto, Only, RunnersSound, RunnerShape
<1>2. /\ pc'[r] = "device" /\ skill'[r] = skill[r] /\ left'[r] = Tail(left[r])
      /\ seen'[r] = "none" /\ passed'[r] = passed[r] /\ failed'[r] = g
      /\ entry'[r] = [entry[r] EXCEPT ![Device(r)] = x]
  BY DEF NextDevice, Goto, RunnersSound, RunnerShape
<1>3. Resulting(entry[r], entry'[r], Head(left[r]), x)
  BY <1>0, <1>2 DEF Resulting, ResultMap, Device
<1>4. Sound("device", skill[r], Tail(left[r]), "none", passed[r], g, entry'[r])
  BY <1>0, <1>3, Advance
<1>5. SoundRunner(r)'
  BY <1>2, <1>4 DEF SoundRunner
<1>6. TypedRunner(r)'
  <2>1. Tail(left[r]) \in Seq(Devices)
    BY <1>0, HeadTailProperties
  <2>2. entry'[r] \in ResultMap
    BY <1>3 DEF Resulting
  <2>3. QED
    BY <1>0, <1>2, <2>1, <2>2 DEF TypedRunner, Typed
<1>7. QED
  BY <1>1, <1>5, <1>6, OneRunner

LEMMA Counting ==
  ASSUME RunnersSound, NEW r \in Runners, AtDevice(r), UNCHANGED <<skill, left, entry>>,
         \/ CountPass(r) /\ seen' = [seen EXCEPT ![r] = "clean"] /\ Goto(r, "send")
         \/ CountFail(r) /\ seen' = [seen EXCEPT ![r] = "faulty"] /\ Goto(r, "limit")
  PROVE  RunnersSound'
<1>0. /\ skill[r] \in DOMAIN Skills /\ left[r] \in Seq(Devices) /\ entry[r] \in ResultMap
      /\ passed[r] \in Nat /\ failed[r] \in Nat
      /\ Sound("device", skill[r], left[r], seen[r], passed[r], failed[r], entry[r])
      /\ left[r] # <<>>
  BY TypesOf DEF AtDevice
<1>1. Only(r)
  BY DEF CountPass, CountFail, Goto, Only, RunnersSound, RunnerShape
<1>2. /\ skill'[r] = skill[r] /\ left'[r] = left[r] /\ entry'[r] = entry[r]
      /\ \/ /\ passed'[r] = passed[r] + 1 /\ failed'[r] = failed[r]
            /\ seen'[r] = "clean" /\ pc'[r] = "send"
         \/ /\ passed'[r] = passed[r] /\ failed'[r] = failed[r] + 1
            /\ seen'[r] = "faulty" /\ pc'[r] = "limit"
  BY DEF CountPass, CountFail, Goto, RunnersSound, RunnerShape
<1>3. /\ Sound("send", skill[r], left[r], "clean", passed[r] + 1, failed[r], entry[r])
      /\ Sound("limit", skill[r], left[r], "faulty", passed[r], failed[r] + 1, entry[r])
  BY <1>0, Counted
<1>4. SoundRunner(r)'
  BY <1>2, <1>3 DEF SoundRunner
<1>5. TypedRunner(r)'
  BY <1>0, <1>2 DEF TypedRunner, Typed, Under
<1>6. QED
  BY <1>1, <1>4, <1>5, OneRunner

LEMMA Going ==
  ASSUME RunnersSound, NEW r \in Runners, NEW l \in Under, pc[r] \in Under,
         seen[r] = "faulty", Goto(r, l), UNCHANGED <<skill, left, seen, resultVars>>
  PROVE  RunnersSound'
<1>1. Only(r)
  BY DEF Goto, Only, RunnersSound, RunnerShape, resultVars
<1>2. /\ pc'[r] = l /\ skill'[r] = skill[r] /\ left'[r] = left[r] /\ seen'[r] = seen[r]
      /\ passed'[r] = passed[r] /\ failed'[r] = failed[r] /\ entry'[r] = entry[r]
  BY DEF Goto, RunnersSound, RunnerShape, resultVars
<1>3. SoundRunner(r)'
  <2>1. Sound(pc[r], skill[r], left[r], "faulty", passed[r], failed[r], entry[r])
    BY TypesOf
  <2>2. Sound(l, skill[r], left[r], "faulty", passed[r], failed[r], entry[r])
    BY <2>1, OnItsWay
  <2>3. QED
    BY <1>2, <2>2 DEF SoundRunner
<1>4. TypedRunner(r)'
  BY <1>2, TypesOf DEF TypedRunner, Typed
<1>5. QED
  BY <1>1, <1>3, <1>4, OneRunner

LEMMA Alerting ==
  ASSUME RunnersSound, NEW r \in Runners, pc[r] \in {"limit", "send"}, Alerted(r),
         UNCHANGED <<skill, passed, failed>>
  PROVE  RunnersSound'
<1>1. pc[r] \in Under /\ "journal" \in Under
  BY DEF Under
<1>2. CASE /\ seen[r] = "faulty"
           /\ Goto(r, "journal") /\ UNCHANGED <<entry, left, seen>>
  BY <1>1, <1>2, Going DEF resultVars
<1>3. CASE NextDevice(r, seen[r])
  <2>1. failed' = [failed EXCEPT ![r] = failed[r]]
    BY DEF RunnersSound, RunnerShape
  <2>2. seen[r] \in Results /\ left[r] # <<>>
    BY <1>1, TypesOf DEF Results
  <2>3. QED
    BY <1>1, <1>3, <2>1, <2>2, TypesOf, Advancing
<1>4. QED
  BY <1>2, <1>3 DEF Alerted

LEMMA Failing ==
  ASSUME RunnersSound, NEW r \in Runners, NEW x \in {"unreachable", "error"},
         AtDevice(r) \/ pc[r] = "send", CountFail(r), NextDevice(r, x), UNCHANGED skill
  PROVE  RunnersSound'
<1>1. pc[r] \in {"device", "send"} /\ left[r] # <<>>
  BY TypesOf DEF AtDevice, Under
<1>2. /\ failed' = [failed EXCEPT ![r] = failed[r] + 1] /\ failed[r] + 1 \in Nat
      /\ UNCHANGED passed
  BY TypesOf DEF CountFail
<1>3. x \in Results /\ pc[r] \in {"device"} \cup Under
  BY <1>1 DEF Results, Under
<1>4. QED
  BY <1>1, <1>2, <1>3, Advancing

LEMMA Reconciliation ==
  ASSUME RunnersSound, NEW r \in Runners, pc[r] \in {"journal", "post", "blind"},
         Reconciled(r)
  PROVE  RunnersSound'
<1>1. pc[r] \in Under /\ seen[r] = "faulty" /\ left[r] # <<>> /\ "faulty" \in Results
  BY TypesOf DEF Under, Results
<1>2. failed' = [failed EXCEPT ![r] = failed[r]] /\ UNCHANGED <<skill, passed>>
  BY DEF RunnersSound, RunnerShape, Reconciled
<1>3. QED
  BY <1>1, <1>2, TypesOf, Advancing DEF Reconciled

LEMMA RunnerActs ==
  ASSUME RunnersSound, NEW r \in Runners, Start(r) \/ Progress(r) \/ Raise(r)
  PROVE  RunnersSound'
<1>1. CASE Start(r)
  <2>1. UNCHANGED seen /\ \E i \in DOMAIN Skills : EnterSkill(r, i)
    BY <1>1, FirstSkill DEF Start
  <2>2. QED
    BY <2>1, Entering
<1>2. CASE Unreachable(r)
  BY <1>2, Failing DEF Unreachable
<1>3. CASE Passes(r)
  BY <1>3, Counting DEF Passes
<1>4. CASE Fails(r)
  BY <1>4, Counting DEF Fails
<1>5. CASE RateLimited(r)
  BY <1>5, Alerting DEF RateLimited
<1>6. CASE NotLimited(r)
  <2>1. pc[r] \in Under /\ pc[r] # "send" /\ "stamp" \in Under
    BY <1>6 DEF NotLimited, Under
  <2>2. QED
    BY <1>6, <2>1, TypesOf, Going DEF NotLimited
<1>7. CASE Stamp(r)
  <2>1. pc[r] \in Under /\ pc[r] # "send" /\ "send" \in Under
    BY <1>7 DEF Stamp, Under
  <2>2. QED
    BY <1>7, <2>1, TypesOf, Going DEF Stamp
<1>8. CASE Delivered(r)
  BY <1>8, Alerting DEF Delivered
<1>9. CASE Refused(r)
  BY <1>9, Alerting DEF Refused
<1>10. CASE Summary(r)
  <2>1. CASE skill[r] < Len(Skills) /\ EnterSkill(r, skill[r] + 1)
    <3>1. DOMAIN Skills = 1..Len(Skills) /\ Len(Skills) \in Nat
      BY RunnerAssumption, LenProperties
    <3>2. skill[r] + 1 \in DOMAIN Skills
      BY <2>1, <3>1, TypesOf
    <3>3. QED
      BY <1>10, <2>1, <3>2, Entering DEF Summary
  <2>2. CASE EndRun(r, "sleep")
    BY <1>10, <2>2, Ending DEF Summary, Away
  <2>3. QED
    BY <1>10, <2>1, <2>2 DEF Summary
<1>11. CASE ToolReturns(r)
  BY <1>11, Ending DEF ToolReturns, Away
<1>12. CASE Duplicate(r)
  BY <1>12, Reconciliation DEF Duplicate
<1>13. CASE NewDrift(r)
  <2>1. pc[r] \in Under /\ pc[r] # "send" /\ {"post", "blind"} \subseteq Under
    BY <1>13 DEF NewDrift, Under
  <2>2. QED
    BY <1>13, <2>1, TypesOf, Going DEF NewDrift
<1>14. CASE Post(r)
  BY <1>14, Reconciliation DEF Post
<1>15. CASE CheckRaises(r)
  BY <1>15, Failing DEF CheckRaises
<1>16. CASE SendRaises(r)
  BY <1>16, Failing DEF SendRaises
<1>17. CASE ConnectRaises(r)
  BY <1>17, Ending DEF ConnectRaises, Away
<1>18. CASE SummaryRaises(r)
  BY <1>18, Ending DEF SummaryRaises, Away
<1>19. CASE NetBoxFails(r)
  BY <1>19, Reconciliation DEF NetBoxFails
<1>20. QED
  BY <1>1, <1>2, <1>3, <1>4, <1>5, <1>6, <1>7, <1>8, <1>9, <1>10, <1>11, <1>12, <1>13,
     <1>14, <1>15, <1>16, <1>17, <1>18, <1>19
     DEF Progress, Raise

LEMMA Ticking ==
  ASSUME RunnersSound, Tick
  PROVE  RunnersSound'
<1>1. RunnerShape'
  BY DEF RunnersSound, RunnerShape, Tick, resultVars, Away
<1>2. ASSUME NEW q \in Runners PROVE SoundRunner(q)'
  <2>1. /\ skill'[q] = skill[q] /\ left'[q] = left[q] /\ seen'[q] = seen[q]
        /\ passed'[q] = passed[q] /\ failed'[q] = failed[q] /\ entry'[q] = entry[q]
        /\ pc'[q] = IF pc[q] = "sleep" THEN "idle" ELSE pc[q]
    BY DEF Tick, resultVars
  <2>2. SoundRunner(q)
    BY DEF RunnersSound
  <2>3. QED
    BY <2>1, <2>2 DEF SoundRunner, Sound, Away, Under
<1>3. QED
  BY <1>1, <1>2 DEF RunnersSound

LEMMA RunnersStaySound ==
  ASSUME RunnersSound, [Next]_vars
  PROVE  RunnersSound'
<1>1. CASE \E r \in Runners : Start(r) \/ Progress(r) \/ Raise(r)
  BY <1>1, RunnerActs
<1>2. CASE Tick
  BY <1>2, Ticking
<1>3. CASE World \/ UNCHANGED vars
  <2>1. UNCHANGED <<pc, skill, left, seen, passed, failed, entry>>
    BY <1>3 DEF World, vars, resultVars
  <2>2. QED
    BY <2>1 DEF RunnersSound, RunnerShape, SoundRunner
<1>4. QED
  BY <1>1, <1>2, <1>3 DEF Next

-----------------------------------------------------------------------------
(* The rest of the state has its type.                                     *)

LEMMA Aging ==
  ASSUME NEW n \in Nat, NEW a \in 0..n
  PROVE  Older(a, n) \in 0..n /\ (Older(a, n) < n => a < n)
BY DEF Older

LEMMA OthersKeepShape ==
  ASSUME RunnersSound, OtherShape, [Next]_vars
  PROVE  OtherShape'
<1> USE DEF OtherShape
<1>1. CASE UNCHANGED <<faulty, unreachable, age, heard, chat, journal, entries>>
  BY <1>1
<1>2. Cooldown \in Nat /\ Window \in Nat /\ 0 \in 0..Cooldown /\ 0 \in 0..Window
  BY RunnerAssumption
<1>3. ASSUME NEW r \in Runners PROVE Process(r) \in Processes
  BY DEF Runners, Process, Processes
<1>4. ASSUME NEW r \in Runners, Stamp(r) PROVE OtherShape'
  <2>1. Key(r) \in Keys /\ age' = [age EXCEPT ![Process(r)][Key(r)] = 0]
    BY <1>4, TypesOf DEF Stamp, Under
  <2>2. UNCHANGED <<faulty, unreachable, heard, chat, journal, entries>>
    BY <1>4 DEF Stamp, worldVars, chatVars, netboxVars
  <2>3. QED
    BY <1>2, <1>3, <2>1, <2>2
<1>5. ASSUME NEW r \in Runners, Delivered(r) PROVE OtherShape'
  <2>1. Key(r) \in Keys /\ seen[r] \in {"clean", "faulty"}
    BY <1>5, TypesOf DEF Delivered, Under
  <2>2. /\ chat' = [chat EXCEPT ![Key(r)] = seen[r]]
        /\ heard' \in {heard, [heard EXCEPT ![Process(r)][Key(r)] = 0]}
        /\ UNCHANGED <<faulty, unreachable, age, journal, entries>>
    BY <1>5 DEF Delivered, worldVars, netboxVars
  <2>3. heard' \in [Processes -> [Keys -> 0..Cooldown]]
    <3>1. Process(r) \in Processes /\ Key(r) \in Keys
      BY <1>3, <2>1
    <3>2. CASE heard' = heard
      BY <3>2
    <3>3. CASE heard' = [heard EXCEPT ![Process(r)][Key(r)] = 0]
      BY <1>2, <3>1, <3>3
    <3>4. QED
      BY <2>2, <3>2, <3>3
  <2>4. QED
    BY <2>1, <2>2, <2>3
<1>6. ASSUME NEW r \in Runners, Post(r) PROVE OtherShape'
  <2>1. Device(r) \in Devices
    BY <1>6, TypesOf DEF Post, Under
  <2>2. /\ journal' = [journal EXCEPT ![Device(r)] = 0]
        /\ UNCHANGED <<faulty, unreachable, age, heard, chat>>
    BY <1>6 DEF Post, Reconciled, worldVars, chatVars
  <2>3. PICK n \in Nat : entries' = [entries EXCEPT ![Device(r)] = n]
    <3> DEFINE recent == IF journal[Device(r)] = Window THEN 0 ELSE entries[Device(r)]
               n == IF pc[r] = "blind" \/ recent > Cardinality(Runners)
                    THEN recent ELSE recent + 1
    <3>1. entries[Device(r)] \in Nat
      BY <2>1
    <3>2. n \in Nat
      BY <3>1
    <3>3. entries' = [entries EXCEPT ![Device(r)] = n]
      BY <1>6 DEF Post
    <3> HIDE DEF n
    <3>4. QED
      BY <3>2, <3>3
  <2>4. journal' \in [Devices -> 0..Window]
    BY <1>2, <2>1, <2>2
  <2>5. entries' \in [Devices -> Nat]
    BY <2>1, <2>3
  <2>6. QED
    BY <2>2, <2>4, <2>5
<1>7. CASE Tick
  <2>1. age' \in [Processes -> [Keys -> 0..Cooldown]]
    BY <1>2, <1>7, Aging DEF Tick
  <2>2. heard' \in [Processes -> [Keys -> 0..Cooldown]]
    BY <1>2, <1>7, Aging DEF Tick
  <2>3. journal' \in [Devices -> 0..Window]
    BY <1>2, <1>7, Aging DEF Tick
  <2>4. UNCHANGED <<faulty, unreachable, chat, entries>>
    BY <1>7 DEF Tick, worldVars
  <2>5. QED
    BY <2>1, <2>2, <2>3, <2>4
<1>8. CASE World
  <2>1. UNCHANGED <<age, heard, chat, journal, entries>>
    BY <1>8 DEF World, chatVars, netboxVars
  <2>2. QED
    BY <1>8, <2>1 DEF World
<1>9. ASSUME NEW r \in Runners, Start(r) \/ Progress(r) \/ Raise(r),
             ~Stamp(r), ~Delivered(r), ~Post(r)
      PROVE  UNCHANGED <<faulty, unreachable, age, heard, chat, journal, entries>>
  BY <1>9 DEF Progress, Raise, Start, Unreachable, Passes, Fails, RateLimited, NotLimited,
     Refused, Summary, ToolReturns, Duplicate, NewDrift, CheckRaises, SendRaises,
     ConnectRaises, SummaryRaises, NetBoxFails, Reconciled, worldVars, chatVars, netboxVars
<1>10. CASE UNCHANGED vars
  BY <1>1, <1>10 DEF vars, worldVars, chatVars, netboxVars
<1>11. QED
  BY <1>1, <1>4, <1>5, <1>6, <1>7, <1>8, <1>9, <1>10 DEF Next

-----------------------------------------------------------------------------
(* Entries of the journal.                                                 *)

LEMMA PostingFinite ==
  ASSUME NEW d
  PROVE  /\ IsFiniteSet(Posting(d)) /\ Cardinality(Posting(d)) \in Nat
         /\ Cardinality(Posting(d)) <= Cardinality(Runners)
         /\ Cardinality(Runners) \in Nat
BY RunnerAssumption, FS_Subset, FS_CardinalityType DEF Posting

\* Nobody joins those about to post: there are no more of them.
LEMMA BudgetHolds ==
  ASSUME OtherShape, Budget, UNCHANGED <<journal, entries>>,
         \A d \in Devices : journal[d] < Window => Posting(d)' \subseteq Posting(d)
  PROVE  Budget'
<1> SUFFICES ASSUME NEW d \in Devices, journal[d] < Window
             PROVE  entries[d] + Cardinality(Posting(d)') <= Cardinality(Runners)
  BY DEF Budget
<1>1. entries[d] + Cardinality(Posting(d)) <= Cardinality(Runners) /\ entries[d] \in Nat
  BY DEF Budget, OtherShape
<1>2. Cardinality(Posting(d)') <= Cardinality(Posting(d)) /\ Cardinality(Posting(d)') \in Nat
  BY PostingFinite, FS_Subset, FS_CardinalityType
<1>3. QED
  BY <1>1, <1>2, PostingFinite

\* A runner that goes elsewhere than to "post".
LEMMA NoneJoins ==
  ASSUME RunnersSound, NEW r \in Runners,
         DOMAIN pc' = Runners, pc'[r] # "post",
         \A q \in Runners \ {r} : pc'[q] = pc[q] /\ left'[q] = left[q],
         NEW d \in Devices
  PROVE  Posting(d)' = Posting(d) \ {r}
BY DEF Posting, Device

LEMMA BudgetKept ==
  ASSUME RunnersSound, OtherShape, Budget, [Next]_vars
  PROVE  Budget'
<1>1. ASSUME NEW r \in Runners, Post(r) PROVE Budget'
  <2>1. PICK c \in Devices : c = Device(r)
    BY <1>1, TypesOf DEF Post, Under
  <2> DEFINE recent == IF journal[c] = Window THEN 0 ELSE entries[c]
  <2>2. /\ journal' = [journal EXCEPT ![c] = 0]
        /\ entries' = [entries EXCEPT ![c] =
              IF pc[r] = "blind" \/ recent > Cardinality(Runners) THEN recent ELSE recent + 1]
    BY <1>1, <2>1 DEF Post
  <2>3. /\ DOMAIN pc' = Runners /\ pc'[r] = "device"
        /\ \A q \in Runners \ {r} : pc'[q] = pc[q] /\ left'[q] = left[q]
    BY <1>1 DEF Post, Reconciled, NextDevice, Goto, RunnersSound, RunnerShape
  <2>4. ASSUME NEW d \in Devices PROVE Posting(d)' = Posting(d) \ {r}
    BY <2>3, NoneJoins
  <2>5. ASSUME NEW d \in Devices, d # c
        PROVE  /\ entries'[d] <= Cardinality(Runners)
               /\ journal'[d] < Window =>
                    entries'[d] + Cardinality(Posting(d)') <= Cardinality(Runners)
    <3>1. entries'[d] = entries[d] /\ journal'[d] = journal[d]
      BY <2>2, <2>5 DEF OtherShape
    <3>2. r \notin Posting(d)
      BY <2>1, <2>5 DEF Posting
    <3>3. Posting(d)' = Posting(d)
      BY <2>4, <3>2
    <3>4. QED
      BY <3>1, <3>3 DEF Budget
  <2>6. /\ entries'[c] <= Cardinality(Runners)
        /\ entries'[c] + Cardinality(Posting(c)') <= Cardinality(Runners)
    <3>1. /\ entries[c] \in Nat /\ journal[c] \in 0..Window
          /\ entries'[c] = IF pc[r] = "blind" \/ recent > Cardinality(Runners)
                           THEN recent ELSE recent + 1
      BY <2>1, <2>2 DEF OtherShape
    <3>2. /\ Cardinality(Posting(c)) \in Nat /\ Cardinality(Runners) \in Nat
          /\ Cardinality(Posting(c)) <= Cardinality(Runners) /\ IsFiniteSet(Posting(c))
      BY PostingFinite
    <3>3. recent \in Nat /\ recent + Cardinality(Posting(c)) <= Cardinality(Runners)
      BY <2>1, <3>1, <3>2, RunnerAssumption DEF Budget
    <3>4. CASE pc[r] = "blind"
      <4>1. r \notin Posting(c)
        BY <3>4 DEF Posting
      <4>2. Posting(c)' = Posting(c)
        BY <2>1, <2>4, <4>1
      <4>3. QED
        BY <3>1, <3>2, <3>3, <3>4, <4>2
    <3>5. CASE pc[r] = "post"
      <4>1. r \in Posting(c)
        BY <2>1, <3>5 DEF Posting
      <4>2. Cardinality(Posting(c)') = Cardinality(Posting(c)) - 1
        BY <2>1, <2>4, <3>2, <4>1, FS_RemoveElement
      <4>3. Cardinality(Posting(c)) # 0
        BY <3>2, <4>1, FS_EmptySet
      <4>4. QED
        BY <3>1, <3>2, <3>3, <3>5, <4>2, <4>3
    <3>6. QED
      BY <1>1, <3>4, <3>5 DEF Post
  <2>7. QED
    BY <2>5, <2>6 DEF Budget
<1>2. ASSUME NEW r \in Runners, NewDrift(r) PROVE Budget'
  <2>1. UNCHANGED <<journal, entries>>
    BY <1>2 DEF NewDrift, netboxVars
  <2>2. ASSUME NEW d \in Devices, journal[d] < Window PROVE Posting(d)' \subseteq Posting(d)
    <3>1. UNCHANGED left /\ \A q \in Runners \ {r} : pc'[q] = pc[q]
      BY <1>2 DEF NewDrift, Goto, RunnersSound, RunnerShape
    <3>2. pc'[r] = "post" => journal[Device(r)] = Window
      BY <1>2 DEF NewDrift, Goto, RunnersSound, RunnerShape
    <3>3. Window \in Nat /\ journal[d] # Window
      BY <2>2, RunnerAssumption DEF OtherShape
    <3>4. QED
      BY <3>1, <3>2, <3>3 DEF Posting, Device
  <2>3. QED
    BY <2>1, <2>2, BudgetHolds
<1>3. ASSUME NEW r \in Runners, Start(r) \/ Progress(r) \/ Raise(r), ~Post(r), ~NewDrift(r)
      PROVE  Budget'
  <2>1. UNCHANGED <<journal, entries>>
    BY <1>3 DEF Progress, Raise, Start, Unreachable, Passes, Fails, RateLimited, NotLimited,
       Stamp, Delivered, Refused, Summary, ToolReturns, Duplicate, CheckRaises, SendRaises,
       ConnectRaises, SummaryRaises, NetBoxFails, Reconciled, netboxVars
  <2>2. /\ DOMAIN pc' = Runners /\ pc'[r] # "post"
        /\ \A q \in Runners \ {r} : pc'[q] = pc[q] /\ left'[q] = left[q]
    BY <1>3 DEF Progress, Raise, Start, Unreachable, Passes, Fails, RateLimited, NotLimited,
       Stamp, Delivered, Refused, Summary, ToolReturns, Duplicate, CheckRaises, SendRaises,
       ConnectRaises, SummaryRaises, NetBoxFails, Reconciled, Alerted, NextDevice, Goto,
       EnterSkill, EndRun, RunnersSound, RunnerShape
  <2>3. \A d \in Devices : Posting(d)' \subseteq Posting(d)
    BY <2>2, NoneJoins
  <2>4. QED
    BY <2>1, <2>3, BudgetHolds
<1>4. CASE Tick
  <2>1. UNCHANGED entries /\ \A d \in Devices : Posting(d)' = {} /\ Posting(d) = {}
    BY <1>4 DEF Tick, Posting
  <2>2. ASSUME NEW d \in Devices PROVE journal'[d] < Window => journal[d] < Window
    BY <1>4, Aging, RunnerAssumption DEF Tick, OtherShape
  <2>3. QED
    BY <2>1, <2>2 DEF Budget
<1>5. CASE World \/ UNCHANGED vars
  <2>1. UNCHANGED <<pc, left, journal, entries>>
    BY <1>5 DEF World, vars, netboxVars
  <2>2. \A d \in Devices : Posting(d)' = Posting(d)
    BY <2>1 DEF Posting, Device
  <2>3. QED
    BY <2>1, <2>2, BudgetHolds
<1>6. QED
  BY <1>1, <1>2, <1>3, <1>4, <1>5 DEF Next

-----------------------------------------------------------------------------
(* Alerts.                                                                 *)

AlertStep ==
    \A p \in Processes, k \in Keys : heard'[p][k] < heard[p][k] => heard[p][k] = Cooldown

\* What Spaced asks of one runner.
Expects(r) ==
    /\ pc[r] = "stamp" => heard[Process(r)][Key(r)] = Cooldown
    /\ pc[r] = "send" /\ seen[r] = "faulty" =>
          age[Process(r)][Key(r)] = 0 /\ heard[Process(r)][Key(r)] = Cooldown

LEMMA OtherRunners ==
  ASSUME RunnersSound, OtherShape, Spaced, OneRunnerEach, NEW r \in Runners,
         \A q \in Runners \ {r} : /\ pc'[q] = pc[q] /\ skill'[q] = skill[q]
                                  /\ left'[q] = left[q] /\ seen'[q] = seen[q],
         \A p \in Processes \ {Process(r)} : age'[p] = age[p] /\ heard'[p] = heard[p],
         NEW q \in Runners \ {r}
  PROVE  Expects(q)'
<1>1. Process(q) \in Processes \ {Process(r)}
  BY DEF OneRunnerEach, Process, Processes, Runners
<1>2. Expects(q)
  BY DEF Spaced, Expects
<1>3. Key(q)' = Key(q)
  BY DEF Key, Device
<1>4. QED
  BY <1>1, <1>2, <1>3 DEF Expects

LEMMA SpacingKept ==
  ASSUME RunnersSound, OtherShape, Spaced, OneRunnerEach, [Next]_vars
  PROVE  Spaced' /\ AlertStep
<1>1. Cooldown \in Nat
  BY RunnerAssumption
<1>2. ASSUME NEW r \in Runners PROVE Process(r) \in Processes /\ Expects(r)
  BY DEF Runners, Process, Processes, Spaced, Expects
<1>3. ASSUME NEW p \in Processes, NEW k \in Keys
      PROVE  /\ age[p][k] \in 0..Cooldown /\ heard[p][k] \in 0..Cooldown
             /\ age[p][k] <= heard[p][k]
  BY DEF OtherShape, Spaced
<1>4. ASSUME UNCHANGED <<age, heard>>, \A r \in Runners : Expects(r)'
      PROVE  Spaced' /\ AlertStep
  BY <1>1, <1>3, <1>4 DEF Spaced, Expects, AlertStep
<1>5. ASSUME NEW r \in Runners, NotLimited(r) PROVE Spaced' /\ AlertStep
  <2>1. UNCHANGED <<skill, left, seen, age, heard>> /\ pc' = [pc EXCEPT ![r] = "stamp"]
    BY <1>5 DEF NotLimited, Goto, chatVars
  <2>2. Key(r) \in Keys /\ age[Process(r)][Key(r)] = Cooldown
    BY <1>5, TypesOf DEF NotLimited, Under
  <2>3. heard[Process(r)][Key(r)] = Cooldown
    BY <1>1, <1>2, <1>3, <2>2
  <2>4. pc'[r] = "stamp" /\ Key(r)' = Key(r)
    BY <2>1 DEF RunnersSound, RunnerShape, Key, Device
  <2>5. Expects(r)'
    BY <2>1, <2>3, <2>4 DEF Expects
  <2>6. ASSUME NEW q \in Runners \ {r} PROVE Expects(q)'
    BY <2>1, OtherRunners DEF RunnersSound, RunnerShape
  <2>7. QED
    BY <1>4, <2>1, <2>5, <2>6
<1>6. ASSUME NEW r \in Runners, Stamp(r) PROVE Spaced' /\ AlertStep
  <2>1. /\ UNCHANGED <<skill, left, seen, heard>> /\ pc' = [pc EXCEPT ![r] = "send"]
        /\ age' = [age EXCEPT ![Process(r)][Key(r)] = 0]
    BY <1>6 DEF Stamp, Goto, chatVars
  <2>2. Key(r) \in Keys /\ heard[Process(r)][Key(r)] = Cooldown
    BY <1>2, <1>6, TypesOf DEF Stamp, Under, Expects
  <2>3. ASSUME NEW p \in Processes, NEW k \in Keys
        PROVE  age'[p][k] = IF p = Process(r) /\ k = Key(r) THEN 0 ELSE age[p][k]
    BY <1>2, <2>1, <2>2 DEF OtherShape
  <2>4. Key(r)' = Key(r)
    BY <2>1 DEF Key, Device
  <2>5. Expects(r)'
    BY <1>2, <2>1, <2>2, <2>3, <2>4 DEF Expects
  <2>6. \A p \in Processes \ {Process(r)} : age'[p] = age[p]
    BY <2>1 DEF OtherShape
  <2>7. ASSUME NEW q \in Runners \ {r} PROVE Expects(q)'
    BY <2>1, <2>6, OtherRunners DEF RunnersSound, RunnerShape
  <2>8. \A p \in Processes, k \in Keys : age'[p][k] <= heard'[p][k]
    BY <1>1, <1>3, <2>1, <2>3
  <2>9. QED
    BY <1>1, <1>3, <2>1, <2>5, <2>7, <2>8 DEF Spaced, Expects, AlertStep
<1>7. ASSUME NEW r \in Runners, Delivered(r) PROVE Spaced' /\ AlertStep
  <2>1. /\ UNCHANGED <<skill, age>>
        /\ heard' = IF seen[r] = "faulty" THEN [heard EXCEPT ![Process(r)][Key(r)] = 0]
                    ELSE heard
    BY <1>7 DEF Delivered
  <2>2. /\ pc'[r] \in {"journal", "device"}
        /\ \A q \in Runners \ {r} : /\ pc'[q] = pc[q] /\ skill'[q] = skill[q]
                                    /\ left'[q] = left[q] /\ seen'[q] = seen[q]
    BY <1>7, <2>1 DEF Delivered, Alerted, NextDevice, Goto, RunnersSound, RunnerShape
  <2>3. /\ Key(r) \in Keys
        /\ seen[r] = "faulty" =>
              age[Process(r)][Key(r)] = 0 /\ heard[Process(r)][Key(r)] = Cooldown
    BY <1>2, <1>7, TypesOf DEF Delivered, Under, Expects
  <2>4. ASSUME NEW p \in Processes, NEW k \in Keys
        PROVE  heard'[p][k] = IF seen[r] = "faulty" /\ p = Process(r) /\ k = Key(r)
                              THEN 0 ELSE heard[p][k]
    BY <1>2, <2>1, <2>3 DEF OtherShape
  <2>5. Expects(r)'
    BY <2>2 DEF Expects
  <2>6. \A p \in Processes \ {Process(r)} : heard'[p] = heard[p]
    BY <2>1 DEF OtherShape
  <2>7. ASSUME NEW q \in Runners \ {r} PROVE Expects(q)'
    BY <2>1, <2>2, <2>6, OtherRunners
  <2>8. \A p \in Processes, k \in Keys : age'[p][k] <= heard'[p][k]
    BY <1>1, <1>3, <2>1, <2>3, <2>4
  <2>9. AlertStep
    BY <1>1, <1>3, <2>3, <2>4 DEF AlertStep
  <2>10. QED
    BY <2>5, <2>7, <2>8, <2>9 DEF Spaced, Expects
<1>8. ASSUME NEW r \in Runners, Start(r) \/ Progress(r) \/ Raise(r),
             ~NotLimited(r), ~Stamp(r), ~Delivered(r)
      PROVE  Spaced' /\ AlertStep
  <2>1. UNCHANGED <<age, heard>>
    BY <1>8 DEF Progress, Raise, Start, Unreachable, Passes, Fails, RateLimited,
       Refused, Summary, ToolReturns, Duplicate, NewDrift, Post, CheckRaises, SendRaises,
       ConnectRaises, SummaryRaises, NetBoxFails, Reconciled, chatVars
  <2>2. /\ pc'[r] # "stamp" /\ (pc'[r] = "send" => seen'[r] = "clean")
        /\ \A q \in Runners \ {r} : /\ pc'[q] = pc[q] /\ skill'[q] = skill[q]
                                    /\ left'[q] = left[q] /\ seen'[q] = seen[q]
    BY <1>8 DEF Progress, Raise, Start, Unreachable, Passes, Fails, RateLimited,
       Refused, Summary, ToolReturns, Duplicate, NewDrift, Post, CheckRaises, SendRaises,
       ConnectRaises, SummaryRaises, NetBoxFails, Reconciled, Alerted, NextDevice, Goto,
       EnterSkill, EndRun, RunnersSound, RunnerShape, resultVars
  <2>3. Expects(r)'
    BY <2>2 DEF Expects
  <2>4. ASSUME NEW q \in Runners \ {r} PROVE Expects(q)'
    BY <2>1, <2>2, OtherRunners
  <2>5. QED
    BY <1>4, <2>1, <2>3, <2>4
<1>9. CASE Tick
  <2>1. \A r \in Runners : pc'[r] \notin {"stamp", "send"}
    BY <1>9 DEF Tick
  <2>2. ASSUME NEW p \in Processes, NEW k \in Keys
        PROVE  age'[p][k] <= heard'[p][k] /\ ~(heard'[p][k] < heard[p][k])
    <3>1. age'[p][k] = Older(age[p][k], Cooldown) /\ heard'[p][k] = Older(heard[p][k], Cooldown)
      BY <1>9 DEF Tick
    <3>2. QED
      BY <1>1, <1>3, <3>1 DEF Older
  <2>3. QED
    BY <2>1, <2>2 DEF Spaced, AlertStep
<1>10. CASE World \/ UNCHANGED vars
  <2>1. UNCHANGED <<pc, skill, left, seen, age, heard>>
    BY <1>10 DEF World, vars, chatVars
  <2>2. ASSUME NEW r \in Runners PROVE Expects(r)'
    BY <1>2, <2>1 DEF Expects, Key, Device
  <2>3. QED
    BY <1>4, <2>1, <2>2
<1>11. QED
  BY <1>5, <1>6, <1>7, <1>8, <1>9, <1>10 DEF Next

-----------------------------------------------------------------------------
(* The theorems.                                                           *)

LEMMA InitFacts == Init => Inv /\ Spaced
<1> SUFFICES ASSUME Init PROVE Inv /\ Spaced
  OBVIOUS
<1>1. Cooldown \in Nat /\ Window \in Nat /\ Cardinality(Runners) \in Nat
  BY RunnerAssumption, FS_CardinalityType
<1>2. RunnersSound
  <2>1. RunnerShape
    BY FirstSkill, EmptySeq DEF Init, RunnerShape, ResultMap, Away
  <2>2. \A r \in Runners : SoundRunner(r)
    BY DEF Init, SoundRunner, Sound, Away, Under
  <2>3. QED
    BY <2>1, <2>2 DEF RunnersSound
<1>3. OtherShape
  BY <1>1 DEF Init, OtherShape
<1>4. Budget
  BY <1>1 DEF Init, Budget
<1>5. Spaced
  BY <1>1 DEF Init, Spaced
<1>6. QED
  BY <1>2, <1>3, <1>4, <1>5 DEF Inv

LEMMA Invariance == Spec => []Inv
<1>1. Inv /\ [Next]_vars => Inv'
  BY RunnersStaySound, OthersKeepShape, BudgetKept DEF Inv
<1>2. QED
  BY <1>1, InitFacts, PTL DEF Spec

\* Every variable keeps its type: in particular no sweep counts a device twice
\* as passed, or more than twice as failed, whatever raises when.
THEOREM TypeCorrect == Spec => []TypeOK
<1>1. Inv => TypeOK
  <2> SUFFICES ASSUME Inv PROVE TypeOK
    OBVIOUS
  <2>1. ASSUME NEW r \in Runners
        PROVE  /\ passed[r] \in 0..Cardinality(Devices)
               /\ failed[r] \in 0..(2 * Cardinality(Devices))
    <3>1. /\ Typed(pc[r], skill[r], left[r], seen[r], passed[r], failed[r], entry[r])
          /\ Sound(pc[r], skill[r], left[r], seen[r], passed[r], failed[r], entry[r])
      BY <2>1, TypesOf DEF Inv, Typed
    <3>2. /\ Cardinality(Having(entry[r], Results)) \in Nat /\ Cardinality(Devices) \in Nat
          /\ Cardinality(Having(entry[r], Results)) <= Cardinality(Devices)
      BY HavingFinite
    <3>3. CASE pc[r] \in Away
      BY <3>1, <3>2, <3>3 DEF Sound
    <3>4. CASE pc[r] \in Under
      <4>1. Cardinality(Having(entry[r], Results)) + 1 <= Cardinality(Devices)
        BY <3>1, <3>4, RoomForOne DEF Sound, Typed, Under, Away
      <4>2. Score(pc[r], seen[r], passed[r], failed[r], entry[r])
        BY <3>1, <3>4 DEF Sound, Under, Away
      <4>3. QED
        BY <3>2, <4>1, <4>2 DEF Score, CleanUnder, FaultUnder
    <3>5. CASE pc[r] = "device"
      <4>1. Score(pc[r], seen[r], passed[r], failed[r], entry[r])
        BY <3>1, <3>5 DEF Sound, Away
      <4>2. QED
        BY <3>2, <3>5, <4>1 DEF Score, CleanUnder, FaultUnder, Under
    <3>6. QED
      BY <3>1, <3>3, <3>4, <3>5 DEF Typed
  <2>2. passed \in [Runners -> 0..Cardinality(Devices)]
        /\ failed \in [Runners -> 0..(2 * Cardinality(Devices))]
    BY <2>1 DEF Inv, RunnersSound, RunnerShape
  <2>3. entries \in [Devices -> 0..Cardinality(Runners) + 1]
    BY RunnerAssumption, FS_CardinalityType DEF Inv, OtherShape, Budget
  <2>4. QED
    BY <2>2, <2>3
       DEF Inv, RunnersSound, RunnerShape, OtherShape, TypeOK, Under, Away, ResultMap, Results
<1>2. QED
  BY <1>1, Invariance, PTL

\* A skill that is done has a result for each of its devices, and its counts
\* are no smaller than its results, whatever raised on the way.
THEOREM NothingHidden == Spec => []NoFailureHidden
<1>1. Inv => NoFailureHidden
  <2> SUFFICES ASSUME Inv, NEW r \in Runners, SkillDone(r)
               PROVE  /\ Entries(r, {"none"}) =
                           Devices \ {Visits[Skills[skill[r]]][i] : i \in DOMAIN Visits[Skills[skill[r]]]}
                      /\ failed[r] >= Cardinality(Entries(r, NotPassed))
                      /\ passed[r] >= Cardinality(Entries(r, {"clean"}))
    BY DEF NoFailureHidden
  <2>1. pc[r] = "device" /\ left[r] = <<>>
    BY DEF SkillDone
  <2>2. /\ left[r] \in Seq(Devices) /\ passed[r] \in Nat /\ failed[r] \in Nat
        /\ Sound(pc[r], skill[r], left[r], seen[r], passed[r], failed[r], entry[r])
    BY TypesOf DEF Inv
  <2>3. /\ Agenda(skill[r], left[r], entry[r])
        /\ Score(pc[r], seen[r], passed[r], failed[r], entry[r])
    BY <2>1, <2>2 DEF Sound, Away
  <2>4. \A E : Entries(r, E) = Having(entry[r], E)
    BY DEF Entries, Having
  <2>5. Members(left[r]) = {}
    BY <2>1, <2>2, NoMembers
  <2>6. Entries(r, {"none"}) = Devices \ Members(Visits[Skills[skill[r]]])
    BY <2>3, <2>4, <2>5 DEF Agenda
  <2>7. /\ Cardinality(Entries(r, NotPassed)) \in Nat
        /\ Cardinality(Entries(r, {"clean"})) \in Nat
    BY <2>4, HavingFinite
  <2>8. QED
    BY <2>1, <2>2, <2>3, <2>4, <2>6, <2>7 DEF Score, CleanUnder, FaultUnder, Under, Members
<1>2. QED
  BY <1>1, Invariance, PTL

\* One drift is logged at most once by each runner in a window, for any number
\* of runners that read, check and create without a lock.
THEOREM EntriesStayBounded == Spec => []EntriesBounded
<1>1. Inv => EntriesBounded
  BY DEF Inv, Budget, EntriesBounded
<1>2. QED
  BY <1>1, Invariance, PTL

\* Where no process has two runners, failure alerts of one process about one
\* skill and device are a cooldown apart.
THEOREM AlertsKeepDistance ==
  ASSUME OneRunnerEach
  PROVE  Spec => AlertsApart
<1>1. Inv /\ Spaced /\ [Next]_vars => Spaced'
  BY SpacingKept DEF Inv
<1>2. Inv /\ Spaced /\ [Next]_vars => [AlertStep]_vars
  BY SpacingKept DEF Inv
<1>3. Spec => []Spaced
  BY <1>1, InitFacts, Invariance, PTL DEF Spec
<1>4. AlertsApart <=> [][AlertStep]_vars
  BY PTL DEF AlertsApart, AlertStep
<1>5. QED
  BY <1>2, <1>3, <1>4, Invariance, PTL DEF Spec
=============================================================================
