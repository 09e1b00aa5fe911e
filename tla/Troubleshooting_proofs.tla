--------------------- MODULE Troubleshooting_proofs ---------------------
(***************************************************************************)
(* Theorems about Troubleshooting, for any number of users, commands and   *)
(* devices.  The argument has three layers:                                *)
(*                                                                         *)
(*   Undoes      of each scenario, the fix clears every fault its injection *)
(*               sets, and has the routes learnt anew after that;          *)
(*   BookInv     what every user is about, and that a repair has met every *)
(*               injection in progress;                                    *)
(*   CleanInv    what a repair in progress has taken back stays away,      *)
(*               unless an injection it has met puts it there again.       *)
(*                                                                         *)
(* What `status` says needs the scenarios' effects and BookInv's types.    *)
(***************************************************************************)
EXTENDS Troubleshooting, SequenceTheorems, TLAPS

InboundFaults == FromPrimary \cup FromSecondary

Lines == [on : Devices, sets : SUBSET Faults, clears : SUBSET Faults,
          relearns : SUBSET InboundFaults]

-----------------------------------------------------------------------------
(***************************************************************************)
(* The scenarios.                                                          *)
(***************************************************************************)
Clear(q, d, f) == \E i \in 1..Len(q) : q[i].on = d /\ f \in q[i].clears
Learn(q, d, f) == \E i \in 1..Len(q) : q[i].on = d /\ f \in q[i].relearns
Cause(q, d, f) == \E i \in 1..Len(q) : q[i].on = d /\ f \in q[i].sets

\* Nothing in q sets a fault, and routes are learnt anew after the policy
\* they were learnt under has been taken back.
Repairs(q) ==
  /\ \A i \in 1..Len(q) : q[i].sets = {}
  /\ \A i \in 1..Len(q) : \A f \in q[i].clears \cap InboundFaults :
        \E j \in 1..Len(q) : i < j /\ q[j].on = q[i].on /\ f \in q[j].relearns

Undoes(inject, fix) ==
  /\ inject \in Seq(Lines) /\ fix \in Seq(Lines)
  /\ \E i \in 1..Len(inject) : inject[i].sets # {}
  /\ \A i \in 1..Len(inject) : \A f \in inject[i].sets : Clear(fix, inject[i].on, f)
  /\ Repairs(fix)

\* A scenario of one fault of the configuration, and of two.
LEMMA OneLine ==
  ASSUME NEW d \in Devices, NEW f \in Faults, f \notin InboundFaults
  PROVE  Undoes(<<Sets(d, f)>>, <<Clears(d, f)>>)
<1>1. Sets(d, f) \in Lines /\ Clears(d, f) \in Lines
  BY DEF Sets, Clears, Line, Lines
<1>2. <<Sets(d, f)>> \in Seq(Lines) /\ <<Clears(d, f)>> \in Seq(Lines)
  BY <1>1
<1>3. QED
  BY <1>2 DEF Undoes, Repairs, Clear, Sets, Clears, Line

LEMMA TwoLines ==
  ASSUME NEW d \in Devices, NEW f \in Faults \ InboundFaults, NEW g \in Faults \ InboundFaults,
         NEW x \in {f, g}, NEW y \in {f, g}, {x, y} = {f, g}
  PROVE  Undoes(<<Sets(d, f), Sets(d, g)>>, <<Clears(d, x), Clears(d, y)>>)
<1>1. /\ Sets(d, f) \in Lines /\ Sets(d, g) \in Lines
      /\ Clears(d, x) \in Lines /\ Clears(d, y) \in Lines
  BY DEF Sets, Clears, Line, Lines
<1>2. /\ <<Sets(d, f), Sets(d, g)>> \in Seq(Lines)
      /\ <<Clears(d, x), Clears(d, y)>> \in Seq(Lines)
  BY <1>1
<1>3. \E i \in 1..Len(<<Sets(d, f), Sets(d, g)>>) : <<Sets(d, f), Sets(d, g)>>[i].sets # {}
  BY DEF Sets, Line
<1>4. /\ Clear(<<Clears(d, x), Clears(d, y)>>, d, x)
      /\ Clear(<<Clears(d, x), Clears(d, y)>>, d, y)
  BY DEF Clear, Clears, Line
<1>5. /\ Sets(d, f).on = d /\ Sets(d, f).sets = {f}
      /\ Sets(d, g).on = d /\ Sets(d, g).sets = {g}
  BY DEF Sets, Line
<1>6. \A i \in 1..Len(<<Sets(d, f), Sets(d, g)>>) :
         \A e \in <<Sets(d, f), Sets(d, g)>>[i].sets :
            Clear(<<Clears(d, x), Clears(d, y)>>, <<Sets(d, f), Sets(d, g)>>[i].on, e)
  BY <1>4, <1>5
<1>7. Repairs(<<Clears(d, x), Clears(d, y)>>)
  BY DEF Repairs, Clears, Line
<1>8. QED
  BY <1>2, <1>3, <1>6, <1>7 DEF Undoes

\* One repair after the other.
LEMMA Both ==
  ASSUME NEW i1, NEW f1, NEW i2, NEW f2, Undoes(i1, f1), Undoes(i2, f2)
  PROVE  Undoes(i1 \o i2, f1 \o f2)
<1>1. /\ i1 \in Seq(Lines) /\ f1 \in Seq(Lines) /\ i2 \in Seq(Lines) /\ f2 \in Seq(Lines)
      /\ Len(i1) \in Nat /\ Len(f1) \in Nat /\ Len(i2) \in Nat /\ Len(f2) \in Nat
  BY LenProperties DEF Undoes
<1>2. /\ i1 \o i2 \in Seq(Lines) /\ Len(i1 \o i2) = Len(i1) + Len(i2)
      /\ \A k \in 1..Len(i1) : (i1 \o i2)[k] = i1[k]
      /\ \A k \in 1..Len(i2) : (i1 \o i2)[Len(i1) + k] = i2[k]
  BY <1>1
<1>3. /\ f1 \o f2 \in Seq(Lines) /\ Len(f1 \o f2) = Len(f1) + Len(f2)
      /\ \A k \in 1..Len(f1) : (f1 \o f2)[k] = f1[k]
      /\ \A k \in 1..Len(f2) : (f1 \o f2)[Len(f1) + k] = f2[k]
  BY <1>1
<1> DEFINE inj == i1 \o i2
           fix == f1 \o f2
<1>4. /\ \A k \in 1..Len(inj) : k \in 1..Len(i1) \/ \E m \in 1..Len(i2) : k = Len(i1) + m
      /\ \A k \in 1..Len(fix) : k \in 1..Len(f1) \/ \E m \in 1..Len(f2) : k = Len(f1) + m
      /\ \A k \in 1..Len(i1) : k \in 1..Len(inj)
      /\ \A k \in 1..Len(f1) : k \in 1..Len(fix)
      /\ \A k \in 1..Len(f2) : Len(f1) + k \in 1..Len(fix)
  <2>1. /\ Len(inj) = Len(i1) + Len(i2) /\ Len(fix) = Len(f1) + Len(f2)
    BY <1>2, <1>3
  <2> HIDE DEF inj, fix
  <2>2. ASSUME NEW k \in 1..Len(inj), k \notin 1..Len(i1)
        PROVE  \E m \in 1..Len(i2) : k = Len(i1) + m
    <3>1. k - Len(i1) \in 1..Len(i2) /\ k = Len(i1) + (k - Len(i1))
      BY <1>1, <2>1, <2>2
    <3>2. QED
      BY <3>1
  <2>3. ASSUME NEW k \in 1..Len(fix), k \notin 1..Len(f1)
        PROVE  \E m \in 1..Len(f2) : k = Len(f1) + m
    <3>1. k - Len(f1) \in 1..Len(f2) /\ k = Len(f1) + (k - Len(f1))
      BY <1>1, <2>1, <2>3
    <3>2. QED
      BY <3>1
  <2>4. QED
    BY <1>1, <2>1, <2>2, <2>3
<1> HIDE DEF inj, fix
<1>5. \E k \in 1..Len(inj) : inj[k].sets # {}
  BY <1>2, <1>4 DEF Undoes, inj
<1>6. /\ \A d, f : Clear(f1, d, f) => Clear(fix, d, f)
      /\ \A d, f : Clear(f2, d, f) => Clear(fix, d, f)
  BY <1>3, <1>4 DEF Clear, fix
<1>7. \A k \in 1..Len(inj) : \A f \in inj[k].sets : Clear(fix, inj[k].on, f)
  BY <1>2, <1>4, <1>6 DEF Undoes, inj
<1>8. ASSUME NEW k \in 1..Len(fix) PROVE fix[k].sets = {}
  <2>1. CASE k \in 1..Len(f1)
    BY <1>3, <2>1 DEF Undoes, Repairs, fix
  <2>2. CASE k \notin 1..Len(f1)
    <3>1. PICK m \in 1..Len(f2) : k = Len(f1) + m
      BY <1>4, <2>2
    <3>2. fix[k] = f2[m]
      BY <1>3, <3>1 DEF fix
    <3>3. QED
      BY <3>2 DEF Undoes, Repairs
  <2>3. QED
    BY <2>1, <2>2
<1>9. ASSUME NEW k \in 1..Len(fix), NEW f \in fix[k].clears \cap InboundFaults
      PROVE  \E j \in 1..Len(fix) : k < j /\ fix[j].on = fix[k].on /\ f \in fix[j].relearns
  <2>1. CASE k \in 1..Len(f1)
    <3>1. fix[k] = f1[k]
      BY <1>3, <2>1 DEF fix
    <3>2. PICK j \in 1..Len(f1) : k < j /\ f1[j].on = f1[k].on /\ f \in f1[j].relearns
      BY <2>1, <3>1, <1>9 DEF Undoes, Repairs
    <3>3. fix[j] = f1[j] /\ j \in 1..Len(fix)
      BY <1>3, <1>4 DEF fix
    <3>4. QED
      BY <3>1, <3>2, <3>3
  <2>2. CASE k \notin 1..Len(f1)
    <3>1. PICK m \in 1..Len(f2) : k = Len(f1) + m
      BY <1>4, <2>2
    <3>2. fix[k] = f2[m]
      BY <1>3, <3>1 DEF fix
    <3>3. PICK j \in 1..Len(f2) : m < j /\ f2[j].on = f2[m].on /\ f \in f2[j].relearns
      BY <3>1, <3>2, <1>9 DEF Undoes, Repairs
    <3>4. fix[Len(f1) + j] = f2[j] /\ Len(f1) + j \in 1..Len(fix)
      BY <1>3, <1>4, <3>3 DEF fix
    <3>5. k < Len(f1) + j
      BY <1>1, <3>1, <3>3
    <3>6. QED
      BY <3>2, <3>3, <3>4, <3>5
  <2>3. QED
    BY <2>1, <2>2
<1>10. QED
  BY <1>2, <1>3, <1>5, <1>7, <1>8, <1>9 DEF Undoes, Repairs, inj, fix

LEMMA LocalprefUndone == Undoes(LocalprefReversed.inject, LocalprefReversed.fix)
<1> DEFINE d == "dc-ce-1"
           q1 == Soft(d, FromPrimary)
           q2 == Soft(d, FromSecondary)
           inj == <<Sets(d, "lp_primary"), Sets(d, "lp_secondary"), q1, q2>>
           fix == <<Clears(d, "lp_primary"), Clears(d, "lp_secondary"), q1, q2>>
<1>0. ASSUME NEW a, NEW b, NEW x, NEW y PROVE <<a, b>> \o <<x, y>> = <<a, b, x, y>>
  <2> DEFINE S == {a, b, x, y}
             l == <<a, b>>
             r == <<x, y>>
             q == <<a, b, x, y>>
  <2>1. /\ l \in Seq(S) /\ r \in Seq(S) /\ q \in Seq(S)
        /\ Len(l) = 2 /\ Len(r) = 2 /\ Len(q) = 4
        /\ l[1] = a /\ l[2] = b /\ r[1] = x /\ r[2] = y
        /\ q[1] = a /\ q[2] = b /\ q[3] = x /\ q[4] = y
    OBVIOUS
  <2> HIDE DEF S, l, r, q
  <2>2. /\ l \o r \in Seq(S) /\ Len(l \o r) = 4
        /\ (l \o r)[1] = a /\ (l \o r)[2] = b /\ (l \o r)[3] = x /\ (l \o r)[4] = y
    <3>1. /\ l \o r \in Seq(S) /\ Len(l \o r) = 2 + 2
          /\ \A i \in 1..(2 + 2) : (l \o r)[i] = IF i <= 2 THEN l[i] ELSE r[i - 2]
      <4>1. /\ l \o r \in Seq(S) /\ Len(l \o r) = Len(l) + Len(r)
            /\ \A i \in 1..(Len(l) + Len(r)) :
                  (l \o r)[i] = IF i <= Len(l) THEN l[i] ELSE r[i - Len(l)]
        BY <2>1, ConcatProperties
      <4>2. QED
        BY <2>1, <4>1
    <3>2. 3 - 2 = 1 /\ 4 - 2 = 2
      OBVIOUS
    <3>3. QED
      BY <2>1, <3>1, <3>2
  <2>3. \A i \in 1..4 : (l \o r)[i] = q[i]
    <3>1. \A i \in 1..4 : i = 1 \/ i = 2 \/ i = 3 \/ i = 4
      OBVIOUS
    <3>2. QED
      BY <2>1, <2>2, <3>1
  <2>4. l \o r = q
    BY <2>1, <2>2, <2>3, SeqEqual
  <2>5. QED
    BY <2>4 DEF l, r, q
<1>1. LocalprefReversed.inject = inj /\ LocalprefReversed.fix = fix
  <2>1. /\ LocalprefReversed.inject =
              <<Sets(d, "lp_primary"), Sets(d, "lp_secondary")>> \o <<q1, q2>>
        /\ LocalprefReversed.fix =
              <<Clears(d, "lp_primary"), Clears(d, "lp_secondary")>> \o <<q1, q2>>
    BY DEF LocalprefReversed
  <2>2. QED
    BY <1>0, <2>1
<1>2. d \in Devices
  BY LabAssumption
<1>3. /\ Sets(d, "lp_primary") \in Lines /\ Sets(d, "lp_secondary") \in Lines
      /\ Clears(d, "lp_primary") \in Lines /\ Clears(d, "lp_secondary") \in Lines
      /\ q1 \in Lines /\ q2 \in Lines
  BY <1>2 DEF Sets, Clears, Soft, Line, Lines, Faults, Place, InboundFaults
<1>4. inj \in Seq(Lines) /\ fix \in Seq(Lines)
  BY <1>3
<1>5. Len(inj) = 4 /\ Len(fix) = 4
  OBVIOUS
<1>6. /\ inj[1].on = d /\ inj[1].sets = {"lp_primary"}
      /\ inj[2].on = d /\ inj[2].sets = {"lp_secondary"}
      /\ inj[3].sets = {} /\ inj[4].sets = {}
  BY DEF Sets, Soft, Line
<1>7. /\ \A i \in 1..4 : fix[i].on = d /\ fix[i].sets = {}
      /\ fix[1].clears = {"lp_primary"} /\ fix[2].clears = {"lp_secondary"}
      /\ fix[3].clears = {} /\ fix[4].clears = {}
      /\ fix[3].relearns = FromPrimary /\ fix[4].relearns = FromSecondary
  BY DEF Clears, Soft, Line
<1> HIDE DEF inj, fix, d
<1>8. Clear(fix, d, "lp_primary") /\ Clear(fix, d, "lp_secondary")
  BY <1>5, <1>7 DEF Clear
<1>9. \A i \in 1..Len(inj) : i = 1 \/ i = 2 \/ i = 3 \/ i = 4
  BY <1>5
<1>10. \A i \in 1..Len(fix) : i = 1 \/ i = 2 \/ i = 3 \/ i = 4
  BY <1>5
<1>11. "lp_primary" \in FromPrimary /\ "lp_secondary" \in FromSecondary
  BY DEF FromPrimary, FromSecondary
<1>12. Repairs(fix)
  BY <1>5, <1>7, <1>10, <1>11 DEF Repairs
<1>13. \A i \in 1..Len(inj) : \A f \in inj[i].sets : Clear(fix, inj[i].on, f)
  BY <1>6, <1>8, <1>9
<1>14. \E i \in 1..Len(inj) : inj[i].sets # {}
  BY <1>5, <1>6
<1>15. QED
  BY <1>1, <1>4, <1>12, <1>13, <1>14 DEF Undoes

LEMMA PrefixUndone == Undoes(PrefixFilterTypo.inject, PrefixFilterTypo.fix)
<1> DEFINE d == "dc-ce-1"
           q == Soft(d, FromPrimary)
           inj == <<Sets(d, "deny_list"), Sets(d, "deny_bound"), q>>
           fix == <<Clears(d, "deny_bound"), Clears(d, "deny_list"), q>>
<1>1. PrefixFilterTypo.inject = inj /\ PrefixFilterTypo.fix = fix
  BY DEF PrefixFilterTypo
<1>2. d \in Devices
  BY LabAssumption
<1>3. /\ Sets(d, "deny_list") \in Lines /\ Sets(d, "deny_bound") \in Lines
      /\ Clears(d, "deny_list") \in Lines /\ Clears(d, "deny_bound") \in Lines
      /\ q \in Lines
  BY <1>2 DEF Sets, Clears, Soft, Line, Lines, Faults, Leftovers, InboundFaults
<1>4. inj \in Seq(Lines) /\ fix \in Seq(Lines)
  BY <1>3
<1>5. Len(inj) = 3 /\ Len(fix) = 3
  OBVIOUS
<1>6. /\ inj[1].on = d /\ inj[1].sets = {"deny_list"}
      /\ inj[2].on = d /\ inj[2].sets = {"deny_bound"}
      /\ inj[3].sets = {}
  BY DEF Sets, Soft, Line
<1>7. /\ \A i \in 1..3 : fix[i].on = d /\ fix[i].sets = {}
      /\ fix[1].clears = {"deny_bound"} /\ fix[2].clears = {"deny_list"}
      /\ fix[3].clears = {} /\ fix[3].relearns = FromPrimary
  BY DEF Clears, Soft, Line
<1> HIDE DEF inj, fix, d
<1>8. Clear(fix, d, "deny_list") /\ Clear(fix, d, "deny_bound")
  BY <1>5, <1>7 DEF Clear
<1>9. \A i \in 1..Len(inj) : i = 1 \/ i = 2 \/ i = 3
  BY <1>5
<1>10. \A i \in 1..Len(fix) : i = 1 \/ i = 2 \/ i = 3
  BY <1>5
<1>11. "deny_bound" \in FromPrimary /\ "deny_list" \notin InboundFaults
  BY DEF FromPrimary, FromSecondary, InboundFaults
<1>12. Repairs(fix)
  BY <1>5, <1>7, <1>10, <1>11 DEF Repairs
<1>13. \A i \in 1..Len(inj) : \A f \in inj[i].sets : Clear(fix, inj[i].on, f)
  BY <1>6, <1>8, <1>9
<1>14. \E i \in 1..Len(inj) : inj[i].sets # {}
  BY <1>5, <1>6
<1>15. QED
  BY <1>1, <1>4, <1>12, <1>13, <1>14 DEF Undoes

\* Every scenario of the registry: its fix undoes its injection.
LEMMA ScenarioFacts ==
  ASSUME NEW s \in DOMAIN Scenario
  PROVE  /\ Scenario[s].device \in Devices
         /\ Undoes(Scenario[s].inject, Scenario[s].fix)
<1> DEFINE Good(c) == c.device \in Devices /\ Undoes(c.inject, c.fix)
<1>0. /\ "dc-ce-1" \in Devices /\ "dr-ce-1" \in Devices /\ "dc-border-1" \in Devices
      /\ "dc-leaf-1" \in Devices /\ "dc-leaf-2" \in Devices /\ "dc-spine-1" \in Devices
  BY LabAssumption
<1>1. /\ \A f \in Leftovers \ {"deny_bound"} : f \in Faults /\ f \notin InboundFaults
      /\ \A f \in {"label_1", "label_2", "shut_interface", "remove_vni", "gw_mac",
                   "prepend_unbound", "evpn_inactive", "rt_missing"} :
            f \in Faults /\ f \notin InboundFaults
  BY DEF Leftovers, Faults, Place, InboundFaults, FromPrimary, FromSecondary
<1>a. Good(IfaceAdminDown)
  BY <1>0, <1>1, OneLine DEF IfaceAdminDown
<1>b. Good(IfaceDescriptionSwap)
  BY <1>0, <1>1, TwoLines DEF IfaceDescriptionSwap
<1>c. Good(LocalprefReversed)
  BY <1>0, LocalprefUndone DEF LocalprefReversed
<1>d. Good(BgpTimerMismatch)
  BY <1>0, <1>1, OneLine DEF BgpTimerMismatch, Leftovers
<1>e. Good(PrefixFilterTypo)
  BY <1>0, PrefixUndone DEF PrefixFilterTypo
<1>f. Good(Md5AuthMismatch)
  BY <1>0, <1>1, OneLine DEF Md5AuthMismatch, Leftovers
<1>g. Good(AspathPrependWrongDirection)
  BY <1>0, <1>1, TwoLines DEF AspathPrependWrongDirection, Leftovers
<1>h. Good(VniMappingMissing)
  BY <1>0, <1>1, OneLine DEF VniMappingMissing
<1>i. Good(RrPeerMissing)
  BY <1>0, <1>1, OneLine DEF RrPeerMissing
<1>j. Good(WrongRtImport)
  BY <1>0, <1>1, TwoLines DEF WrongRtImport, Leftovers
<1>k. Good(AnycastGwMacMismatch)
  BY <1>0, <1>1, OneLine DEF AnycastGwMacMismatch
<1>l. Good(MtuMismatch)
  BY <1>0, <1>1, OneLine DEF MtuMismatch, Leftovers
<1>m. Good(MultiFault)
  <2>1. Undoes(LocalprefReversed.inject \o IfaceAdminDown.inject,
               LocalprefReversed.fix \o IfaceAdminDown.fix)
    BY <1>a, <1>c, Both
  <2>2. QED
    BY <1>c, <2>1 DEF MultiFault
<1> HIDE DEF Good
<1>n. Good(Scenario[s])
  BY <1>a, <1>b, <1>c, <1>d, <1>e, <1>f, <1>g, <1>h, <1>i, <1>j, <1>k, <1>l, <1>m DEF Scenario
<1>o. QED
  BY <1>n DEF Good

LEMMA EffectFacts ==
  ASSUME NEW s \in DOMAIN Scenario
  PROVE  /\ \A d, f : <<d, f>> \in Effects[s] <=> Cause(Scenario[s].inject, d, f)
         /\ Effects[s] \subseteq Devices \X Faults
         /\ Effects[s] # {}
         /\ \A d, f : <<d, f>> \in Effects[s] => Clear(Scenario[s].fix, d, f)
<1> DEFINE q == Scenario[s].inject
<1>1. q \in Seq(Lines) /\ Undoes(q, Scenario[s].fix)
  BY ScenarioFacts DEF Undoes
<1>2. Effects[s] = UNION {{l.on} \X l.sets : l \in ToSet(q)}
  BY DEF Effects
<1>3. ToSet(q) = {q[i] : i \in 1..Len(q)}
  BY <1>1 DEF ToSet
<1>4. \A i \in 1..Len(q) : q[i] \in Lines
  BY <1>1, ElementOfSeq
<1> HIDE DEF q
<1>5. \A d, f : <<d, f>> \in Effects[s] <=> Cause(q, d, f)
  BY <1>2, <1>3 DEF Cause
<1>6. Effects[s] \subseteq Devices \X Faults
  BY <1>2, <1>3, <1>4 DEF Lines
<1>7. Effects[s] # {}
  <2>1. PICK i \in 1..Len(q) : q[i].sets # {}
    BY <1>1 DEF Undoes
  <2>2. PICK f : f \in q[i].sets
    BY <2>1
  <2>3. Cause(q, q[i].on, f)
    BY <2>2 DEF Cause
  <2>4. QED
    BY <2>3, <1>5
<1>8. \A d, f : Cause(q, d, f) => Clear(Scenario[s].fix, d, f)
  BY <1>1 DEF Cause, Undoes
<1>9. QED
  BY <1>5, <1>6, <1>7, <1>8 DEF q

\* The lines of a command, the first one sent.
LEMMA FirstLine ==
  ASSUME NEW q \in Seq(Lines), q # <<>>
  PROVE  /\ Head(q) \in Lines /\ Tail(q) \in Seq(Lines)
         /\ \A d, f : Clear(q, d, f) <=>
                (Head(q).on = d /\ f \in Head(q).clears) \/ Clear(Tail(q), d, f)
         /\ \A d, f : Learn(q, d, f) <=>
                (Head(q).on = d /\ f \in Head(q).relearns) \/ Learn(Tail(q), d, f)
         /\ \A d, f : Cause(q, d, f) <=>
                (Head(q).on = d /\ f \in Head(q).sets) \/ Cause(Tail(q), d, f)
         /\ Repairs(q) =>
                /\ Repairs(Tail(q)) /\ Head(q).sets = {}
                /\ \A f \in Head(q).clears \cap InboundFaults : Learn(Tail(q), Head(q).on, f)
<1> DEFINE t == Tail(q)
<1>1. /\ Head(q) \in Lines /\ t \in Seq(Lines) /\ Len(t) = Len(q) - 1
      /\ \A i \in 1..Len(t) : t[i] = q[i + 1]
      /\ Len(q) \in Nat \ {0} /\ Head(q) = q[1] /\ Len(t) \in Nat
  BY HeadTailProperties, EmptySeq, LenProperties
<1> HIDE DEF t
<1>2. /\ 1 \in 1..Len(q)
      /\ \A i \in 1..Len(t) : i + 1 \in 1..Len(q)
  BY <1>1
<1>3. ASSUME NEW i \in 1..Len(q), i # 1
      PROVE  \E j \in 1..Len(t) : i = j + 1 /\ q[i] = t[j]
  <2>1. i - 1 \in 1..Len(t) /\ i = (i - 1) + 1
    BY <1>1, <1>3
  <2>2. QED
    BY <1>1, <2>1
<1>4. \A d, f : Clear(q, d, f) <=>
                (Head(q).on = d /\ f \in Head(q).clears) \/ Clear(t, d, f)
  BY <1>1, <1>2, <1>3 DEF Clear
<1>5. \A d, f : Learn(q, d, f) <=>
                (Head(q).on = d /\ f \in Head(q).relearns) \/ Learn(t, d, f)
  BY <1>1, <1>2, <1>3 DEF Learn
<1>6. \A d, f : Cause(q, d, f) <=>
                (Head(q).on = d /\ f \in Head(q).sets) \/ Cause(t, d, f)
  BY <1>1, <1>2, <1>3 DEF Cause
<1>7. ASSUME Repairs(q)
      PROVE  /\ Repairs(t) /\ Head(q).sets = {}
             /\ \A f \in Head(q).clears \cap InboundFaults : Learn(t, Head(q).on, f)
  <2>1. Head(q).sets = {} /\ \A i \in 1..Len(t) : t[i].sets = {}
    BY <1>1, <1>2, <1>7 DEF Repairs
  <2>2. ASSUME NEW i \in 1..Len(q), NEW f \in q[i].clears \cap InboundFaults
        PROVE  \E j \in 1..Len(t) : i < j + 1 /\ t[j].on = q[i].on /\ f \in t[j].relearns
    <3>1. PICK m \in 1..Len(q) : i < m /\ q[m].on = q[i].on /\ f \in q[m].relearns
      BY <1>7, <2>2 DEF Repairs
    <3>2. m # 1
      BY <1>1, <3>1
    <3>3. QED
      BY <1>3, <3>1, <3>2
  <2>3. ASSUME NEW i \in 1..Len(t), NEW f \in t[i].clears \cap InboundFaults
        PROVE  \E j \in 1..Len(t) : i < j /\ t[j].on = t[i].on /\ f \in t[j].relearns
    <3>1. i + 1 \in 1..Len(q) /\ q[i + 1] = t[i]
      BY <1>1, <1>2
    <3>2. PICK j \in 1..Len(t) : i + 1 < j + 1 /\ t[j].on = t[i].on /\ f \in t[j].relearns
      BY <2>2, <2>3, <3>1
    <3>3. i < j
      BY <1>1, <3>2
    <3>4. QED
      BY <3>2, <3>3
  <2>4. \A f \in Head(q).clears \cap InboundFaults : Learn(t, Head(q).on, f)
    BY <1>1, <1>2, <2>2 DEF Learn
  <2>5. QED
    BY <2>1, <2>3, <2>4 DEF Repairs
<1>8. QED
  BY <1>1, <1>4, <1>5, <1>6, <1>7 DEF t

LEMMA NoLine == \A d, f : ~Clear(<<>>, d, f) /\ ~Learn(<<>>, d, f) /\ ~Cause(<<>>, d, f)
  BY DEF Clear, Learn, Cause

LEMMA ClearThenLearn ==
  ASSUME NEW q, Repairs(q), NEW d, NEW f \in InboundFaults, Clear(q, d, f)
  PROVE  Learn(q, d, f)
  BY DEF Repairs, Clear, Learn

\* What is left of a command's lines.
Rest(q, all) ==
  Len(q) <= Len(all) /\ \A i \in 1..Len(q) : q[i] = all[Len(all) - Len(q) + i]

LEMMA RestFacts ==
  ASSUME NEW all \in Seq(Lines), NEW q \in Seq(Lines)
  PROVE  /\ Rest(all, all)
         /\ Rest(q, all) /\ q # <<>> => Rest(Tail(q), all)
         /\ Rest(q, all) => IsSuffix(q, all)
<1>1. Len(all) \in Nat /\ Len(q) \in Nat
  BY LenProperties
<1>2. Rest(all, all)
  BY <1>1 DEF Rest
<1>3. ASSUME Rest(q, all), q # <<>> PROVE Rest(Tail(q), all)
  <2> DEFINE t == Tail(q)
  <2>1. /\ Len(t) = Len(q) - 1 /\ Len(q) \in Nat \ {0}
        /\ \A i \in 1..Len(t) : t[i] = q[i + 1]
    BY <1>3, HeadTailProperties, EmptySeq
  <2> HIDE DEF t
  <2>2. Len(t) <= Len(all)
    BY <1>1, <1>3, <2>1 DEF Rest
  <2>3. ASSUME NEW i \in 1..Len(t) PROVE t[i] = all[Len(all) - Len(t) + i]
    <3>1. i + 1 \in 1..Len(q) /\ Len(all) - Len(q) + (i + 1) = Len(all) - Len(t) + i
      BY <1>1, <2>1
    <3>2. q[i + 1] = all[Len(all) - Len(q) + (i + 1)]
      BY <1>3, <3>1 DEF Rest
    <3>3. QED
      BY <2>1, <3>1, <3>2
  <2>4. QED
    BY <2>2, <2>3 DEF Rest, t
<1>4. ASSUME Rest(q, all) PROVE IsSuffix(q, all)
  <2> DEFINE n == Len(q)
             m == Len(all)
             a == Reverse(q)
             b == Reverse(all)
  <2>1. /\ a = [i \in 1..n |-> q[n - i + 1]] /\ b = [i \in 1..m |-> all[m - i + 1]]
        /\ n \in Nat /\ m \in Nat /\ n <= m
    BY <1>1, <1>4 DEF Reverse, Rest
  <2> HIDE DEF a, b
  <2>2. Len(a) = n /\ Len(b) = m
    BY <2>1
  <2>3. ASSUME NEW i \in 1..n PROVE a[i] = b[i]
    <3>1. n - i + 1 \in 1..n /\ m - n + (n - i + 1) = m - i + 1 /\ i \in 1..m
      BY <2>1
    <3>2. q[n - i + 1] = all[m - n + (n - i + 1)]
      BY <1>4, <3>1 DEF Rest
    <3>3. QED
      BY <2>1, <3>1, <3>2
  <2>4. SubSeq(a, 1, n) = SubSeq(b, 1, n)
    <3>1. /\ SubSeq(a, 1, n) = [i \in 1..n |-> a[i]]
          /\ SubSeq(b, 1, n) = [i \in 1..n |-> b[i]]
      BY <2>1, <2>2
    <3>2. QED
      BY <2>3, <3>1
  <2>5. Len(a) <= Len(b) /\ SubSeq(a, 1, Len(a)) = SubSeq(b, 1, Len(a))
    BY <2>1, <2>2, <2>4
  <2>6. QED
    BY <2>5 DEF IsSuffix, IsPrefix, a, b
<1>5. QED
  BY <1>2, <1>3, <1>4

-----------------------------------------------------------------------------
(***************************************************************************)
(* Commands: what each user is about.                                      *)
(***************************************************************************)
Types ==
  /\ PushTypeOK
  /\ verb \in [Procs -> {"none", "inject", "fix", "restore"}]
  /\ scenario \in [Procs -> Offered \cup {"none"}]
  /\ left \in [Procs -> Seq(Lines)]
  /\ inForce \in [Devices -> SUBSET InboundFaults]
  /\ down \in [Devices -> BOOLEAN]
  /\ exercise \in Exercises
  /\ commands \in 0..exercise.commands
  /\ open \subseteq Offered
  /\ met \in [Procs -> SUBSET Offered]

CommandOK(u) ==
  /\ verb[u] # "none" => scenario[u] \in Offered
  /\ verb[u] \in {"none", "restore"} => left[u] = <<>>
  /\ verb[u] = "inject" => /\ Rest(left[u], Scenario[scenario[u]].inject)
                           /\ \A d, f : Cause(left[u], d, f) => <<d, f>> \in Effects[scenario[u]]
  /\ verb[u] = "fix" => Rest(left[u], Scenario[scenario[u]].fix) /\ Repairs(left[u])
  /\ verb[u] # "restore" => at[u] = "off"
  /\ verb[u] = "restore" => on[u] \in Devices /\ at[u] \in InPush \cup Returned
  /\ ssh[u] # "lost"

CommandInv == \A u \in Procs : CommandOK(u)

\* An injection in progress is open, and every other command has met it.
InjectInv ==
  \A w \in Procs : verb[w] = "inject" =>
    /\ scenario[w] \in open
    /\ \A u \in Procs : verb[u] \in {"fix", "restore"} => scenario[w] \in met[u]

BookInv == Types /\ CommandInv /\ InjectInv

LEMMA OfferedScenarios ==
  ASSUME Types
  PROVE  /\ Offered \subseteq DOMAIN Scenario /\ "none" \notin Offered
         /\ exercise.commands \in Nat
<1>1. Offered \subseteq DOMAIN Scenario /\ exercise.commands \in Nat
  BY LabAssumption DEF Types, Offered
<1>2. "none" \notin DOMAIN Scenario
  BY DEF Scenario
<1>3. QED
  BY <1>1, <1>2

LEMMA BookTypes == ASSUME Types, CommandInv PROVE TypeOK
<1>1. ASSUME NEW u \in Procs, left[u] # <<>>
      PROVE  \/ verb[u] = "inject" /\ IsSuffix(left[u], Scenario[scenario[u]].inject)
             \/ verb[u] = "fix" /\ IsSuffix(left[u], Scenario[scenario[u]].fix)
  <2>1. CommandOK(u) /\ verb[u] \in {"inject", "fix"} /\ left[u] \in Seq(Lines)
    BY <1>1 DEF CommandInv, CommandOK, Types
  <2>2. scenario[u] \in DOMAIN Scenario
    BY <2>1, OfferedScenarios DEF CommandOK
  <2>3. Scenario[scenario[u]].inject \in Seq(Lines) /\ Scenario[scenario[u]].fix \in Seq(Lines)
    BY <2>2, ScenarioFacts DEF Undoes
  <2>4. QED
    BY <2>1, <2>3, RestFacts DEF CommandOK
<1>2. QED
  BY <1>1 DEF Types, TypeOK, InboundFaults

LEMMA BookInit == Init => BookInv
<1> SUFFICES ASSUME Init PROVE BookInv
  OBVIOUS
<1>1. exercise.commands \in Nat /\ exercise \in Exercises /\ <<>> \in Seq(Lines)
  BY LabAssumption, EmptySeq DEF Init
<1>2. PushTypeOK
  BY PushAssumption DEF Init, PushInit, PushTypeOK
<1>3. Types
  BY <1>1, <1>2 DEF Init, Types
<1>4. CommandInv
  BY DEF Init, PushInit, CommandInv, CommandOK
<1>5. InjectInv
  BY DEF Init, InjectInv
<1>6. QED
  BY <1>3, <1>4, <1>5 DEF BookInv

\* The user's own affairs are as they were.
Aside(u) ==
  /\ verb'[u] = verb[u] /\ scenario'[u] = scenario[u] /\ left'[u] = left[u]
  /\ on'[u] = on[u] /\ at'[u] = at[u] /\ toSend'[u] = toSend[u] /\ ssh'[u] = ssh[u]

LEMMA AsideKeeps ==
  ASSUME NEW u \in Procs, Aside(u), CommandOK(u), exercise' = exercise
  PROVE  CommandOK(u)'
  BY DEF Aside, CommandOK, Offered

LEMMA StartEffect ==
  ASSUME BookInv, NEW u \in Procs, NEW v \in {"inject", "fix", "restore"}, NEW s \in Offered,
         Starts(u, v, s)
  PROVE  /\ verb[u] = "none" /\ verb'[u] = v /\ scenario'[u] = s
         /\ \A w \in Procs : w # u => verb'[w] = verb[w] /\ scenario'[w] = scenario[w]
         /\ exercise' = exercise /\ Offered' = Offered
         /\ verb' \in [Procs -> {"none", "inject", "fix", "restore"}]
         /\ scenario' \in [Procs -> Offered \cup {"none"}]
         /\ commands' \in 0..exercise.commands
         /\ met' \in [Procs -> SUBSET Offered]
         /\ met'[u] = {scenario[x] : x \in {y \in Procs : verb[y] = "inject"}}
         /\ \A w \in Procs : w # u =>
                /\ met[w] \subseteq met'[w]
                /\ v = "inject" /\ verb[w] # "none" => s \in met'[w]
<1>1. /\ verb \in [Procs -> {"none", "inject", "fix", "restore"}]
      /\ scenario \in [Procs -> Offered \cup {"none"}]
      /\ commands \in 0..exercise.commands /\ exercise.commands \in Nat
      /\ met \in [Procs -> SUBSET Offered]
  BY OfferedScenarios DEF BookInv, Types
<1>2. \A x \in Procs : verb[x] = "inject" => scenario[x] \in Offered
  BY DEF BookInv, CommandInv, CommandOK
<1>3. /\ verb[u] = "none" /\ commands < exercise.commands
      /\ commands' = commands + 1
      /\ verb' = [verb EXCEPT ![u] = v]
      /\ scenario' = [scenario EXCEPT ![u] = s]
      /\ exercise' = exercise
  BY DEF Starts
<1>4. met' = [w \in Procs |->
                 IF w = u THEN {scenario[x] : x \in {y \in Procs : verb[y] = "inject"}}
                 ELSE IF v = "inject" /\ verb[w] # "none" THEN met[w] \cup {s}
                 ELSE met[w]]
  BY DEF Starts
<1>5. met' \in [Procs -> SUBSET Offered]
  BY <1>1, <1>2, <1>4
<1>6. commands' \in 0..exercise.commands
  BY <1>1, <1>3
<1>7. QED
  BY <1>1, <1>3, <1>4, <1>5, <1>6 DEF Offered

\* A command that begins.
LEMMA StartKeepsBooks ==
  ASSUME BookInv, NEW u \in Procs, NEW s \in Offered,
         CmdInject(u, s) \/ CmdFix(u, s) \/ CmdRestore(u, s)
  PROVE  BookInv'
<1>0. /\ s \in DOMAIN Scenario /\ Scenario[s].device \in Devices
      /\ Scenario[s].inject \in Seq(Lines) /\ Scenario[s].fix \in Seq(Lines)
      /\ Repairs(Scenario[s].fix)
      /\ \A d, f : Cause(Scenario[s].inject, d, f) => <<d, f>> \in Effects[s]
  BY OfferedScenarios, ScenarioFacts, EffectFacts DEF BookInv, Undoes
<1>1. /\ left \in [Procs -> Seq(Lines)] /\ open \subseteq Offered /\ PushTypeOK
      /\ on \in [Procs -> Devices \cup {NoDevice}]
      /\ at \in [Procs -> {"off"} \cup InPush \cup Returned]
      /\ CommandInv /\ InjectInv
  BY DEF BookInv, Types, PushTypeOK
<1>2. PICK v \in {"inject", "fix", "restore"} :
         /\ Starts(u, v, s)
         /\ v = "inject" => CmdInject(u, s)
         /\ v = "fix" => CmdFix(u, s)
         /\ v = "restore" => CmdRestore(u, s)
  BY DEF CmdInject, CmdFix, CmdRestore
<1>3. /\ verb[u] = "none" /\ verb'[u] = v /\ scenario'[u] = s
      /\ \A w \in Procs : w # u => verb'[w] = verb[w] /\ scenario'[w] = scenario[w]
      /\ exercise' = exercise /\ Offered' = Offered
      /\ verb' \in [Procs -> {"none", "inject", "fix", "restore"}]
      /\ scenario' \in [Procs -> Offered \cup {"none"}]
      /\ commands' \in 0..exercise.commands
      /\ met' \in [Procs -> SUBSET Offered]
      /\ met'[u] = {scenario[x] : x \in {y \in Procs : verb[y] = "inject"}}
      /\ \A w \in Procs : w # u =>
                /\ met[w] \subseteq met'[w]
                /\ v = "inject" /\ verb[w] # "none" => s \in met'[w]
  BY <1>2, StartEffect
<1>4. /\ left' \in [Procs -> Seq(Lines)]
      /\ left'[u] = IF v = "inject" THEN Scenario[s].inject
                    ELSE IF v = "fix" THEN Scenario[s].fix ELSE <<>>
      /\ \A w \in Procs : w # u => left'[w] = left[w]
      /\ open \subseteq open' /\ open' \subseteq Offered
      /\ v = "inject" => s \in open'
  BY <1>0, <1>1, <1>2, <1>3 DEF CmdInject, CmdFix, CmdRestore, CommandInv, CommandOK
<1>5. /\ UNCHANGED <<deviceVars, toSend, ssh, routeVars>>
      /\ on' \in [Procs -> Devices \cup {NoDevice}]
      /\ at' \in [Procs -> {"off"} \cup InPush \cup Returned]
      /\ \A w \in Procs : w # u => on'[w] = on[w] /\ at'[w] = at[w]
      /\ v # "restore" => at'[u] = at[u]
      /\ v = "restore" => on'[u] = Scenario[s].device /\ at'[u] = "connect"
  BY <1>0, <1>1, <1>2, <1>3 DEF CmdInject, CmdFix, CmdRestore, pushVars, InPush
<1>6. Types'
  <2>1. PushTypeOK'
    BY <1>1, <1>5 DEF PushTypeOK, deviceVars
  <2>2. QED
    BY <2>1, <1>3, <1>4, <1>5 DEF BookInv, Types, routeVars
<1>7. CommandInv'
  <2>1. ASSUME NEW w \in Procs, w # u PROVE CommandOK(w)'
    BY <2>1, <1>1, <1>3, <1>4, <1>5, AsideKeeps DEF CommandInv, Aside
  <2>2. CommandOK(u)'
    <3>1. CommandOK(u)
      BY <1>1 DEF CommandInv
    <3>2. ssh'[u] = ssh[u] /\ at[u] = "off"
      BY <1>3, <1>5, <3>1 DEF CommandOK
    <3>3. CASE v = "inject"
      BY <3>1, <3>2, <3>3, <1>0, <1>3, <1>4, <1>5, RestFacts DEF CommandOK
    <3>4. CASE v = "fix"
      BY <3>1, <3>2, <3>4, <1>0, <1>3, <1>4, <1>5, RestFacts DEF CommandOK
    <3>5. CASE v = "restore"
      BY <3>1, <3>2, <3>5, <1>0, <1>3, <1>4, <1>5 DEF CommandOK, InPush
    <3>6. QED
      BY <3>3, <3>4, <3>5
  <2>3. QED
    BY <2>1, <2>2 DEF CommandInv
<1>8. InjectInv'
  <2>1. SUFFICES ASSUME NEW w \in Procs, verb'[w] = "inject"
                 PROVE  /\ scenario'[w] \in open'
                        /\ \A x \in Procs : verb'[x] \in {"fix", "restore"} =>
                              scenario'[w] \in met'[x]
    BY DEF InjectInv
  <2>2. CASE w = u
    <3>1. v = "inject" /\ scenario'[w] = s
      BY <1>3, <2>1, <2>2
    <3>2. QED
      BY <1>3, <1>4, <2>2, <3>1
  <2>3. CASE w # u
    <3>1. verb[w] = "inject" /\ scenario'[w] = scenario[w] /\ scenario[w] \in open
      BY <1>1, <1>3, <2>1, <2>3 DEF InjectInv
    <3>2. ASSUME NEW x \in Procs, verb'[x] \in {"fix", "restore"} PROVE scenario[w] \in met'[x]
      <4>1. CASE x = u
        BY <1>3, <3>1, <4>1
      <4>2. CASE x # u
        BY <1>1, <1>3, <3>1, <3>2, <4>2 DEF InjectInv
      <4>3. QED
        BY <4>1, <4>2
    <3>3. QED
      BY <1>4, <3>1, <3>2
  <2>4. QED
    BY <2>2, <2>3
<1>9. QED
  BY <1>6, <1>7, <1>8 DEF BookInv

\* What a user's command is, none of it begins or ends.
LEMMA InjectStays ==
  ASSUME InjectInv, UNCHANGED <<verb, scenario, met, open>>
  PROVE  InjectInv'
  BY DEF InjectInv

LEMMA LineTypes ==
  ASSUME Types, NEW l \in Lines
  PROVE  /\ (running[l.on] \ l.clears) \cup l.sets \in SUBSET Faults
         /\ \A d \in Devices, P \in SUBSET InboundFaults : Relearnt(d, P) \in SUBSET InboundFaults
         /\ l.on \in Devices /\ l.relearns \subseteq InboundFaults
  BY DEF Types, PushTypeOK, Lines, Relearnt, Policy, InboundFaults

LEMMA SendKeepsBooks ==
  ASSUME BookInv, NEW u \in Procs, SendLine(u)
  PROVE  BookInv'
<1> DEFINE l == Head(left[u])
<1>0. /\ left[u] \in Seq(Lines) /\ left[u] # <<>> /\ Types /\ CommandInv
      /\ left \in [Procs -> Seq(Lines)] /\ PushTypeOK
      /\ inForce \in [Devices -> SUBSET InboundFaults]
      /\ running \in [Devices -> SUBSET Faults] /\ startup \in [Devices -> SUBSET Faults]
  BY DEF BookInv, Types, PushTypeOK, SendLine
<1>1. l \in Lines /\ Tail(left[u]) \in Seq(Lines)
  BY <1>0, FirstLine
<1>2. /\ Configure(l.on, (running[l.on] \ l.clears) \cup l.sets)
      /\ inForce' = [inForce EXCEPT ![l.on] = Relearnt(l.on, l.relearns)]
      /\ left' = [left EXCEPT ![u] = Tail(left[u])]
      /\ UNCHANGED <<pushVars, verb, scenario, down, ledgerVars>>
  BY DEF SendLine
<1> HIDE DEF l
<1>3. /\ (running[l.on] \ l.clears) \cup l.sets \in SUBSET Faults
      /\ Relearnt(l.on, l.relearns) \in SUBSET InboundFaults
  BY <1>0, <1>1, LineTypes
<1>4. Types'
  <2>1. /\ running' \in [Devices -> SUBSET Faults] /\ startup' \in [Devices -> SUBSET Faults]
        /\ reloads' = reloads
    BY <1>0, <1>2, <1>3 DEF Configure
  <2>2. PushTypeOK'
    BY <1>0, <1>2, <2>1 DEF PushTypeOK, pushVars
  <2>3. inForce' \in [Devices -> SUBSET InboundFaults] /\ left' \in [Procs -> Seq(Lines)]
    BY <1>0, <1>1, <1>2, <1>3
  <2>4. QED
    BY <1>0, <1>2, <2>2, <2>3 DEF Types, ledgerVars, Offered
<1>5. CommandInv'
  <2>1. ASSUME NEW w \in Procs, w # u PROVE CommandOK(w)'
    BY <2>1, <1>0, <1>2, AsideKeeps DEF CommandInv, Aside, pushVars, ledgerVars
  <2>2. CommandOK(u)'
    <3>1. CommandOK(u) /\ left'[u] = Tail(left[u]) /\ verb[u] \in {"inject", "fix"}
          /\ verb \in [Procs -> {"none", "inject", "fix", "restore"}]
      BY <1>0, <1>2 DEF CommandInv, CommandOK, Types
    <3>2. scenario[u] \in DOMAIN Scenario
      BY <1>0, <3>1, OfferedScenarios DEF CommandOK
    <3>3. Scenario[scenario[u]].inject \in Seq(Lines) /\ Scenario[scenario[u]].fix \in Seq(Lines)
      BY <3>2, ScenarioFacts DEF Undoes
    <3>4. /\ \A d, f : Cause(Tail(left[u]), d, f) => Cause(left[u], d, f)
          /\ Repairs(left[u]) => Repairs(Tail(left[u]))
      BY <1>0, FirstLine
    <3>5. /\ verb'[u] = verb[u] /\ scenario'[u] = scenario[u] /\ Offered' = Offered
          /\ at'[u] = at[u] /\ on'[u] = on[u] /\ ssh'[u] = ssh[u]
      BY <1>2 DEF pushVars, ledgerVars, Offered
    <3>6. CASE verb[u] = "inject"
      <4>1. Rest(Tail(left[u]), Scenario[scenario[u]].inject)
        BY <1>0, <3>1, <3>3, <3>6, RestFacts DEF CommandOK
      <4>2. QED
        BY <3>1, <3>4, <3>5, <3>6, <4>1 DEF CommandOK
    <3>7. CASE verb[u] = "fix"
      <4>1. Rest(Tail(left[u]), Scenario[scenario[u]].fix)
        BY <1>0, <3>1, <3>3, <3>7, RestFacts DEF CommandOK
      <4>2. QED
        BY <3>1, <3>4, <3>5, <3>7, <4>1 DEF CommandOK
    <3>8. QED
      BY <3>1, <3>6, <3>7
  <2>3. QED
    BY <2>1, <2>2 DEF CommandInv
<1>6. InjectInv'
  BY <1>2, InjectStays DEF BookInv, ledgerVars
<1>7. QED
  BY <1>4, <1>5, <1>6 DEF BookInv

\* The command of u ends; an injection in progress stays open.
LEMMA EndKeepsBooks ==
  ASSUME BookInv, NEW u \in Procs, Ends(u), PushTypeOK',
         at'[u] = "off", ssh'[u] # "lost",
         \A w \in Procs : w # u =>
            on'[w] = on[w] /\ at'[w] = at[w] /\ toSend'[w] = toSend[w] /\ ssh'[w] = ssh[w],
         UNCHANGED <<routeVars, exercise, commands>>,
         open' \subseteq open,
         \A w \in Procs : w # u /\ verb[w] = "inject" => scenario[w] \in open'
  PROVE  BookInv'
<1>0. /\ Types /\ CommandInv /\ InjectInv
      /\ verb \in [Procs -> {"none", "inject", "fix", "restore"}]
      /\ scenario \in [Procs -> Offered \cup {"none"}]
      /\ left \in [Procs -> Seq(Lines)]
      /\ met \in [Procs -> SUBSET Offered]
      /\ Offered' = Offered
  BY DEF BookInv, Types, Offered
<1>1. /\ verb' = [verb EXCEPT ![u] = "none"]
      /\ scenario' = [scenario EXCEPT ![u] = "none"]
      /\ left' = [left EXCEPT ![u] = <<>>]
      /\ met' = [met EXCEPT ![u] = {}]
  BY DEF Ends
<1>2. /\ verb'[u] = "none" /\ left'[u] = <<>>
      /\ \A w \in Procs : w # u => /\ verb'[w] = verb[w] /\ scenario'[w] = scenario[w]
                                   /\ left'[w] = left[w] /\ met'[w] = met[w]
  BY <1>0, <1>1
<1>3. Types'
  <2>1. <<>> \in Seq(Lines)
    BY EmptySeq
  <2>2. /\ verb' \in [Procs -> {"none", "inject", "fix", "restore"}]
        /\ scenario' \in [Procs -> Offered \cup {"none"}]
        /\ left' \in [Procs -> Seq(Lines)]
        /\ met' \in [Procs -> SUBSET Offered]
    BY <1>0, <1>1, <2>1
  <2>3. QED
    BY <1>0, <2>2 DEF Types, routeVars
<1>4. CommandInv'
  <2>1. ASSUME NEW w \in Procs, w # u PROVE CommandOK(w)'
    BY <2>1, <1>0, <1>2, AsideKeeps DEF CommandInv, Aside
  <2>2. CommandOK(u)'
    BY <1>2 DEF CommandOK
  <2>3. QED
    BY <2>1, <2>2 DEF CommandInv
<1>5. InjectInv'
  <2>1. SUFFICES ASSUME NEW w \in Procs, verb'[w] = "inject"
                 PROVE  /\ scenario'[w] \in open'
                        /\ \A x \in Procs : verb'[x] \in {"fix", "restore"} =>
                              scenario'[w] \in met'[x]
    BY DEF InjectInv
  <2>2. w # u /\ verb[w] = "inject" /\ scenario'[w] = scenario[w]
    BY <1>2, <2>1
  <2>3. QED
    BY <1>0, <1>2, <2>2 DEF InjectInv
<1>6. QED
  BY <1>3, <1>4, <1>5 DEF BookInv

\* A repair closes no scenario whose injection is in progress.
LEMMA ClosesFacts ==
  ASSUME BookInv, NEW u \in Procs, verb[u] \in {"fix", "restore"}, NEW repaired,
         Closes(u, repaired)
  PROVE  /\ open' \subseteq open
         /\ \A w \in Procs : w # u /\ verb[w] = "inject" => scenario[w] \in open'
<1>1. ASSUME NEW w \in Procs, verb[w] = "inject" PROVE scenario[w] \in open'
  <2>1. scenario[w] \in open /\ scenario[w] \in met[u]
    BY <1>1 DEF BookInv, InjectInv
  <2>2. scenario[w] \in DOMAIN Scenario
    BY <2>1, OfferedScenarios DEF BookInv, Types
  <2>3. Effects[scenario[w]] \cap Effects[scenario[w]] # {}
    BY <2>2, EffectFacts
  <2>4. QED
    BY <2>1, <2>3 DEF Closes
<1>2. QED
  BY <1>1 DEF Closes

LEMMA EndsKeepBooks ==
  ASSUME BookInv, NEW u \in Procs, EndInject(u) \/ EndFix(u) \/ Raises(u)
  PROVE  BookInv'
<1>1. /\ Ends(u) /\ UNCHANGED <<deviceVars, pushVars, routeVars, exercise, commands>>
      /\ verb[u] \in {"inject", "fix"}
  BY DEF EndInject, EndFix, Raises
<1>2. /\ open' \subseteq open
      /\ \A w \in Procs : w # u /\ verb[w] = "inject" => scenario[w] \in open'
  <2>1. CASE EndFix(u)
    BY <2>1, ClosesFacts DEF EndFix
  <2>2. CASE EndInject(u) \/ Raises(u)
    BY <2>2 DEF EndInject, Raises, BookInv, InjectInv
  <2>3. QED
    BY <2>1, <2>2
<1>3. /\ PushTypeOK'
      /\ at'[u] = "off" /\ ssh'[u] # "lost"
      /\ on' = on /\ at' = at /\ toSend' = toSend /\ ssh' = ssh
  BY <1>1 DEF BookInv, Types, PushTypeOK, CommandInv, CommandOK, pushVars, deviceVars
<1>4. \A w \in Procs : w # u =>
         on'[w] = on[w] /\ at'[w] = at[w] /\ toSend'[w] = toSend[w] /\ ssh'[w] = ssh[w]
  BY <1>3
<1>5. UNCHANGED <<routeVars, exercise, commands>>
  BY <1>1
<1>6. QED
  BY <1>1, <1>2, <1>3, <1>4, <1>5, EndKeepsBooks

LEMMA EndRestoreKeepsBooks ==
  ASSUME BookInv, NEW u \in Procs, EndRestore(u)
  PROVE  BookInv'
<1>1. /\ Ends(u) /\ UNCHANGED <<deviceVars, toSend, ssh>>
      /\ UNCHANGED <<routeVars, exercise, commands>>
      /\ verb[u] = "restore"
      /\ at' = [at EXCEPT ![u] = "off"] /\ on' = [on EXCEPT ![u] = NoDevice]
  BY DEF EndRestore
<1>2. /\ open' \subseteq open
      /\ \A w \in Procs : w # u /\ verb[w] = "inject" => scenario[w] \in open'
  <2>1. CASE at[u] = "ok"
    BY <1>1, <2>1, ClosesFacts DEF EndRestore
  <2>2. CASE at[u] # "ok"
    BY <2>2 DEF EndRestore, BookInv, InjectInv
  <2>3. QED
    BY <2>1, <2>2
<1>3. /\ PushTypeOK /\ ssh[u] # "lost"
      /\ at \in [Procs -> {"off"} \cup InPush \cup Returned]
      /\ on \in [Procs -> Devices \cup {NoDevice}]
  BY DEF BookInv, Types, PushTypeOK, CommandInv, CommandOK
<1>4. /\ PushTypeOK'
      /\ at'[u] = "off" /\ ssh'[u] # "lost"
  BY <1>1, <1>3 DEF PushTypeOK, deviceVars
<1>5. \A w \in Procs : w # u =>
         on'[w] = on[w] /\ at'[w] = at[w] /\ toSend'[w] = toSend[w] /\ ssh'[w] = ssh[w]
  BY <1>1, <1>3
<1>6. UNCHANGED <<routeVars, exercise, commands>>
  BY <1>1
<1>7. QED
  BY <1>1, <1>2, <1>4, <1>5, <1>6, EndKeepsBooks

\* A step of a restore's push: the faults of a configuration become fewer,
\* and nobody else's push moves.
LEMMA PushEffect ==
  ASSUME BookInv, NEW u \in Procs, Push(u)
  PROVE  /\ PushTypeOK' /\ on' = on
         /\ at[u] \in InPush /\ at'[u] \in InPush \cup Returned
         /\ ssh'[u] # "lost"
         /\ \A w \in Procs : w # u => at'[w] = at[w] /\ toSend'[w] = toSend[w] /\ ssh'[w] = ssh[w]
         /\ \A d \in Devices : running'[d] \subseteq running[d]
<1>0. /\ PushTypeOK /\ PushStep(u) /\ CommandOK(u) /\ ssh[u] # "lost"
      /\ running \in [Devices -> SUBSET Faults] /\ startup \in [Devices -> SUBSET Faults]
      /\ on \in [Procs -> Devices \cup {NoDevice}]
      /\ at \in [Procs -> {"off"} \cup InPush \cup Returned]
      /\ toSend \in [Procs -> SUBSET Faults]
      /\ ssh \in [Procs -> {"none", "up", "lost"}]
      /\ reloads \in 0..MaxReloads
  BY DEF BookInv, Types, PushTypeOK, CommandInv, CommandOK, Push
<1>1. CASE PushConnect(u)
  <2>1. Restores(on[u]) \in SUBSET Faults
    BY PushAssumption DEF Restores
  <2>2. /\ at[u] = "connect" /\ at' = [at EXCEPT ![u] = "lines"]
        /\ ssh' = [ssh EXCEPT ![u] = "up"]
        /\ toSend' = [toSend EXCEPT ![u] = Restores(on[u])]
        /\ UNCHANGED <<running, startup, reloads, on>>
    BY <1>1 DEF PushConnect, deviceVars
  <2>3. QED
    BY <1>0, <2>1, <2>2 DEF PushTypeOK, InPush
<1>2. CASE PushLine(u)
  <2>1. PICK f \in toSend[u] :
           /\ toSend' = [toSend EXCEPT ![u] = toSend[u] \ {f}]
           /\ Configure(on[u], running[on[u]] \ {f})
    BY <1>2 DEF PushLine
  <2>2. at[u] = "lines" /\ UNCHANGED <<on, at, ssh>>
    BY <1>2 DEF PushLine
  <2>3. on[u] \in Devices
    BY <1>0, <2>2 DEF CommandOK
  <2>4. /\ running' = [running EXCEPT ![on[u]] = running[on[u]] \ {f}]
        /\ startup' \in [Devices -> SUBSET Faults] /\ reloads' = reloads
    BY <1>0, <2>1, <2>3 DEF Configure
  <2>5. QED
    BY <1>0, <2>1, <2>2, <2>3, <2>4 DEF PushTypeOK, InPush
<1>3. CASE PushLineIneffective(u)
  <2>1. PICK f \in toSend[u] : toSend' = [toSend EXCEPT ![u] = toSend[u] \ {f}]
    BY <1>3 DEF PushLineIneffective
  <2>2. at[u] = "lines" /\ UNCHANGED <<running, startup, reloads, on, at, ssh>>
    BY <1>3 DEF PushLineIneffective, deviceVars
  <2>3. QED
    BY <1>0, <2>1, <2>2 DEF PushTypeOK, InPush
<1>4. CASE PushSave(u)
  <2>1. /\ at[u] = "lines" /\ at' = [at EXCEPT ![u] = "verify"]
        /\ startup' = [startup EXCEPT ![on[u]] = running[on[u]]]
        /\ UNCHANGED <<running, reloads, on, toSend, ssh>>
    BY <1>4 DEF PushSave
  <2>2. on[u] \in Devices
    BY <1>0, <2>1 DEF CommandOK
  <2>3. QED
    BY <1>0, <2>1, <2>2 DEF PushTypeOK, InPush
<1>5. CASE PushDone(u) \/ PushFails(u)
  <2>1. PICK o \in Returned : LeavePush(u, o)
    BY <1>5 DEF PushDone, PushFails, Returned
  <2>2. UNCHANGED <<running, startup, reloads, on>> /\ at[u] \in InPush
    BY <1>5 DEF PushDone, PushFails, deviceVars, InPush
  <2>3. QED
    BY <1>0, <2>1, <2>2 DEF PushTypeOK, LeavePush
<1>6. QED
  BY <1>0, <1>1, <1>2, <1>3, <1>4, <1>5 DEF PushStep

LEMMA PushKeepsBooks ==
  ASSUME BookInv, NEW u \in Procs, Push(u)
  PROVE  BookInv'
<1>0. Types /\ CommandInv /\ InjectInv
  BY DEF BookInv
<1>1. /\ PushTypeOK' /\ on' = on
      /\ at[u] \in InPush /\ at'[u] \in InPush \cup Returned /\ ssh'[u] # "lost"
      /\ \A w \in Procs : w # u => at'[w] = at[w] /\ toSend'[w] = toSend[w] /\ ssh'[w] = ssh[w]
  BY PushEffect
<1>2. UNCHANGED <<cliVars, routeVars, ledgerVars>>
  BY DEF Push
<1>3. Types'
  BY <1>0, <1>1, <1>2 DEF Types, cliVars, routeVars, ledgerVars, Offered
<1>4. CommandInv'
  <2>1. ASSUME NEW w \in Procs, w # u PROVE CommandOK(w)'
    BY <2>1, <1>0, <1>1, <1>2, AsideKeeps DEF CommandInv, Aside, cliVars, ledgerVars
  <2>2. CommandOK(u) /\ at[u] # "off"
    BY <1>0, <1>1 DEF CommandInv, InPush
  <2>3. verb[u] = "restore" /\ on[u] \in Devices /\ left[u] = <<>>
    BY <2>2 DEF CommandOK
  <2>4. CommandOK(u)'
    BY <2>2, <2>3, <1>1, <1>2 DEF CommandOK, cliVars, ledgerVars, Offered
  <2>5. QED
    BY <2>1, <2>4 DEF CommandInv
<1>5. InjectInv'
  BY <1>0, <1>2, InjectStays DEF cliVars, ledgerVars
<1>6. QED
  BY <1>3, <1>4, <1>5 DEF BookInv

\* The network's own steps.
NetworkStep(d) ==
  \/ \E P \in {FromPrimary, FromSecondary} : Relearn(d, P)
  \/ SessionFalls(d) \/ SessionRises(d)

LEMMA NetworkKeepsBooks ==
  ASSUME BookInv, NEW d \in Devices, NetworkStep(d)
  PROVE  BookInv'
<1>0. /\ Types /\ CommandInv /\ InjectInv /\ PushTypeOK
      /\ inForce \in [Devices -> SUBSET InboundFaults] /\ down \in [Devices -> BOOLEAN]
  BY DEF BookInv, Types
<1>1. UNCHANGED <<deviceVars, pushVars, cliVars, ledgerVars>>
  BY DEF NetworkStep, Relearn, SessionFalls, SessionRises
<1>2. /\ inForce' \in [Devices -> SUBSET InboundFaults]
      /\ down' \in [Devices -> BOOLEAN]
  <2>1. \A P \in {FromPrimary, FromSecondary} : Relearnt(d, P) \in SUBSET InboundFaults
    BY <1>0 DEF Relearnt, Policy, InboundFaults
  <2>2. \/ inForce' = inForce
        \/ \E P \in {FromPrimary, FromSecondary} :
              inForce' = [inForce EXCEPT ![d] = Relearnt(d, P)]
    BY DEF NetworkStep, Relearn, SessionFalls, SessionRises
  <2>3. \/ down' = down
        \/ \E b \in BOOLEAN : down' = [down EXCEPT ![d] = b]
    BY DEF NetworkStep, Relearn, SessionFalls, SessionRises
  <2>4. inForce' \in [Devices -> SUBSET InboundFaults]
    BY <1>0, <2>1, <2>2
  <2>5. down' \in [Devices -> BOOLEAN]
    BY <1>0, <2>3
  <2>6. QED
    BY <2>4, <2>5
<1>3. PushTypeOK'
  BY <1>0, <1>1 DEF PushTypeOK, deviceVars, pushVars
<1>4. Types'
  BY <1>0, <1>1, <1>2, <1>3 DEF Types, cliVars, ledgerVars, Offered
<1>5. CommandInv'
  BY <1>0, <1>1, AsideKeeps DEF CommandInv, Aside, pushVars, cliVars, ledgerVars
<1>6. InjectInv'
  BY <1>0, <1>1, InjectStays DEF cliVars, ledgerVars
<1>7. QED
  BY <1>4, <1>5, <1>6 DEF BookInv

LEMMA BookNext == BookInv /\ [Next]_vars => BookInv'
<1> SUFFICES ASSUME BookInv, [Next]_vars PROVE BookInv'
  OBVIOUS
<1>1. ASSUME NEW u \in Procs, NEW s \in Offered,
             CmdInject(u, s) \/ CmdFix(u, s) \/ CmdRestore(u, s)
      PROVE  BookInv'
  BY <1>1, StartKeepsBooks
<1>2. ASSUME NEW u \in Procs, SendLine(u) PROVE BookInv'
  BY <1>2, SendKeepsBooks
<1>3. ASSUME NEW u \in Procs, EndInject(u) \/ EndFix(u) \/ Raises(u) PROVE BookInv'
  BY <1>3, EndsKeepBooks
<1>4. ASSUME NEW u \in Procs, EndRestore(u) PROVE BookInv'
  BY <1>4, EndRestoreKeepsBooks
<1>5. ASSUME NEW u \in Procs, Push(u) PROVE BookInv'
  BY <1>5, PushKeepsBooks
<1>6. ASSUME NEW d \in Devices, NetworkStep(d) PROVE BookInv'
  BY <1>6, NetworkKeepsBooks
<1>7. CASE UNCHANGED vars
  BY <1>7 DEF vars, deviceVars, pushVars, cliVars, routeVars, ledgerVars, BookInv, Types,
              PushTypeOK, CommandInv, CommandOK, InjectInv, Offered
<1>8. QED
  BY <1>1, <1>2, <1>3, <1>4, <1>5, <1>6, <1>7 DEF Next, NetworkStep

\* Every command is one the users were offered and sends only lines of its
\* own scenario, for any number of users, commands and devices.
THEOREM TypeCorrect == Spec => []TypeOK
<1>1. BookInv => TypeOK
  BY BookTypes DEF BookInv
<1>2. QED
  BY <1>1, BookInit, BookNext, PTL DEF Spec

-----------------------------------------------------------------------------
(***************************************************************************)
(* Repairs: which faults a repair in progress has made sure are gone.      *)
(***************************************************************************)
Unmet(u, d, f) == \A t \in met[u] : <<d, f>> \notin Effects[t]

\* A fix has taken back each fault of its scenario that it will not clear
\* any more, and the routes no longer go by one they will not be learnt
\* under anew.
FixClean(u) ==
  verb[u] = "fix" =>
    \A d, f : <<d, f>> \in Effects[scenario[u]] /\ Unmet(u, d, f) /\ ~Clear(left[u], d, f) =>
      f \notin running[d] /\ (~Learn(left[u], d, f) => f \notin inForce[d])

\* A restore has taken back each fault the file has a line against, once the
\* line has been sent.
PushClean(u) ==
  verb[u] = "restore" =>
    \A f \in Restores(on[u]) : Unmet(u, on[u], f) =>
      \/ at[u] \in {"connect", "failed"}
      \/ at[u] = "lines" /\ f \in toSend[u]
      \/ f \notin running[on[u]]

CleanInv == \A u \in Procs : FixClean(u) /\ PushClean(u)

AllOpen ==
  \A d \in Devices : \A f \in running[d] \cup inForce[d] :
    \E s \in open : <<d, f>> \in Effects[s]

RepairInv == BookInv /\ CleanInv /\ AllOpen

\* Only an injection in progress adds faults to a configuration, and routes
\* are learnt under no other policy than the configured one.
Growth ==
  \A d \in Devices :
    /\ \A f \in running'[d] \ running[d] :
          \E w \in Procs : verb[w] = "inject" /\ <<d, f>> \in Effects[scenario[w]]
    /\ inForce'[d] \subseteq inForce[d] \cup running[d]

UserStep(u) ==
  \/ \E s \in Offered : CmdInject(u, s) \/ CmdFix(u, s) \/ CmdRestore(u, s)
  \/ SendLine(u) \/ EndInject(u) \/ EndFix(u) \/ EndRestore(u) \/ Raises(u) \/ Push(u)

LEMMA LinesTaken ==
  ASSUME BookInv, NEW u \in Procs, SendLine(u)
  PROVE  LET l == Head(left[u]) IN
         /\ l \in Lines /\ left[u] \in Seq(Lines) /\ left[u] # <<>>
         /\ \A d \in Devices :
              /\ running'[d] = IF d = l.on THEN (running[d] \ l.clears) \cup l.sets
                               ELSE running[d]
              /\ inForce'[d] = IF d = l.on THEN Relearnt(d, l.relearns) ELSE inForce[d]
         /\ left'[u] = Tail(left[u])
         /\ UNCHANGED <<verb, scenario, met, open, exercise>>
         /\ verb[u] \in {"inject", "fix"} /\ scenario[u] \in DOMAIN Scenario
<1> DEFINE l == Head(left[u])
<1>1. /\ left[u] \in Seq(Lines) /\ left[u] # <<>> /\ CommandOK(u)
      /\ verb[u] \in {"none", "inject", "fix", "restore"}
      /\ running \in [Devices -> SUBSET Faults]
      /\ inForce \in [Devices -> SUBSET InboundFaults]
      /\ left \in [Procs -> Seq(Lines)]
  BY DEF BookInv, Types, PushTypeOK, CommandInv, SendLine
<1>2. l \in Lines
  BY <1>1, FirstLine
<1>3. l.on \in Devices
  BY <1>2 DEF Lines
<1>4. /\ running' = [running EXCEPT ![l.on] = (running[l.on] \ l.clears) \cup l.sets]
      /\ inForce' = [inForce EXCEPT ![l.on] = Relearnt(l.on, l.relearns)]
      /\ left' = [left EXCEPT ![u] = Tail(left[u])]
      /\ UNCHANGED <<verb, scenario, met, open, exercise>>
  BY DEF SendLine, Configure, ledgerVars
<1>5. verb[u] \in {"inject", "fix"} /\ scenario[u] \in DOMAIN Scenario
  BY <1>1, OfferedScenarios DEF CommandOK, BookInv
<1> HIDE DEF l
<1>6. \A d \in Devices :
         /\ running'[d] = IF d = l.on THEN (running[d] \ l.clears) \cup l.sets
                          ELSE running[d]
         /\ inForce'[d] = IF d = l.on THEN Relearnt(d, l.relearns) ELSE inForce[d]
  BY <1>1, <1>3, <1>4
<1>7. left'[u] = Tail(left[u])
  BY <1>1, <1>4
<1>8. QED
  BY <1>1, <1>2, <1>4, <1>5, <1>6, <1>7 DEF l

LEMMA RelearntFacts ==
  ASSUME NEW d \in Devices, NEW P
  PROVE  Relearnt(d, P) \subseteq (inForce[d] \ P) \cup running[d]
  BY DEF Relearnt, Policy

LEMMA Grows ==
  ASSUME BookInv, Next
  PROVE  Growth
<1>1. ASSUME NEW u \in Procs, SendLine(u) PROVE Growth
  <2> DEFINE l == Head(left[u])
  <2>1. /\ l \in Lines /\ left[u] \in Seq(Lines) /\ left[u] # <<>>
        /\ \A d \in Devices :
              /\ running'[d] = IF d = l.on THEN (running[d] \ l.clears) \cup l.sets
                               ELSE running[d]
              /\ inForce'[d] = IF d = l.on THEN Relearnt(d, l.relearns) ELSE inForce[d]
        /\ verb[u] \in {"inject", "fix"} /\ CommandOK(u)
    BY <1>1, LinesTaken DEF BookInv, CommandInv
  <2>2. ASSUME NEW f \in l.sets
        PROVE  verb[u] = "inject" /\ <<l.on, f>> \in Effects[scenario[u]]
    <3>1. Cause(left[u], l.on, f) /\ ~Repairs(left[u])
      BY <2>1, <2>2, FirstLine
    <3>2. QED
      BY <2>1, <3>1 DEF CommandOK
  <2> HIDE DEF l
  <2>3. ASSUME NEW d \in Devices, NEW f \in running'[d] \ running[d]
        PROVE  \E w \in Procs : verb[w] = "inject" /\ <<d, f>> \in Effects[scenario[w]]
    <3>1. d = l.on /\ f \in l.sets
      BY <2>1, <2>3
    <3>2. QED
      BY <2>2, <3>1
  <2>4. ASSUME NEW d \in Devices PROVE inForce'[d] \subseteq inForce[d] \cup running[d]
    <3>1. Relearnt(d, l.relearns) \subseteq inForce[d] \cup running[d]
      BY RelearntFacts
    <3>2. QED
      BY <2>1, <3>1
  <2>5. QED
    BY <2>3, <2>4 DEF Growth
<1>2. ASSUME NEW u \in Procs, Push(u) PROVE Growth
  <2>1. /\ \A d \in Devices : running'[d] \subseteq running[d]
        /\ inForce' = inForce
    BY <1>2, PushEffect DEF Push, routeVars
  <2>2. QED
    BY <2>1 DEF Growth
<1>3. ASSUME NEW d \in Devices, NetworkStep(d) PROVE Growth
  <2>1. /\ running' = running /\ inForce \in [Devices -> SUBSET InboundFaults]
        /\ \/ inForce' = inForce
           \/ \E P \in {FromPrimary, FromSecondary} :
                 inForce' = [inForce EXCEPT ![d] = Relearnt(d, P)]
    BY <1>3 DEF NetworkStep, Relearn, SessionFalls, SessionRises, deviceVars, BookInv, Types
  <2>2. \A P : Relearnt(d, P) \subseteq inForce[d] \cup running[d]
    BY RelearntFacts
  <2>3. QED
    BY <2>1, <2>2 DEF Growth
<1>4. ASSUME UNCHANGED <<running, inForce>> PROVE Growth
  BY <1>4 DEF Growth
<1>5. ASSUME NEW u \in Procs, UserStep(u), ~SendLine(u), ~Push(u) PROVE Growth
  <2>1. UNCHANGED <<running, inForce>>
    BY <1>5 DEF UserStep, CmdInject, CmdFix, CmdRestore, EndInject, EndFix, EndRestore, Raises,
                deviceVars, routeVars
  <2>2. QED
    BY <2>1, <1>4
<1>6. QED
  BY <1>1, <1>2, <1>3, <1>5 DEF Next, UserStep, NetworkStep

\* Another user's step leaves what a repair has made sure of.
LEMMA Bystander ==
  ASSUME BookInv, Growth, NEW u \in Procs, Aside(u), met[u] \subseteq met'[u],
         FixClean(u), PushClean(u)
  PROVE  FixClean(u)' /\ PushClean(u)'
<1>1. ASSUME NEW d \in Devices, NEW f, Unmet(u, d, f)', verb[u] \in {"fix", "restore"},
             f \notin running[d]
      PROVE  f \notin running'[d]
  <2>1. SUFFICES ASSUME f \in running'[d] PROVE FALSE
    OBVIOUS
  <2>2. PICK w \in Procs : verb[w] = "inject" /\ <<d, f>> \in Effects[scenario[w]]
    BY <1>1, <2>1 DEF Growth
  <2>3. scenario[w] \in met[u]
    BY <1>1, <2>2 DEF BookInv, InjectInv
  <2>4. QED
    BY <1>1, <2>2, <2>3 DEF Unmet
<1>2. \A d, f : Unmet(u, d, f)' => Unmet(u, d, f)
  BY DEF Unmet
<1>3. FixClean(u)'
  <2>1. SUFFICES ASSUME verb[u] = "fix", NEW d, NEW f,
                        <<d, f>> \in Effects[scenario[u]], Unmet(u, d, f)',
                        ~Clear(left[u], d, f)
                 PROVE  f \notin running'[d] /\ (~Learn(left[u], d, f) => f \notin inForce'[d])
    BY DEF FixClean, Aside
  <2>2. d \in Devices
    <3>1. scenario[u] \in DOMAIN Scenario
      BY <2>1, OfferedScenarios DEF BookInv, CommandInv, CommandOK
    <3>2. QED
      BY <2>1, <3>1, EffectFacts
  <2>3. f \notin running[d] /\ (~Learn(left[u], d, f) => f \notin inForce[d])
    BY <2>1, <1>2 DEF FixClean
  <2>4. QED
    BY <1>1, <2>1, <2>2, <2>3 DEF Growth
<1>4. PushClean(u)'
  <2>1. SUFFICES ASSUME verb[u] = "restore", NEW d, d = on[u], NEW f \in Restores(d),
                        Unmet(u, d, f)'
                 PROVE  \/ at[u] \in {"connect", "failed"}
                        \/ at[u] = "lines" /\ f \in toSend[u]
                        \/ f \notin running'[d]
    BY DEF PushClean, Aside
  <2>2. d \in Devices
    BY <2>1 DEF BookInv, CommandInv, CommandOK
  <2>3. \/ at[u] \in {"connect", "failed"}
        \/ at[u] = "lines" /\ f \in toSend[u]
        \/ f \notin running[d]
    BY <1>2, <2>1 DEF PushClean
  <2>4. QED
    BY <1>1, <2>1, <2>2, <2>3
<1>5. QED
  BY <1>3, <1>4

LEMMA OthersAside ==
  ASSUME BookInv, NEW u \in Procs, UserStep(u), NEW w \in Procs, w # u
  PROVE  Aside(w) /\ met[w] \subseteq met'[w]
<1>0. /\ left \in [Procs -> Seq(Lines)] /\ verb \in [Procs -> {"none", "inject", "fix", "restore"}]
      /\ scenario \in [Procs -> Offered \cup {"none"}]
      /\ met \in [Procs -> SUBSET Offered]
      /\ on \in [Procs -> Devices \cup {NoDevice}]
      /\ at \in [Procs -> {"off"} \cup InPush \cup Returned]
  BY DEF BookInv, Types, PushTypeOK
<1>1. ASSUME NEW s \in Offered, CmdInject(u, s) \/ CmdFix(u, s) \/ CmdRestore(u, s)
      PROVE  Aside(w) /\ met[w] \subseteq met'[w]
  <2>1. PICK v \in {"inject", "fix", "restore"} : Starts(u, v, s)
    BY <1>1 DEF CmdInject, CmdFix, CmdRestore
  <2>2. verb'[w] = verb[w] /\ scenario'[w] = scenario[w] /\ met[w] \subseteq met'[w]
    BY <2>1, StartEffect
  <2>3. on'[w] = on[w] /\ at'[w] = at[w] /\ toSend'[w] = toSend[w] /\ ssh'[w] = ssh[w]
        /\ left'[w] = left[w]
    BY <1>0, <1>1 DEF CmdInject, CmdFix, CmdRestore, pushVars
  <2>4. QED
    BY <2>2, <2>3 DEF Aside
<1>2. CASE SendLine(u)
  BY <1>0, <1>2 DEF SendLine, Aside, pushVars, ledgerVars
<1>3. CASE EndInject(u) \/ EndFix(u) \/ EndRestore(u) \/ Raises(u)
  <2>1. /\ verb'[w] = verb[w] /\ scenario'[w] = scenario[w] /\ left'[w] = left[w]
        /\ met'[w] = met[w]
    BY <1>0, <1>3 DEF EndInject, EndFix, EndRestore, Raises, Ends
  <2>2. on'[w] = on[w] /\ at'[w] = at[w] /\ toSend'[w] = toSend[w] /\ ssh'[w] = ssh[w]
    BY <1>0, <1>3 DEF EndInject, EndFix, EndRestore, Raises, pushVars
  <2>3. QED
    BY <2>1, <2>2 DEF Aside
<1>4. CASE Push(u)
  <2>1. UNCHANGED <<verb, scenario, left, met, on>>
    BY <1>4, PushEffect DEF Push, cliVars, ledgerVars
  <2>2. at'[w] = at[w] /\ toSend'[w] = toSend[w] /\ ssh'[w] = ssh[w]
    BY <1>4, PushEffect
  <2>3. QED
    BY <2>1, <2>2 DEF Aside
<1>5. QED
  BY <1>1, <1>2, <1>3, <1>4 DEF UserStep

\* A fix sends a line.
LEMMA FixSends ==
  ASSUME RepairInv, NEW u \in Procs, SendLine(u)
  PROVE  FixClean(u)' /\ PushClean(u)'
<1> DEFINE l == Head(left[u])
<1>1. /\ l \in Lines /\ left[u] \in Seq(Lines) /\ left[u] # <<>>
      /\ \A d \in Devices :
            /\ running'[d] = IF d = l.on THEN (running[d] \ l.clears) \cup l.sets
                             ELSE running[d]
            /\ inForce'[d] = IF d = l.on THEN Relearnt(d, l.relearns) ELSE inForce[d]
      /\ left'[u] = Tail(left[u])
      /\ UNCHANGED <<verb, scenario, met, open, exercise>>
      /\ verb[u] \in {"inject", "fix"} /\ scenario[u] \in DOMAIN Scenario
      /\ CommandOK(u) /\ FixClean(u)
      /\ inForce \in [Devices -> SUBSET InboundFaults]
  BY LinesTaken DEF RepairInv, BookInv, CommandInv, CleanInv, Types
<1>2. /\ \A d, f : Clear(left[u], d, f) <=>
                      (l.on = d /\ f \in l.clears) \/ Clear(Tail(left[u]), d, f)
      /\ \A d, f : Learn(left[u], d, f) <=>
                      (l.on = d /\ f \in l.relearns) \/ Learn(Tail(left[u]), d, f)
      /\ Repairs(left[u]) =>
            /\ Repairs(Tail(left[u])) /\ l.sets = {}
            /\ \A f \in l.clears \cap InboundFaults : Learn(Tail(left[u]), l.on, f)
  BY <1>1, FirstLine
<1> HIDE DEF l
<1>3. PushClean(u)'
  BY <1>1 DEF PushClean
<1>4. FixClean(u)'
  <2>1. SUFFICES ASSUME verb[u] = "fix", NEW d, NEW f,
                        <<d, f>> \in Effects[scenario[u]], Unmet(u, d, f),
                        ~Clear(Tail(left[u]), d, f)
                 PROVE  /\ f \notin running'[d]
                        /\ ~Learn(Tail(left[u]), d, f) => f \notin inForce'[d]
    BY <1>1 DEF FixClean, Unmet
  <2>2. d \in Devices /\ Repairs(left[u])
    BY <1>1, <2>1, EffectFacts DEF CommandOK
  <2>3. CASE d = l.on /\ f \in l.clears
    <3>1. f \notin running'[d]
      BY <1>1, <1>2, <2>2, <2>3
    <3>2. ASSUME ~Learn(Tail(left[u]), d, f) PROVE f \notin inForce'[d]
      <4>1. f \notin InboundFaults
        BY <1>2, <2>2, <2>3, <3>2
      <4>2. Relearnt(d, l.relearns) \subseteq InboundFaults
        <5>1. inForce[d] \subseteq InboundFaults
          BY <1>1, <2>2
        <5>2. QED
          BY <5>1 DEF Relearnt, Policy, InboundFaults
      <4>3. QED
        BY <1>1, <2>2, <2>3, <4>1, <4>2
    <3>3. QED
      BY <3>1, <3>2
  <2>4. CASE ~(d = l.on /\ f \in l.clears)
    <3>1. ~Clear(left[u], d, f)
      BY <1>2, <2>1, <2>4
    <3>2. f \notin running[d] /\ (~Learn(left[u], d, f) => f \notin inForce[d])
      BY <1>1, <2>1, <3>1 DEF FixClean
    <3>3. f \notin running'[d]
      BY <1>1, <1>2, <2>2, <3>2
    <3>4. ASSUME ~Learn(Tail(left[u]), d, f) PROVE f \notin inForce'[d]
      <4>1. Relearnt(d, l.relearns) \subseteq (inForce[d] \ l.relearns) \cup running[d]
        BY <2>2, RelearntFacts
      <4>2. CASE d = l.on /\ f \in l.relearns
        BY <1>1, <2>2, <3>2, <4>1, <4>2
      <4>3. CASE ~(d = l.on /\ f \in l.relearns)
        <5>1. f \notin inForce[d]
          BY <1>2, <3>2, <3>4, <4>3
        <5>2. QED
          BY <1>1, <2>2, <3>2, <4>1, <5>1
      <4>4. QED
        BY <4>2, <4>3
    <3>5. QED
      BY <3>3, <3>4
  <2>5. QED
    BY <2>3, <2>4
<1>5. QED
  BY <1>3, <1>4

\* A restore's push makes a step.
LEMMA RestorePushes ==
  ASSUME RepairInv, NEW u \in Procs, Push(u), ~Rejections
  PROVE  FixClean(u)' /\ PushClean(u)'
<1>1. /\ on' = on /\ at[u] \in InPush /\ ssh[u] # "lost"
      /\ \A d \in Devices : running'[d] \subseteq running[d]
      /\ CommandOK(u) /\ PushClean(u) /\ PushStep(u)
      /\ UNCHANGED <<verb, scenario, met>>
      /\ at \in [Procs -> {"off"} \cup InPush \cup Returned]
      /\ toSend \in [Procs -> SUBSET Faults]
      /\ running \in [Devices -> SUBSET Faults]
  BY PushEffect DEF RepairInv, BookInv, CommandInv, CommandOK, CleanInv, Push, cliVars,
     ledgerVars, Types, PushTypeOK
<1>2. verb[u] = "restore" /\ on[u] \in Devices
  BY <1>1 DEF CommandOK, InPush
<1>3. FixClean(u)'
  BY <1>1, <1>2 DEF FixClean
<1>4. PushClean(u)'
  <2>1. SUFFICES ASSUME NEW d, d = on[u], NEW f \in Restores(d), Unmet(u, d, f)
                 PROVE  \/ at'[u] \in {"connect", "failed"}
                        \/ at'[u] = "lines" /\ f \in toSend'[u]
                        \/ f \notin running'[d]
    BY <1>1 DEF PushClean, Unmet
  <2>2. /\ d \in Devices
        /\ \/ at[u] \in {"connect", "failed"}
           \/ at[u] = "lines" /\ f \in toSend[u]
           \/ f \notin running'[d]
    BY <1>1, <1>2, <2>1 DEF PushClean
  <2>3. CASE PushConnect(u)
    BY <1>1, <2>1, <2>3 DEF PushConnect
  <2>4. CASE PushLine(u)
    <3>1. PICK g \in toSend[u] :
             /\ toSend' = [toSend EXCEPT ![u] = toSend[u] \ {g}]
             /\ Configure(d, running[d] \ {g})
      BY <2>1, <2>4 DEF PushLine
    <3>2. at[u] = "lines" /\ at'[u] = "lines"
      BY <2>4 DEF PushLine
    <3>3. toSend'[u] = toSend[u] \ {g} /\ running'[d] = running[d] \ {g}
      BY <1>1, <2>2, <3>1 DEF Configure
    <3>4. QED
      BY <2>2, <3>2, <3>3
  <2>5. CASE PushLineIneffective(u)
    BY <1>1, <2>5 DEF PushLineIneffective
  <2>6. CASE PushSave(u) \/ PushDone(u)
    <3>1. \/ at[u] = "verify"
          \/ at[u] = "lines" /\ toSend[u] = {}
      BY <2>6 DEF PushSave, PushDone
    <3>2. QED
      BY <2>2, <3>1
  <2>7. CASE PushFails(u)
    BY <1>1, <2>7 DEF PushFails, LeavePush
  <2>8. QED
    BY <1>1, <2>3, <2>4, <2>5, <2>6, <2>7 DEF PushStep
<1>5. QED
  BY <1>3, <1>4

LEMMA ActorKeepsClean ==
  ASSUME RepairInv, NEW u \in Procs, UserStep(u), ~Rejections
  PROVE  FixClean(u)' /\ PushClean(u)'
<1>0. /\ BookInv /\ verb \in [Procs -> {"none", "inject", "fix", "restore"}]
      /\ at \in [Procs -> {"off"} \cup InPush \cup Returned]
      /\ on \in [Procs -> Devices \cup {NoDevice}]
      /\ left \in [Procs -> Seq(Lines)]
  BY DEF RepairInv, BookInv, Types, PushTypeOK
<1>1. ASSUME NEW s \in Offered, CmdInject(u, s) PROVE FixClean(u)' /\ PushClean(u)'
  <2>1. verb'[u] = "inject"
    BY <1>0, <1>1, StartEffect DEF CmdInject
  <2>2. QED
    BY <2>1 DEF FixClean, PushClean
<1>2. ASSUME NEW s \in Offered, CmdFix(u, s) PROVE FixClean(u)' /\ PushClean(u)'
  <2>1. verb'[u] = "fix" /\ scenario'[u] = s /\ left'[u] = Scenario[s].fix
    BY <1>0, <1>2, StartEffect DEF CmdFix
  <2>2. s \in DOMAIN Scenario
    BY <1>0, OfferedScenarios DEF BookInv
  <2>3. \A d, f : <<d, f>> \in Effects[s] => Clear(Scenario[s].fix, d, f)
    BY <2>2, EffectFacts
  <2>4. QED
    BY <2>1, <2>3 DEF FixClean, PushClean
<1>3. ASSUME NEW s \in Offered, CmdRestore(u, s) PROVE FixClean(u)' /\ PushClean(u)'
  <2>1. verb'[u] = "restore" /\ at'[u] = "connect"
    BY <1>0, <1>3, StartEffect DEF CmdRestore
  <2>2. QED
    BY <2>1 DEF FixClean, PushClean
<1>4. CASE SendLine(u)
  BY <1>4, FixSends
<1>5. CASE EndInject(u) \/ EndFix(u) \/ EndRestore(u) \/ Raises(u)
  <2>1. verb'[u] = "none"
    BY <1>0, <1>5 DEF EndInject, EndFix, EndRestore, Raises, Ends
  <2>2. QED
    BY <2>1 DEF FixClean, PushClean
<1>6. CASE Push(u)
  BY <1>6, RestorePushes
<1>7. QED
  BY <1>1, <1>2, <1>3, <1>4, <1>5, <1>6 DEF UserStep

\* A repair that ends well leaves nothing of what it closes.
LEMMA ClosedIsClean ==
  ASSUME RepairInv, NEW u \in Procs, EndFix(u) \/ EndRestore(u),
         NEW s \in open, s \notin open', NEW d \in Devices, NEW f, <<d, f>> \in Effects[s]
  PROVE  f \notin running[d] /\ f \notin inForce[d]
<1>1. FixClean(u) /\ PushClean(u) /\ CommandOK(u) /\ inForce[d] \subseteq InboundFaults
  BY DEF RepairInv, CleanInv, BookInv, CommandInv, Types
<1>2. ASSUME NEW repaired, Closes(u, repaired)
      PROVE  <<d, f>> \in repaired /\ Unmet(u, d, f)
  BY <1>2 DEF Closes, Unmet
<1>3. CASE EndFix(u)
  <2>1. verb[u] = "fix" /\ left[u] = <<>> /\ Closes(u, Effects[scenario[u]])
    BY <1>3 DEF EndFix
  <2>2. <<d, f>> \in Effects[scenario[u]] /\ Unmet(u, d, f)
    BY <1>2, <2>1
  <2>3. QED
    BY <1>1, <2>1, <2>2, NoLine DEF FixClean
<1>4. CASE EndRestore(u)
  <2>1. /\ verb[u] = "restore" /\ at[u] = "ok"
        /\ Closes(u, {on[u]} \X (Restores(on[u]) \ (FromPrimary \cup FromSecondary)))
    BY <1>4 DEF EndRestore
  <2>2. d = on[u] /\ f \in Restores(on[u]) /\ f \notin InboundFaults /\ Unmet(u, d, f)
    BY <1>2, <2>1 DEF InboundFaults
  <2>3. f \notin running[d]
    BY <1>1, <2>1, <2>2 DEF PushClean
  <2>4. QED
    BY <1>1, <2>2, <2>3
<1>5. QED
  BY <1>3, <1>4

LEMMA OpenNext ==
  ASSUME RepairInv, Next
  PROVE  AllOpen'
<1>1. SUFFICES ASSUME NEW d \in Devices, NEW f \in running'[d] \cup inForce'[d]
               PROVE  \E s \in open' : <<d, f>> \in Effects[s]
  BY DEF AllOpen
<1>2. Growth /\ BookInv /\ AllOpen
  BY Grows DEF RepairInv
<1>3. PICK s \in open : <<d, f>> \in Effects[s]
  <2>1. CASE f \in running[d] \cup inForce[d]
    BY <1>2, <2>1 DEF AllOpen
  <2>2. CASE f \notin running[d] \cup inForce[d]
    <3>1. f \in running'[d] \ running[d]
      BY <1>1, <1>2, <2>2 DEF Growth
    <3>2. PICK w \in Procs : verb[w] = "inject" /\ <<d, f>> \in Effects[scenario[w]]
      BY <1>2, <3>1 DEF Growth
    <3>3. QED
      BY <1>2, <3>2 DEF BookInv, InjectInv
  <2>3. QED
    BY <2>1, <2>2
<1>4. CASE s \in open'
  BY <1>3, <1>4
<1>5. CASE s \notin open'
  <2>1. PICK u \in Procs : EndFix(u) \/ EndRestore(u)
    <3>1. ASSUME open \subseteq open' PROVE FALSE
      BY <1>5, <3>1
    <3>2. ASSUME NEW u \in Procs, NEW v \in Offered,
                 CmdInject(u, v) \/ CmdFix(u, v) \/ CmdRestore(u, v)
          PROVE  open \subseteq open'
      BY <3>2 DEF CmdInject, CmdFix, CmdRestore
    <3>3. ASSUME NEW u \in Procs, SendLine(u) \/ EndInject(u) \/ Raises(u) \/ Push(u)
          PROVE  open \subseteq open'
      BY <3>3 DEF SendLine, EndInject, Raises, Push, ledgerVars
    <3>4. ASSUME NEW c \in Devices, NetworkStep(c) PROVE open \subseteq open'
      BY <3>4 DEF NetworkStep, Relearn, SessionFalls, SessionRises, ledgerVars
    <3>5. QED
      BY <3>1, <3>2, <3>3, <3>4 DEF Next, NetworkStep
  <2>2. running' = running /\ inForce' = inForce
    BY <2>1 DEF EndFix, EndRestore, deviceVars, routeVars
  <2>3. QED
    BY <1>1, <1>3, <1>5, <2>1, <2>2, ClosedIsClean
<1>6. QED
  BY <1>4, <1>5

LEMMA RepairNext == ~Rejections /\ RepairInv /\ [Next]_vars => RepairInv'
<1> SUFFICES ASSUME ~Rejections, RepairInv, [Next]_vars PROVE RepairInv'
  OBVIOUS
<1>0. BookInv /\ CleanInv /\ AllOpen
  BY DEF RepairInv
<1>1. BookInv'
  BY <1>0, BookNext
<1>2. CASE Next
  <2>1. Growth
    BY <1>0, <1>2, Grows
  <2>2. ASSUME NEW u \in Procs, UserStep(u) PROVE CleanInv'
    <3>1. ASSUME NEW w \in Procs, w # u PROVE FixClean(w)' /\ PushClean(w)'
      <4>1. Aside(w) /\ met[w] \subseteq met'[w]
        BY <1>0, <2>2, <3>1, OthersAside
      <4>2. QED
        BY <1>0, <2>1, <4>1, Bystander DEF CleanInv
    <3>2. FixClean(u)' /\ PushClean(u)'
      BY <2>2, ActorKeepsClean
    <3>3. QED
      BY <3>1, <3>2 DEF CleanInv
  <2>3. ASSUME NEW d \in Devices, NetworkStep(d) PROVE CleanInv'
    <3>1. UNCHANGED <<pushVars, cliVars, met>>
      BY <2>3 DEF NetworkStep, Relearn, SessionFalls, SessionRises, ledgerVars
    <3>2. \A w \in Procs : Aside(w) /\ met[w] \subseteq met'[w]
      BY <3>1 DEF Aside, pushVars, cliVars
    <3>3. QED
      BY <1>0, <2>1, <3>2, Bystander DEF CleanInv
  <2>4. CleanInv'
    BY <1>2, <2>2, <2>3 DEF Next, UserStep, NetworkStep
  <2>5. QED
    BY <1>1, <1>2, <2>4, OpenNext DEF RepairInv
<1>3. CASE UNCHANGED vars
  <2>1. UNCHANGED <<running, inForce, on, at, toSend, verb, scenario, left, open, met>>
    BY <1>3 DEF vars, deviceVars, pushVars, cliVars, routeVars, ledgerVars
  <2>2. CleanInv' /\ AllOpen'
    BY <1>0, <2>1 DEF CleanInv, FixClean, PushClean, Unmet, AllOpen
  <2>3. QED
    BY <1>1, <2>2 DEF RepairInv
<1>4. QED
  BY <1>2, <1>3

\* Nothing is wrong with a device that no scenario accounts for, as long as
\* devices take every line they are sent: a restore whose lines are refused
\* reports success all the same.
THEOREM NothingLeftBehind == ASSUME ~Rejections PROVE Spec => []FaultsOpen
<1>1. Init => RepairInv
  <2>1. Init => CleanInv /\ AllOpen
    BY DEF Init, PushInit, CleanInv, FixClean, PushClean, AllOpen
  <2>2. QED
    BY <2>1, BookInit DEF RepairInv
<1>2. RepairInv /\ [Next]_vars => RepairInv'
  BY RepairNext
<1>3. RepairInv => FaultsOpen
  BY DEF RepairInv, AllOpen, FaultsOpen, Present, InForce
<1>4. QED
  BY <1>1, <1>2, <1>3, PTL DEF Spec

-----------------------------------------------------------------------------
(***************************************************************************)
(* What `status` says.                                                     *)
(***************************************************************************)
EffectsOf(q) == UNION {{l.on} \X l.sets : l \in ToSet(q)}

LEMMA EffectsOfOne ==
  ASSUME NEW d, NEW f
  PROVE  EffectsOf(<<Sets(d, f)>>) = {<<d, f>>}
<1>1. ToSet(<<Sets(d, f)>>) = {Sets(d, f)}
  BY DEF ToSet
<1>2. Sets(d, f).on = d /\ Sets(d, f).sets = {f}
  BY DEF Sets, Line
<1> QED
  BY <1>1, <1>2 DEF EffectsOf

LEMMA EffectsOfBoth ==
  ASSUME NEW S, NEW q \in Seq(S), NEW r \in Seq(S)
  PROVE  EffectsOf(q \o r) = EffectsOf(q) \cup EffectsOf(r)
<1>1. ToSet(q \o r) = ToSet(q) \cup ToSet(r)
  <2>1. /\ Len(q \o r) = Len(q) + Len(r) /\ Len(q) \in Nat /\ Len(r) \in Nat
        /\ \A i \in 1..(Len(q) + Len(r)) : (q \o r)[i] = IF i <= Len(q) THEN q[i] ELSE r[i - Len(q)]
    BY ConcatProperties, LenProperties
  <2>2. \A i \in 1..Len(q) : i \in 1..Len(q \o r) /\ (q \o r)[i] = q[i]
    BY <2>1
  <2>3. ASSUME NEW i \in 1..Len(r)
        PROVE  Len(q) + i \in 1..Len(q \o r) /\ (q \o r)[Len(q) + i] = r[i]
    <3>1. Len(q) + i \in 1..(Len(q) + Len(r)) /\ ~(Len(q) + i <= Len(q)) /\ (Len(q) + i) - Len(q) = i
      BY <2>1
    <3> QED
      BY <2>1, <3>1
  <2>4. ASSUME NEW i \in 1..Len(q \o r)
        PROVE  (q \o r)[i] \in ToSet(q) \cup ToSet(r)
    <3>1. CASE i <= Len(q)
      BY <2>1, <3>1 DEF ToSet
    <3>2. CASE ~(i <= Len(q))
      <4>1. i - Len(q) \in 1..Len(r) /\ (q \o r)[i] = r[i - Len(q)]
        BY <2>1, <3>2
      <4> QED
        BY <4>1 DEF ToSet
    <3> QED
      BY <3>1, <3>2
  <2>5. ToSet(q) \subseteq ToSet(q \o r)
    BY <2>2 DEF ToSet
  <2>6. ToSet(r) \subseteq ToSet(q \o r)
    <3>1. ASSUME NEW x \in ToSet(r) PROVE x \in ToSet(q \o r)
      <4>1. PICK i \in 1..Len(r) : x = r[i]
        BY <3>1 DEF ToSet
      <4>2. Len(q) + i \in 1..Len(q \o r) /\ x = (q \o r)[Len(q) + i]
        BY <2>3, <4>1
      <4>3. DOMAIN (q \o r) = 1..Len(q \o r)
        BY <2>1
      <4> QED
        BY <4>2, <4>3 DEF ToSet
    <3> QED
      BY <3>1
  <2>7. ToSet(q \o r) \subseteq ToSet(q) \cup ToSet(r)
    BY <2>4 DEF ToSet
  <2> QED
    BY <2>5, <2>6, <2>7
<1> QED
  BY <1>1 DEF EffectsOf

\* What the scenarios with a detect of their own do.
LEMMA OwnEffects ==
  /\ Effects["wan_localpref_reversed"] = {<<"dc-ce-1", "lp_primary">>, <<"dc-ce-1", "lp_secondary">>}
  /\ Effects["wan_prefix_filter_typo"] = {<<"dc-ce-1", "deny_list">>, <<"dc-ce-1", "deny_bound">>}
  /\ Effects["wan_md5_auth_mismatch"] = {<<"dc-ce-1", "password">>}
  /\ Effects["wan_aspath_prepend_wrong_direction"] =
        {<<"dr-ce-1", "prepend_unbound">>, <<"dr-ce-1", "prepend_primary">>}
  /\ Effects["evpn_wrong_rt_import"] = {<<"dc-leaf-2", "rt_missing">>, <<"dc-leaf-2", "rt_wrong">>}
  /\ Effects["multi_fault_localpref_and_iface"] =
        {<<"dc-ce-1", "lp_primary">>, <<"dc-ce-1", "lp_secondary">>,
         <<"dc-border-1", "shut_interface">>}
<1>1. \A s \in DOMAIN Scenario : Effects[s] = EffectsOf(Scenario[s].inject)
  BY DEF Effects, EffectsOf
<1>2. ASSUME NEW d, NEW f, NEW g
      PROVE  EffectsOf(<<Sets(d, f), Sets(d, g)>>) = {<<d, f>>, <<d, g>>}
  <2>1. ToSet(<<Sets(d, f), Sets(d, g)>>) = {Sets(d, f), Sets(d, g)}
    BY DEF ToSet
  <2>2. /\ Sets(d, f).on = d /\ Sets(d, f).sets = {f}
        /\ Sets(d, g).on = d /\ Sets(d, g).sets = {g}
    BY DEF Sets, Line
  <2> QED
    BY <2>1, <2>2 DEF EffectsOf
<1>3. ASSUME NEW d, NEW P, NEW Q
      PROVE  EffectsOf(<<Soft(d, P), Soft(d, Q)>>) = {}
  <2>1. ToSet(<<Soft(d, P), Soft(d, Q)>>) = {Soft(d, P), Soft(d, Q)}
    BY DEF ToSet
  <2>2. Soft(d, P).sets = {} /\ Soft(d, Q).sets = {}
    BY DEF Soft, Line
  <2> QED
    BY <2>1, <2>2 DEF EffectsOf
<1>4. EffectsOf(LocalprefReversed.inject) = {<<"dc-ce-1", "lp_primary">>, <<"dc-ce-1", "lp_secondary">>}
  <2> DEFINE q == <<Sets("dc-ce-1", "lp_primary"), Sets("dc-ce-1", "lp_secondary")>>
             r == <<Soft("dc-ce-1", FromPrimary), Soft("dc-ce-1", FromSecondary)>>
             S == {Sets("dc-ce-1", "lp_primary"), Sets("dc-ce-1", "lp_secondary"),
                   Soft("dc-ce-1", FromPrimary), Soft("dc-ce-1", FromSecondary)}
  <2>1. LocalprefReversed.inject = q \o r
    BY DEF LocalprefReversed
  <2>2. q \in Seq(S) /\ r \in Seq(S)
    OBVIOUS
  <2>3. EffectsOf(q) = {<<"dc-ce-1", "lp_primary">>, <<"dc-ce-1", "lp_secondary">>}
        /\ EffectsOf(r) = {}
    BY <1>2, <1>3
  <2> HIDE DEF q, r, S
  <2> QED
    BY <2>1, <2>2, <2>3, EffectsOfBoth
<1>5. EffectsOf(PrefixFilterTypo.inject) = {<<"dc-ce-1", "deny_list">>, <<"dc-ce-1", "deny_bound">>}
  <2> DEFINE q == <<Sets("dc-ce-1", "deny_list"), Sets("dc-ce-1", "deny_bound"),
                    Soft("dc-ce-1", FromPrimary)>>
  <2>1. PrefixFilterTypo.inject = q
    BY DEF PrefixFilterTypo
  <2>2. ToSet(q) = {Sets("dc-ce-1", "deny_list"), Sets("dc-ce-1", "deny_bound"),
                    Soft("dc-ce-1", FromPrimary)}
    BY DEF ToSet
  <2>3. /\ Sets("dc-ce-1", "deny_list").on = "dc-ce-1"
        /\ Sets("dc-ce-1", "deny_list").sets = {"deny_list"}
        /\ Sets("dc-ce-1", "deny_bound").on = "dc-ce-1"
        /\ Sets("dc-ce-1", "deny_bound").sets = {"deny_bound"}
        /\ Soft("dc-ce-1", FromPrimary).sets = {}
    BY DEF Sets, Soft, Line
  <2> HIDE DEF q
  <2> QED
    BY <2>1, <2>2, <2>3 DEF EffectsOf
<1>6. EffectsOf(MultiFault.inject) =
        {<<"dc-ce-1", "lp_primary">>, <<"dc-ce-1", "lp_secondary">>,
         <<"dc-border-1", "shut_interface">>}
  <2>1. MultiFault.inject = LocalprefReversed.inject \o IfaceAdminDown.inject
    BY DEF MultiFault
  <2>2. LocalprefReversed.inject \in Seq(Lines) /\ IfaceAdminDown.inject \in Seq(Lines)
    <3>1. /\ "wan_localpref_reversed" \in DOMAIN Scenario /\ "l1_iface_admin_down" \in DOMAIN Scenario
          /\ Scenario["wan_localpref_reversed"] = LocalprefReversed
          /\ Scenario["l1_iface_admin_down"] = IfaceAdminDown
      BY DEF Scenario
    <3> QED
      BY <3>1, ScenarioFacts DEF Undoes
  <2>3. EffectsOf(IfaceAdminDown.inject) = {<<"dc-border-1", "shut_interface">>}
    BY EffectsOfOne DEF IfaceAdminDown
  <2> QED
    BY <1>4, <2>1, <2>2, <2>3, EffectsOfBoth
<1>7. EffectsOf(Md5AuthMismatch.inject) = {<<"dc-ce-1", "password">>}
  BY EffectsOfOne DEF Md5AuthMismatch
<1>8. EffectsOf(AspathPrependWrongDirection.inject) =
        {<<"dr-ce-1", "prepend_unbound">>, <<"dr-ce-1", "prepend_primary">>}
  BY <1>2 DEF AspathPrependWrongDirection
<1>9. EffectsOf(WrongRtImport.inject) = {<<"dc-leaf-2", "rt_missing">>, <<"dc-leaf-2", "rt_wrong">>}
  BY <1>2 DEF WrongRtImport
<1>10. /\ {"wan_localpref_reversed", "wan_prefix_filter_typo", "wan_md5_auth_mismatch",
           "wan_aspath_prepend_wrong_direction", "evpn_wrong_rt_import",
           "multi_fault_localpref_and_iface"} \subseteq DOMAIN Scenario
       /\ Scenario["wan_localpref_reversed"] = LocalprefReversed
       /\ Scenario["wan_prefix_filter_typo"] = PrefixFilterTypo
       /\ Scenario["wan_md5_auth_mismatch"] = Md5AuthMismatch
       /\ Scenario["wan_aspath_prepend_wrong_direction"] = AspathPrependWrongDirection
       /\ Scenario["evpn_wrong_rt_import"] = WrongRtImport
       /\ Scenario["multi_fault_localpref_and_iface"] = MultiFault
  BY DEF Scenario
<1> QED
  BY <1>1, <1>4, <1>5, <1>6, <1>7, <1>8, <1>9, <1>10

\* What dc-ce-1 goes by, once its routes and its session have caught up.
LEMMA SettledRouter ==
  ASSUME Types, Settled("dc-ce-1")
  PROVE  /\ inForce["dc-ce-1"] = Policy("dc-ce-1")
         /\ PrimaryPath("dc-ce-1") <=>
                /\ "password" \notin running["dc-ce-1"]
                /\ ~({"deny_list", "deny_bound"} \subseteq running["dc-ce-1"])
         /\ inForce["dc-ce-1"] \cap {"lp_primary", "lp_secondary"} =
                running["dc-ce-1"] \cap {"lp_primary", "lp_secondary"}
BY DEF Settled, PrimaryPath, Policy, FromPrimary, FromSecondary

\* detect of one scenario.
Right(s) ==
    LET E == Effects[s]
    IN  (/\ \A e \in E : Settled(e[1])
         /\ \A e \in Present : e[1] \in {x[1] : x \in E} => e \in E)
        => /\ E \subseteq Present => Detect(s) = {TRUE}
           /\ E \cap Present = {} => Detect(s) = {FALSE}

\* Most scenarios look for any of their lines.
LEMMA PlainRight ==
  ASSUME NEW s \in DOMAIN Scenario, Detect(s) = {Effects[s] \cap Present # {}}
  PROVE  Right(s)
<1>1. Effects[s] # {}
  BY EffectFacts
<1> QED
  BY <1>1 DEF Right

LEMMA OwnRight ==
  ASSUME Types
  PROVE  /\ Right("wan_localpref_reversed") /\ Right("wan_prefix_filter_typo")
         /\ Right("wan_md5_auth_mismatch") /\ Right("wan_aspath_prepend_wrong_direction")
         /\ Right("evpn_wrong_rt_import") /\ Right("multi_fault_localpref_and_iface")
<1>0. \A d \in Devices : \A f : <<d, f>> \in Present <=> f \in running[d]
  BY DEF Present
<1>1. /\ "dc-ce-1" \in Devices /\ "dr-ce-1" \in Devices /\ "dc-leaf-2" \in Devices
      /\ "dc-border-1" \in Devices
  BY LabAssumption
<1>2. /\ Detect("wan_localpref_reversed") = {LocalprefSeen}
      /\ Detect("wan_prefix_filter_typo") = {PrefixSeen}
      /\ Detect("wan_md5_auth_mismatch") = {Md5Seen}
      /\ Detect("wan_aspath_prepend_wrong_direction") = {PrependSeen}
      /\ Detect("evpn_wrong_rt_import") = RtSeen
      /\ Detect("multi_fault_localpref_and_iface") =
            {LocalprefSeen \/ "shut_interface" \in running["dc-border-1"]}
  BY DEF Detect
<1>3. ASSUME NEW s, NEW e \in Effects[s], \A x \in Effects[s] : Settled(x[1]),
             \A x \in Present : x[1] \in {y[1] : y \in Effects[s]} => x \in Effects[s]
      PROVE  Settled(e[1]) /\ \A f : <<e[1], f>> \in Present => <<e[1], f>> \in Effects[s]
  <2>1. \A f : <<e[1], f>>[1] = e[1]
    OBVIOUS
  <2>2. e[1] \in {y[1] : y \in Effects[s]}
    OBVIOUS
  <2> QED
    BY <1>3, <2>1, <2>2
<1>4. Right("wan_localpref_reversed")
  <2> DEFINE s == "wan_localpref_reversed"
             e == <<"dc-ce-1", "lp_primary">>
  <2> SUFFICES ASSUME \A x \in Effects[s] : Settled(x[1]),
                      \A x \in Present : x[1] \in {y[1] : y \in Effects[s]} => x \in Effects[s]
               PROVE  /\ Effects[s] \subseteq Present => LocalprefSeen = TRUE
                      /\ Effects[s] \cap Present = {} => LocalprefSeen = FALSE
    BY <1>2 DEF Right
  <2>1. Settled("dc-ce-1") /\ \A f : f \in running["dc-ce-1"] => f \in {"lp_primary", "lp_secondary"}
    <3>1. e \in Effects[s] /\ e[1] = "dc-ce-1"
      BY OwnEffects
    <3>2. Settled(e[1]) /\ \A f : <<e[1], f>> \in Present => <<e[1], f>> \in Effects[s]
      BY <1>3, <3>1
    <3> QED
      BY <1>0, <1>1, <3>1, <3>2, OwnEffects
  <2>2. Effects[s] \subseteq Present => {"lp_primary", "lp_secondary"} \subseteq running["dc-ce-1"]
    BY <1>0, <1>1, OwnEffects
  <2>3. Effects[s] \cap Present = {} => running["dc-ce-1"] = {}
    BY <1>0, <1>1, <2>1, OwnEffects
  <2> QED
    BY <2>1, <2>2, <2>3, SettledRouter DEF LocalprefSeen
<1>5. Right("wan_prefix_filter_typo")
  <2> DEFINE s == "wan_prefix_filter_typo"
             e == <<"dc-ce-1", "deny_list">>
  <2> SUFFICES ASSUME \A x \in Effects[s] : Settled(x[1]),
                      \A x \in Present : x[1] \in {y[1] : y \in Effects[s]} => x \in Effects[s]
               PROVE  /\ Effects[s] \subseteq Present => PrefixSeen = TRUE
                      /\ Effects[s] \cap Present = {} => PrefixSeen = FALSE
    BY <1>2 DEF Right
  <2>1. Settled("dc-ce-1") /\ \A f : f \in running["dc-ce-1"] => f \in {"deny_list", "deny_bound"}
    <3>1. e \in Effects[s] /\ e[1] = "dc-ce-1"
      BY OwnEffects
    <3>2. Settled(e[1]) /\ \A f : <<e[1], f>> \in Present => <<e[1], f>> \in Effects[s]
      BY <1>3, <3>1
    <3> QED
      BY <1>0, <1>1, <3>1, <3>2, OwnEffects
  <2>2. Effects[s] \subseteq Present => {"deny_list", "deny_bound"} \subseteq running["dc-ce-1"]
    BY <1>0, <1>1, OwnEffects
  <2>3. Effects[s] \cap Present = {} => running["dc-ce-1"] = {}
    BY <1>0, <1>1, <2>1, OwnEffects
  <2> QED
    BY <2>1, <2>2, <2>3, SettledRouter DEF PrefixSeen
<1>6. Right("wan_md5_auth_mismatch")
  <2> DEFINE s == "wan_md5_auth_mismatch"
             e == <<"dc-ce-1", "password">>
  <2> SUFFICES ASSUME \A x \in Effects[s] : Settled(x[1])
               PROVE  /\ Effects[s] \subseteq Present => Md5Seen = TRUE
                      /\ Effects[s] \cap Present = {} => Md5Seen = FALSE
    BY <1>2 DEF Right
  <2>1. e \in Effects[s] /\ e[1] = "dc-ce-1"
    BY OwnEffects
  <2>2. Settled("dc-ce-1")
    BY <2>1
  <2>3. down["dc-ce-1"] = ("password" \in running["dc-ce-1"])
    BY <2>2 DEF Settled
  <2>4. e \in Present <=> "password" \in running["dc-ce-1"]
    BY <1>0, <1>1
  <2>5. Effects[s] \subseteq Present => "password" \in running["dc-ce-1"]
    BY <2>1, <2>4
  <2>6. Effects[s] \cap Present = {} => ~("password" \in running["dc-ce-1"])
    BY <2>1, <2>4
  <2>7. "password" \in running["dc-ce-1"] => Md5Seen = TRUE
    BY <2>3 DEF Md5Seen
  <2>8. ~("password" \in running["dc-ce-1"]) => Md5Seen = FALSE
    <3> DEFINE wrong == "password" \in running["dc-ce-1"]
    <3>1. ~wrong => wrong = FALSE
      OBVIOUS
    <3>2. Md5Seen = wrong
      BY <2>3 DEF Md5Seen
    <3> HIDE DEF wrong
    <3>3. ~wrong => Md5Seen = FALSE
      BY <3>1, <3>2
    <3> QED
      BY <3>3 DEF wrong
  <2> QED
    BY <2>5, <2>6, <2>7, <2>8
<1>7. Right("wan_aspath_prepend_wrong_direction")
  <2> DEFINE s == "wan_aspath_prepend_wrong_direction"
  <2>1. Effects[s] \subseteq Present => PrependSeen = TRUE
    BY <1>0, <1>1, OwnEffects DEF PrependSeen
  <2>2. Effects[s] \cap Present = {} => PrependSeen = FALSE
    BY <1>0, <1>1, OwnEffects DEF PrependSeen
  <2> QED
    BY <1>2, <2>1, <2>2 DEF Right
<1>8. Right("evpn_wrong_rt_import")
  <2> DEFINE s == "evpn_wrong_rt_import"
  <2>1. Effects[s] \subseteq Present => RtSeen = {TRUE}
    BY <1>0, <1>1, OwnEffects DEF RtSeen
  <2>2. Effects[s] \cap Present = {} => RtSeen = {FALSE}
    <3>1. Effects[s] \cap Present = {} =>
            "rt_missing" \notin running["dc-leaf-2"] /\ "rt_wrong" \notin running["dc-leaf-2"]
      BY <1>0, <1>1, OwnEffects
    <3>2. "rt_missing" \notin running["dc-leaf-2"] /\ "rt_wrong" \notin running["dc-leaf-2"]
            => RtSeen = {FALSE}
      <4> SUFFICES ASSUME "rt_missing" \notin running["dc-leaf-2"], "rt_wrong" \notin running["dc-leaf-2"]
                   PROVE  RtSeen = {FALSE}
        OBVIOUS
      <4> DEFINE wrong == "rt_wrong" \in running["dc-leaf-2"]
      <4>1. RtSeen = {FALSE, wrong}
        BY DEF RtSeen
      <4>2. wrong = FALSE
        OBVIOUS
      <4> HIDE DEF wrong
      <4> QED
        BY <4>1, <4>2
    <3> QED
      BY <3>1, <3>2
  <2> QED
    BY <1>2, <2>1, <2>2 DEF Right
<1>9. Right("multi_fault_localpref_and_iface")
  <2> DEFINE s == "multi_fault_localpref_and_iface"
             e == <<"dc-ce-1", "lp_primary">>
             seen == LocalprefSeen \/ "shut_interface" \in running["dc-border-1"]
  <2> SUFFICES ASSUME \A x \in Effects[s] : Settled(x[1]),
                      \A x \in Present : x[1] \in {y[1] : y \in Effects[s]} => x \in Effects[s]
               PROVE  /\ Effects[s] \subseteq Present => seen = TRUE
                      /\ Effects[s] \cap Present = {} => seen = FALSE
    BY <1>2 DEF Right
  <2>1. Settled("dc-ce-1") /\ \A f : f \in running["dc-ce-1"] => f \in {"lp_primary", "lp_secondary"}
    <3>1. e \in Effects[s] /\ e[1] = "dc-ce-1"
      BY OwnEffects
    <3>2. Settled(e[1]) /\ \A f : <<e[1], f>> \in Present => <<e[1], f>> \in Effects[s]
      BY <1>3, <3>1
    <3> QED
      BY <1>0, <1>1, <3>1, <3>2, OwnEffects
  <2>2. Effects[s] \subseteq Present => "shut_interface" \in running["dc-border-1"]
    BY <1>0, <1>1, OwnEffects
  <2>3. Effects[s] \cap Present = {} =>
            running["dc-ce-1"] = {} /\ "shut_interface" \notin running["dc-border-1"]
    BY <1>0, <1>1, <2>1, OwnEffects
  <2>4. running["dc-ce-1"] = {} => ~LocalprefSeen
    BY <2>1, SettledRouter DEF LocalprefSeen
  <2> QED
    BY <2>2, <2>3, <2>4
<1> QED
  BY <1>4, <1>5, <1>6, <1>7, <1>8, <1>9

\* `status` answers "fault present" of a scenario that is there in full and
\* "not present" of one that is not there at all, by the lines, the routes or
\* the session its detect looks at, in every state users, restarts and the
\* network can bring about (scenarios/*.py, detect).
THEOREM StatusIsRight == Spec => []DetectRight
<1>1. BookInv => DetectRight
  <2> SUFFICES ASSUME BookInv, NEW s \in Offered PROVE Right(s)
    BY DEF DetectRight, Right
  <2>1. Types /\ s \in DOMAIN Scenario
    BY OfferedScenarios DEF BookInv
  <2> DEFINE Own == {"wan_localpref_reversed", "wan_prefix_filter_typo", "wan_md5_auth_mismatch",
                     "wan_aspath_prepend_wrong_direction", "evpn_wrong_rt_import",
                     "multi_fault_localpref_and_iface"}
  <2>2. CASE s \in Own
    BY <2>1, <2>2, OwnRight
  <2>3. CASE s \notin Own
    <3>1. Detect(s) = {Effects[s] \cap Present # {}}
      BY <2>3 DEF Detect
    <3> QED
      BY <2>1, <3>1, PlainRight
  <2> QED
    BY <2>2, <2>3
<1> QED
  BY <1>1, BookInit, BookNext, PTL DEF Spec
=============================================================================
