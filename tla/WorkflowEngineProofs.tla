------------------------ MODULE WorkflowEngineProofs ------------------------
(***************************************************************************)
(* Proofs that the pool never breaks the order of the units, and that a    *)
(* listener on the bus is told what a run did, direct or under an agent,   *)
(* whatever the number of steps, the groups, the workers and the schedule. *)
(***************************************************************************)
EXTENDS AgentRun, WellFoundedInduction, SequenceTheorems, FiniteSetTheorems,
        TLAPS

---------------------------------------------------------------------------
(* Units of accepted options.                                              *)

LEMMA StepsAreIntegers == Steps \subseteq Int /\ Steps \subseteq Nat /\ N \in Nat
  BY NAssumption DEF Steps

(* A step is in the group that names it and in no other.                   *)
LEMMA GroupNamesStep ==
  ASSUME NEW gs \in Seq(Seq(Names)), WellFormed(gs), NEW s \in Steps
  PROVE  /\ GroupOf(gs, s) # 0 =>
              GroupOf(gs, s) \in DOMAIN gs /\ s \in NamedIn(gs[GroupOf(gs, s)])
         /\ \A g \in DOMAIN gs : s \in NamedIn(gs[g]) => GroupOf(gs, s) = g
         /\ 0 \notin DOMAIN gs
<1>1. 0 \notin DOMAIN gs
  OBVIOUS
<1>2. CASE \E g \in DOMAIN gs : s \in NamedIn(gs[g])
  <2>1. GroupOf(gs, s) \in DOMAIN gs /\ s \in NamedIn(gs[GroupOf(gs, s)])
    BY <1>2 DEF GroupOf
  <2>2. ASSUME NEW g \in DOMAIN gs, s \in NamedIn(gs[g])
        PROVE  GroupOf(gs, s) = g
    <3> DEFINE h == GroupOf(gs, s)
    <3>1. PICK k \in DOMAIN gs[g] : gs[g][k] = s
      BY <2>2 DEF NamedIn
    <3>2. PICK l \in DOMAIN gs[h] : gs[h][l] = s
      BY <2>1 DEF NamedIn
    <3> QED
      BY <3>1, <3>2, <2>1, <2>2 DEF WellFormed
  <2> QED
    BY <2>1, <2>2, <1>1
<1>3. CASE ~ \E g \in DOMAIN gs : s \in NamedIn(gs[g])
  BY <1>3, <1>1 DEF GroupOf
<1> QED
  BY <1>2, <1>3

(* The steps of an accepted group are contiguous.                          *)
LEMMA GroupIsInterval ==
  ASSUME NEW gs \in Seq(Seq(Names)), WellFormed(gs), Accepted(gs),
         NEW i \in Steps, NEW j \in Steps, NEW k \in Steps,
         i <= k, k <= j, SameGroup(gs, i, j)
  PROVE  SameGroup(gs, i, k)
<1> DEFINE g == GroupOf(gs, i)
<1>1. g # 0 /\ GroupOf(gs, j) = g
  BY DEF SameGroup
<1>2. g \in DOMAIN gs /\ i \in NamedIn(gs[g]) /\ j \in NamedIn(gs[g])
  BY <1>1, GroupNamesStep
<1>3. PICK lo, hi \in NamedIn(gs[g]) : NamedIn(gs[g]) = lo..hi
  BY <1>2 DEF Accepted, Contiguous
<1>4. NamedIn(gs[g]) \subseteq Steps
  BY <1>2 DEF Accepted, KnownNames
<1>5. k \in NamedIn(gs[g])
  BY <1>2, <1>3, <1>4, StepsAreIntegers
<1>6. GroupOf(gs, k) = g
  BY <1>2, <1>5, GroupNamesStep
<1> QED
  BY <1>1, <1>6 DEF SameGroup

(* A set of steps that is a union of units and a prefix of the workflow.   *)
PrefixOfUnits(gs, done) ==
  /\ done \subseteq Steps
  /\ \A s \in done : 1..s \subseteq done
  /\ \A s \in done, t \in Steps : SameUnit(gs, s, t) => t \in done

(* The unit opened behind such a set is a whole unit and lies behind it.   *)
LEMMA OpenedUnit ==
  ASSUME NEW gs \in Seq(Seq(Names)), WellFormed(gs), Accepted(gs),
         NEW done, PrefixOfUnits(gs, done), NEW s, Opens(done, s)
  PROVE  /\ s \in Steps
         /\ done = 1..(s - 1)
         /\ UnitFrom(gs, s) = {t \in Steps : SameUnit(gs, s, t)}
         /\ s \in UnitFrom(gs, s)
         /\ \A t \in UnitFrom(gs, s) : t >= s /\ t \notin done
         /\ \A t \in UnitFrom(gs, s) : done = {i \in 1..(t - 1) : ~SameUnit(gs, i, t)}
         /\ \A t, u \in UnitFrom(gs, s) : t # u => SameGroup(gs, t, u)
         /\ GroupOf(gs, s) = 0 => UnitFrom(gs, s) = {s}
         /\ PrefixOfUnits(gs, done \cup UnitFrom(gs, s))
<1>1. s \in Steps /\ s \notin done /\ 1..(s - 1) \subseteq done
  BY DEF Opens
<1>2. done = 1..(s - 1)
  <2>1. ASSUME NEW t \in done PROVE t < s
    <3>1. t \in Steps /\ 1..t \subseteq done
      BY <2>1 DEF PrefixOfUnits
    <3>2. t >= s => s \in 1..t
      BY <3>1, <1>1, StepsAreIntegers DEF Steps
    <3> QED
      BY <3>1, <3>2, <1>1, StepsAreIntegers
  <2>2. done \subseteq 1..(s - 1)
    BY <2>1, <1>1, StepsAreIntegers DEF PrefixOfUnits, Steps
  <2> QED
    BY <2>2, <1>1
<1>3. ASSUME NEW t \in Steps, SameUnit(gs, s, t) PROVE t >= s
  <2>1. SameUnit(gs, t, s)
    BY <1>3 DEF SameUnit, SameGroup
  <2>2. t \notin done
    BY <2>1, <1>1 DEF PrefixOfUnits
  <2> QED
    BY <2>2, <1>2, <1>1, StepsAreIntegers DEF Steps
<1>4. ASSUME NEW t \in Steps, SameUnit(gs, s, t) PROVE t \in UnitFrom(gs, s)
  <2>1. t \in s..N
    BY <1>1, <1>3, <1>4, StepsAreIntegers DEF Steps
  <2>2. ASSUME NEW k \in (s + 1)..t PROVE SameGroup(gs, s, k)
    <3>1. k \in Steps /\ s <= k /\ k <= t /\ s # t
      BY <2>1, <2>2, <1>1, StepsAreIntegers DEF Steps
    <3>2. SameGroup(gs, s, t)
      BY <3>1, <1>4 DEF SameUnit
    <3> QED
      BY <3>1, <3>2, <1>1, GroupIsInterval
  <2> QED
    BY <2>1, <2>2 DEF UnitFrom
<1>5. ASSUME NEW t \in UnitFrom(gs, s) PROVE t \in Steps /\ SameUnit(gs, s, t)
  <2>1. t \in s..N
    BY DEF UnitFrom
  <2>2. CASE t = s
    BY <2>2, <1>1 DEF SameUnit
  <2>3. CASE t # s
    <3>1. t \in (s + 1)..t /\ t \in Steps
      BY <2>1, <2>3, <1>1, StepsAreIntegers DEF Steps
    <3> QED
      BY <3>1 DEF UnitFrom, SameUnit
  <2> QED
    BY <2>2, <2>3
<1>6. UnitFrom(gs, s) = {t \in Steps : SameUnit(gs, s, t)}
  BY <1>4, <1>5
<1>7. s \in UnitFrom(gs, s)
  BY <1>1, <1>4 DEF SameUnit
<1>8. ASSUME NEW t \in UnitFrom(gs, s) PROVE t >= s /\ t \notin done
  <2>1. t \in Steps /\ t >= s
    BY <1>3, <1>5
  <2> QED
    BY <2>1, <1>1, <1>2, StepsAreIntegers
<1>9. \A t, u \in UnitFrom(gs, s) : t # u => SameGroup(gs, t, u)
  BY <1>5 DEF SameUnit, SameGroup
<1>10. ASSUME NEW t \in UnitFrom(gs, s)
       PROVE  done = {i \in 1..(t - 1) : ~SameUnit(gs, i, t)}
  <2>1. t \in Steps /\ t >= s
    BY <1>5, <1>8
  <2>2. ASSUME NEW i \in 1..(t - 1), i >= s PROVE SameUnit(gs, i, t)
    <3>1. i \in Steps /\ s <= i /\ i <= t /\ s # t
      BY <2>1, <2>2, <1>1, StepsAreIntegers DEF Steps
    <3>2. SameGroup(gs, s, t)
      BY <3>1, <1>5 DEF SameUnit
    <3>3. SameGroup(gs, s, i)
      BY <3>1, <3>2, <2>1, <1>1, GroupIsInterval
    <3> QED
      BY <3>2, <3>3 DEF SameGroup, SameUnit
  <2>3. ASSUME NEW i \in done PROVE i \in 1..(t - 1) /\ ~SameUnit(gs, i, t)
    <3>1. t \notin done
      BY <1>8
    <3> QED
      BY <3>1, <2>1, <1>2, <1>1, StepsAreIntegers DEF PrefixOfUnits
  <2> QED
    BY <2>2, <2>3, <2>1, <1>1, <1>2, StepsAreIntegers
<1>11. GroupOf(gs, s) = 0 => UnitFrom(gs, s) = {s}
  BY <1>6, <1>7 DEF SameUnit, SameGroup
<1>12. PrefixOfUnits(gs, done \cup UnitFrom(gs, s))
  <2> DEFINE D == done \cup UnitFrom(gs, s)
  <2>1. D \subseteq Steps
    BY <1>5 DEF PrefixOfUnits
  <2>2. ASSUME NEW t \in D, NEW i \in 1..t PROVE i \in D
    <3>1. CASE t \in done
      BY <3>1, <2>2 DEF PrefixOfUnits
    <3>2. CASE t \in UnitFrom(gs, s)
      <4>1. t \in Steps /\ SameUnit(gs, s, t)
        BY <3>2, <1>5
      <4>2. CASE i < s
        BY <4>2, <1>2, <1>1, <2>2, StepsAreIntegers
      <4>3. CASE i >= s
        <5>1. i \in s..N /\ \A k \in (s + 1)..i : k \in (s + 1)..t
          BY <4>1, <4>3, <2>2, <1>1, StepsAreIntegers DEF Steps
        <5> QED
          BY <5>1, <3>2 DEF UnitFrom
      <4> QED
        BY <4>2, <4>3, <1>1, <4>1, StepsAreIntegers
    <3> QED
      BY <3>1, <3>2
  <2>3. ASSUME NEW t \in D, NEW u \in Steps, SameUnit(gs, t, u) PROVE u \in D
    <3>1. CASE t \in done
      BY <3>1, <2>3 DEF PrefixOfUnits
    <3>2. CASE t \in UnitFrom(gs, s)
      <4>1. SameUnit(gs, s, u)
        BY <3>2, <2>3, <1>5 DEF SameUnit, SameGroup
      <4> QED
        BY <4>1, <1>4
    <3> QED
      BY <3>1, <3>2
  <2> QED
    BY <2>1, <2>2, <2>3 DEF PrefixOfUnits
<1> QED
  BY <1>1, <1>2, <1>6, <1>7, <1>8, <1>9, <1>10, <1>11, <1>12

---------------------------------------------------------------------------
(* The inductive invariant.                                                *)

Fresh(s) == fut[s] = "none" /\ out[s] = "none" /\ seen[s] = Unseen

(* What the three records of a step say of each other.                     *)
Coherent(s) ==
  /\ (out[s] # "none") <=> (fut[s] = "finished")
  /\ Started(s) <=> fut[s] \in {"running", "finished"}

Shape ==
  /\ WellFormed(groups)
  /\ pc \notin {"new", "rejected"} => Accepted(groups)
  /\ PrefixOfUnits(groups, past)
  /\ pc = "group" => first # 0
  /\ first # 0 => pc \in {"group", "raised"} /\ Opens(past, first) /\ stoppedAt = 0
  /\ pc \in {"new", "rejected"} => past = {} /\ first = 0
  /\ pc \in {"units", "group"} => stoppedAt = 0
  /\ pc \in {"new", "rejected"} => stoppedAt = 0

Records ==
  /\ \A s \in Steps : Coherent(s)
  /\ \A s \in Steps \ (past \cup Unit) : Fresh(s)
  /\ \A s \in Unit : fut[s] # "none"
  /\ \A s \in past : fut[s] \in {"finished", "notified"} /\ out[s] # "raise"
  /\ \A s \in Steps : results[s] = IF s \in past THEN out[s] ELSE "none"
  /\ stoppedAt = 0 => \A s \in past : fut[s] = "finished" /\ ~Stops(out, cont, s)

Collected ==
  first # 0 =>
    /\ waiting \subseteq Unit /\ cancelq \subseteq Unit
    /\ completed \subseteq Unit /\ raised \subseteq Unit
    /\ \A s \in Unit \ waiting :
         /\ Done(s)
         /\ s \in raised <=> out[s] = "raise"
         /\ s \in completed <=> out[s] \in Outcomes
    /\ \A s \in waiting : s \notin raised /\ s \notin completed
    /\ \A s \in cancelq : \E t \in Unit : t # s /\ Stops(out, cont, t)
    /\ cancelq # {} => Pooled

(* No queue is left behind a unit that has been folded in or abandoned.    *)
Quiet == pc # "group" => cancelq = {} /\ Queued = {} /\ Running = {}

IInv ==
  /\ TypeOK
  /\ Shape
  /\ Records
  /\ Collected
  /\ Quiet
  /\ UnitBarrier
  /\ SiblingsShareContext
  /\ CancelledOnlyForAReason
  /\ OutcomeIsFirstDeclaredFailure

---------------------------------------------------------------------------
(* stopped_at is well defined.                                             *)

LEMMA LeastElement ==
  ASSUME NEW S \in SUBSET Nat, S # {}
  PROVE  \E s \in S : \A t \in S : s <= t
<1> DEFINE R == OpToRel(<, Nat)
<1>1. R = {ss \in Nat \X Nat : ss[1] < ss[2]}
  BY DEF OpToRel
<1>2. IsWellFoundedOn(R, Nat)
  BY NatLessThanWellFounded
<1> HIDE DEF R
<1>3. PICK s \in S : \A t \in S : <<t, s>> \notin R
  BY <1>2, WFMin
<1>4. ASSUME NEW t \in S PROVE s <= t
  <2>1. s \in Nat /\ t \in Nat
    OBVIOUS
  <2>2. t < s => <<t, s>> \in R
    BY <1>1, <2>1
  <2> QED
    BY <1>3, <2>1, <2>2
<1> QED
  BY <1>4

LEMMA FirstStoppingIsLeast ==
  ASSUME NEW r, NEW S \in SUBSET Steps
  PROVE  LET f == FirstStoppingFailure(r, S) IN
         /\ f = 0 <=> \A s \in S : ~Stops(r, cont, s)
         /\ f # 0 => f \in S /\ Stops(r, cont, f) /\ \A s \in S : Stops(r, cont, s) => f <= s
         /\ f \in 0..N
<1> DEFINE T == StopsIn(r, S)
           f == FirstStoppingFailure(r, S)
<1>1. T \subseteq S /\ \A s \in S : s \in T <=> Stops(r, cont, s)
  BY DEF StopsIn
<1>2. CASE T = {}
  BY <1>1, <1>2, StepsAreIntegers DEF FirstStoppingFailure
<1>3. CASE T # {}
  <2>1. T \in SUBSET Nat
    BY <1>1, StepsAreIntegers
  <2>2. \E s \in T : \A t \in T : s <= t
    BY <2>1, <1>3, LeastElement
  <2>3. f = CHOOSE s \in T : \A t \in T : s <= t
    BY <1>3 DEF FirstStoppingFailure
  <2> HIDE DEF T, f
  <2>4. f \in T /\ \A t \in T : f <= t
    BY <2>2, <2>3
  <2>5. f \in 0..N /\ f # 0
    BY <2>4, <1>1, StepsAreIntegers DEF Steps
  <2> QED
    BY <2>4, <2>5, <1>1 DEF f
<1> QED
  BY <1>2, <1>3

---------------------------------------------------------------------------
(* What the invariant says of the unit being run.                          *)
LEMMA UnitFacts ==
  ASSUME TypeOK, Shape, first # 0
  PROVE  /\ groups \in Seq(Seq(Names)) /\ Accepted(groups)
         /\ first \in Unit /\ Unit \subseteq Steps
         /\ past = 1..(first - 1)
         /\ \A s \in Unit : s >= first /\ s \notin past
         /\ \A s \in Unit : past = {i \in 1..(s - 1) : ~SameUnit(groups, i, s)}
         /\ \A s, t \in Unit : s # t => SameGroup(groups, s, t)
         /\ \A s \in Unit, t \in Steps : SameUnit(groups, s, t) => t \in Unit
         /\ ~Pooled => Unit = {first}
         /\ PrefixOfUnits(groups, past \cup Unit)
<1>1. groups \in Seq(Seq(Names)) /\ WellFormed(groups) /\ Accepted(groups)
  BY GroupOptionsAssumption DEF TypeOK, Shape
<1>2. PrefixOfUnits(groups, past) /\ Opens(past, first)
  BY DEF Shape
<1>3. Unit = UnitFrom(groups, first)
  BY DEF Unit
<1>4. Unit = {t \in Steps : SameUnit(groups, first, t)}
  BY <1>1, <1>2, <1>3, OpenedUnit
<1>5. \A s \in Unit, t \in Steps : SameUnit(groups, s, t) => t \in Unit
  BY <1>4 DEF SameUnit, SameGroup
<1>6. ~Pooled => GroupOf(groups, first) = 0
  BY DEF Pooled
<1> QED
  BY <1>1, <1>2, <1>3, <1>4, <1>5, <1>6, OpenedUnit

LEMMA InitIInv == Init => IInv
<1> SUFFICES ASSUME Init PROVE IInv
  OBVIOUS
<1> USE StepsAreIntegers DEF Init
<1>1. TypeOK
  <2>1. events \in Seq(EventNames)
    BY DEF EventNames
  <2>2. groups \in GroupOptions /\ cont \in SUBSET Steps /\ past \in SUBSET Steps
    OBVIOUS
  <2>3. seen \in [Steps -> (SUBSET Steps) \cup {Unseen}]
    <3>1. Unseen \in (SUBSET Steps) \cup {Unseen}
      OBVIOUS
    <3> QED
      BY <3>1
  <2>4. results \in [Steps -> {"none"} \cup Outcomes] /\ out \in [Steps -> {"none", "raise"} \cup Outcomes]
    OBVIOUS
  <2>5. first \in 0..N /\ stoppedAt \in 0..N
    OBVIOUS
  <2>6. fut \in [Steps -> {"none", "pending", "running", "cancelled", "notified", "finished"}]
    OBVIOUS
  <2> QED
    BY <2>1, <2>2, <2>3, <2>4, <2>5, <2>6 DEF TypeOK
<1>2. Shape
  BY DEF Shape, PrefixOfUnits
<1>3. Records
  BY DEF Records, Coherent, Fresh, Started, Unit
<1>4. Collected
  BY DEF Collected
<1>5. Quiet
  BY DEF Quiet, Queued, Running
<1>6. UnitBarrier /\ SiblingsShareContext
  BY DEF UnitBarrier, SiblingsShareContext, Started
<1>7. CancelledOnlyForAReason /\ OutcomeIsFirstDeclaredFailure
  BY DEF CancelledOnlyForAReason, OutcomeIsFirstDeclaredFailure
<1> QED
  BY <1>1, <1>2, <1>3, <1>4, <1>5, <1>6, <1>7 DEF IInv

(* One lemma per action, and under it one step per part of IInv.           *)
LEMMA StartStep == IInv /\ Start => IInv'
<1> SUFFICES ASSUME IInv, Start PROVE IInv'
  OBVIOUS
<1> USE DEF IInv, Start, config, unitVars, endVars
<1>1. TypeOK'
  <2>1. events' \in Seq(EventNames)
    BY DEF TypeOK, EventNames
  <2> QED
    BY <2>1 DEF TypeOK
<1>2. Shape'
  BY DEF Shape
<1>3. Records'
  BY DEF Records, Coherent, Fresh, Started, Unit, Stops
<1>4. Collected' /\ Quiet'
  BY DEF Collected, Quiet, Queued, Running, Shape
<1>5. UnitBarrier' /\ SiblingsShareContext' /\ CancelledOnlyForAReason'
  BY DEF UnitBarrier, SiblingsShareContext, CancelledOnlyForAReason, Started, Stops
<1>6. OutcomeIsFirstDeclaredFailure'
  BY DEF OutcomeIsFirstDeclaredFailure
<1> QED
  BY <1>1, <1>2, <1>3, <1>4, <1>5, <1>6

LEMMA BeginUnitStep ==
  ASSUME IInv, NEW s \in Steps, BeginUnit(s)
  PROVE  IInv'
<1> DEFINE unit == UnitFrom(groups, s)
           inline == GroupOf(groups, s) = 0
<1> USE DEF IInv, BeginUnit, config, endVars
<1>1. /\ groups \in Seq(Seq(Names)) /\ WellFormed(groups) /\ Accepted(groups)
      /\ PrefixOfUnits(groups, past) /\ Opens(past, s)
      /\ stoppedAt = 0 /\ first = 0
  BY GroupOptionsAssumption DEF TypeOK, Shape, NextStep, Opens
<1>2. /\ s \in unit /\ unit \subseteq Steps
      /\ past = 1..(s - 1)
      /\ \A t \in unit : t >= s /\ t \notin past
      /\ past = {i \in 1..(s - 1) : ~SameUnit(groups, i, s)}
      /\ inline => unit = {s}
  <2> HIDE DEF unit
  <2>1. unit = UnitFrom(groups, s)
    BY DEF unit
  <2>2. s \in unit
    BY <1>1, <2>1, OpenedUnit
  <2>3. \A t \in unit : past = {i \in 1..(t - 1) : ~SameUnit(groups, i, t)}
    BY <1>1, <2>1, OpenedUnit
  <2>4. past = {i \in 1..(s - 1) : ~SameUnit(groups, i, s)}
    BY <2>2, <2>3
  <2>5. \A t \in unit : t >= s /\ t \notin past
    BY <1>1, <2>1, OpenedUnit
  <2>6. unit = {t \in Steps : SameUnit(groups, s, t)} /\ past = 1..(s - 1)
    BY <1>1, <2>1, OpenedUnit
  <2>7. inline => unit = {s}
    BY <1>1, <2>1, OpenedUnit
  <2> QED
    BY <2>2, <2>4, <2>5, <2>6, <2>7
<1>3. Unit' = unit /\ Unit = {} /\ groups' = groups
  BY <1>1, StepsAreIntegers DEF Unit, Steps
<1>4. \A t \in unit : Fresh(t)
  BY <1>1, <1>2, <1>3 DEF Records
<1>5. Context = past
  BY <1>1 DEF Context, Records, Coherent, Shape, PrefixOfUnits
<1>6. TypeOK'
  <2>1. fut' \in [Steps -> {"none", "pending", "running", "cancelled", "notified", "finished"}]
    BY DEF TypeOK
  <2>2. seen' \in [Steps -> (SUBSET Steps) \cup {Unseen}]
    BY <1>5 DEF TypeOK
  <2>3. waiting' \in SUBSET Steps /\ first' \in 0..N
    BY <1>2, StepsAreIntegers DEF Steps
  <2> QED
    BY <2>1, <2>2, <2>3 DEF TypeOK
<1>7. Shape'
  BY <1>1 DEF Shape
<1>8. Records'
  <2>1. ASSUME NEW t \in Steps PROVE Coherent(t)'
    <3>1. past # Unseen
      BY <1>2, <1>1, StepsAreIntegers DEF Unseen, PrefixOfUnits, Steps
    <3>2. CASE t \notin unit
      BY <3>2, <1>2 DEF Records, Coherent, Started, TypeOK
    <3>3. CASE t \in unit /\ inline
      BY <3>1, <3>3, <1>2, <1>4, <1>5 DEF Coherent, Fresh, Started, TypeOK
    <3>4. CASE t \in unit /\ ~inline
      BY <3>4, <1>2, <1>4 DEF Coherent, Fresh, Started, TypeOK
    <3> QED
      BY <3>2, <3>3, <3>4
  <2>2. \A t \in Steps \ (past \cup unit) : Fresh(t)'
    BY <1>2, <1>3 DEF Records, Fresh, TypeOK
  <2>3. \A t \in unit : fut'[t] # "none"
    BY <1>2 DEF TypeOK
  <2>4. \A t \in past : fut'[t] = fut[t] /\ out'[t] = out[t]
    BY <1>1, <1>2 DEF TypeOK, PrefixOfUnits
  <2> QED
    BY <2>1, <2>2, <2>3, <2>4, <1>1, <1>3 DEF Records, Stops
<1>9. Collected' /\ Quiet'
  BY <1>3 DEF Collected, Quiet
<1>10. UnitBarrier'
  <2> SUFFICES ASSUME NEW i \in Steps, NEW j \in Steps,
                      i < j, ~SameUnit(groups, i, j), Started(j)'
               PROVE  fut'[i] = "finished" /\ out'[i] \in Outcomes /\ ~Stops(out, cont, i)
    BY DEF UnitBarrier, Stops
  <2>1. \A t \in past : fut[t] = "finished" /\ out[t] \in Outcomes /\ ~Stops(out, cont, t)
    BY <1>1 DEF Records, TypeOK, Coherent, Shape, PrefixOfUnits
  <2>2. \A t \in past : fut'[t] = fut[t]
    BY <1>1, <1>2 DEF TypeOK, PrefixOfUnits
  <2>3. CASE j = s
    BY <2>1, <2>2, <2>3, <1>2, StepsAreIntegers DEF Steps
  <2>4. CASE j # s
    <3>1. Started(j)
      BY <2>4 DEF Started, TypeOK
    <3>2. fut[i] = "finished" /\ out[i] \in Outcomes /\ ~Stops(out, cont, i)
      BY <3>1 DEF UnitBarrier
    <3>3. fut'[i] = fut[i]
      BY <3>2, <1>4 DEF Fresh, TypeOK
    <3> QED
      BY <3>2, <3>3
  <2> QED
    BY <2>3, <2>4
<1>11. SiblingsShareContext'
  <2>1. \A t \in Steps : seen'[t] = seen[t] \/ (t = s /\ seen'[t] = past)
    BY <1>5, SMTT(30) DEF TypeOK
  <2>2. past = {i \in 1..(s - 1) : ~SameUnit(groups, i, s)} /\ groups' = groups
    BY <1>2, <1>3
  <2>3. ASSUME NEW t \in Steps, Started(t)'
        PROVE  seen'[t] = {i \in 1..(t - 1) : ~SameUnit(groups, i, t)}
    <3>1. CASE t = s /\ seen'[t] = past
      BY <2>2, <3>1
    <3>2. CASE seen'[t] = seen[t]
      BY <2>3, <3>2 DEF SiblingsShareContext, Started
    <3> QED
      BY <2>1, <3>1, <3>2
  <2> QED
    BY <2>2, <2>3 DEF SiblingsShareContext
<1>12. CancelledOnlyForAReason'
  <2>1. \A t \in Steps : fut'[t] \in {"cancelled", "notified"} =>
          fut'[t] = fut[t] /\ t \notin unit
    BY DEF TypeOK
  <2>2. \A t \in Steps : t \notin unit => seen'[t] = seen[t]
    BY <1>2 DEF TypeOK
  <2> QED
    BY <2>1, <2>2 DEF CancelledOnlyForAReason, Started, Stops
<1>13. OutcomeIsFirstDeclaredFailure'
  BY DEF OutcomeIsFirstDeclaredFailure
<1> QED
  BY <1>6, <1>7, <1>8, <1>9, <1>10, <1>11, <1>12, <1>13

(* A worker only ever takes a step of the unit being run.                  *)
LEMMA QueuedInUnit ==
  ASSUME IInv, NEW s \in Steps, fut[s] \in {"pending", "cancelled", "running"}
  PROVE  pc = "group" /\ first # 0 /\ s \in Unit /\ stoppedAt = 0
<1>1. pc = "group" /\ first # 0 /\ stoppedAt = 0
  BY DEF IInv, Quiet, Queued, Running, Shape
<1>2. s \in past \cup Unit /\ s \notin past
  BY DEF IInv, Records, Fresh
<1> QED
  BY <1>1, <1>2

LEMMA DequeueStep ==
  ASSUME IInv, NEW s \in Steps, Dequeue(s)
  PROVE  IInv'
<1> USE DEF IInv, Dequeue, config, endVars
<1>1. fut[s] \in {"pending", "cancelled"}
  BY DEF Queued
<1>2. pc = "group" /\ first # 0 /\ s \in Unit /\ stoppedAt = 0
  BY <1>1, QueuedInUnit
<1>3. /\ past = {i \in 1..(s - 1) : ~SameUnit(groups, i, s)}
      /\ s \notin past /\ Unit \subseteq Steps
  BY <1>2, UnitFacts
<1>4. Unit' = Unit /\ (Pooled' <=> Pooled)
  BY DEF Unit, Pooled
<1>5. Context = past
  BY <1>2 DEF Context, Records, Coherent, Shape, PrefixOfUnits
<1>6. out[s] = "none" /\ seen[s] = Unseen
  BY <1>1 DEF Records, Coherent, Started
<1>7. past # Unseen
  BY StepsAreIntegers DEF Unseen, Shape, PrefixOfUnits, Steps
<1>8. TypeOK'
  <2>1. fut' \in [Steps -> {"none", "pending", "running", "cancelled", "notified", "finished"}]
    BY DEF TypeOK
  <2>2. seen' \in [Steps -> (SUBSET Steps) \cup {Unseen}]
    BY <1>5 DEF TypeOK
  <2> QED
    BY <2>1, <2>2 DEF TypeOK
<1>9. Shape'
  BY DEF Shape
<1>10. Records'
  <2>1. Coherent(s)'
    BY <1>1, <1>5, <1>6, <1>7 DEF Coherent, Started, TypeOK
  <2>2. ASSUME NEW t \in Steps, t # s PROVE fut'[t] = fut[t] /\ seen'[t] = seen[t] /\ out'[t] = out[t]
    BY <2>2 DEF TypeOK
  <2>3. \A t \in Steps : Coherent(t)'
    BY <2>1, <2>2 DEF Records, Coherent, Started
  <2>4. fut'[s] # "none"
    BY <1>1 DEF TypeOK
  <2>5. past \subseteq Steps
    BY DEF TypeOK
  <2> QED
    BY <2>2, <2>3, <2>4, <2>5, <1>2, <1>3, <1>4 DEF Records, Fresh, Stops
<1>11. Collected'
  <2>1. \A t \in Steps : Done(t) => Done(t)'
    BY <1>1 DEF Done, TypeOK
  <2> QED
    BY <2>1, <1>3, <1>4 DEF Collected, Stops
<1>12. Quiet'
  BY <1>2 DEF Quiet
<1>13. UnitBarrier'
  <2> SUFFICES ASSUME NEW i \in Steps, NEW j \in Steps,
                      i < j, ~SameUnit(groups, i, j), Started(j)'
               PROVE  fut'[i] = "finished" /\ out[i] \in Outcomes /\ ~Stops(out, cont, i)
    BY DEF UnitBarrier, Stops
  <2>1. CASE j = s
    <3>1. i \in past
      BY <2>1, <1>3, StepsAreIntegers DEF Steps
    <3>2. i # s /\ fut[i] = "finished" /\ out[i] \in Outcomes /\ ~Stops(out, cont, i)
      BY <3>1, <1>2, <1>3 DEF Records, TypeOK, Coherent
    <3> QED
      BY <3>2 DEF TypeOK
  <2>2. CASE j # s
    <3>1. Started(j)
      BY <2>2 DEF Started, TypeOK
    <3>2. fut[i] = "finished" /\ out[i] \in Outcomes /\ ~Stops(out, cont, i)
      BY <3>1 DEF UnitBarrier
    <3> QED
      BY <3>2, <1>1 DEF TypeOK
  <2> QED
    BY <2>1, <2>2
<1>14. SiblingsShareContext'
  <2>1. \A t \in Steps : seen'[t] = seen[t] \/ (t = s /\ seen'[t] = past)
    BY <1>5 DEF TypeOK
  <2> QED
    BY <2>1, <1>3 DEF SiblingsShareContext, Started
<1>15. CancelledOnlyForAReason'
  <2>1. CASE fut[s] = "pending"
    <3>1. \A t \in Steps : fut'[t] \in {"cancelled", "notified"} => fut'[t] = fut[t] /\ t # s
      BY <2>1 DEF TypeOK
    <3>2. \A t \in Steps : t # s => seen'[t] = seen[t]
      BY <2>1 DEF TypeOK
    <3> QED
      BY <3>1, <3>2 DEF CancelledOnlyForAReason, Started, Stops
  <2>2. CASE fut[s] = "cancelled"
    <3>1. seen' = seen /\ \A t \in Steps : t # s => fut'[t] = fut[t]
      BY <2>2 DEF TypeOK
    <3> QED
      BY <3>1, <2>2 DEF CancelledOnlyForAReason, Started, Stops
  <2> QED
    BY <2>1, <2>2, <1>1
<1>16. OutcomeIsFirstDeclaredFailure'
  BY <1>2 DEF OutcomeIsFirstDeclaredFailure
<1> QED
  BY <1>8, <1>9, <1>10, <1>11, <1>12, <1>13, <1>14, <1>15, <1>16

LEMMA StepEndsStep ==
  ASSUME IInv, NEW s \in Steps, NEW o \in Outcomes \cup {"raise"}, StepEnds(s, o)
  PROVE  IInv'
<1> USE DEF IInv, StepEnds, config, endVars
<1>1. fut[s] = "running"
  BY DEF Running
<1>2. pc = "group" /\ first # 0 /\ s \in Unit /\ stoppedAt = 0
  BY <1>1, QueuedInUnit
<1>3. s \notin past /\ Unit \subseteq Steps
  BY <1>2, UnitFacts
<1>4. Unit' = Unit /\ (Pooled' <=> Pooled)
  BY DEF Unit, Pooled
<1>5. out[s] = "none" /\ ~Done(s) /\ s \in waiting
  BY <1>1, <1>2 DEF Records, Coherent, Done, Collected
<1>6. fut'[s] = "finished" /\ out'[s] = o /\ o # "none"
  BY DEF TypeOK, Outcomes, Successes, Failures
<1>7. \A t \in Steps : t # s => fut'[t] = fut[t] /\ out'[t] = out[t]
  BY DEF TypeOK
<1>8. \A t \in Steps : Stops(out, cont, t) => t # s
  BY <1>5 DEF Stops, Failures
<1>9. \A t \in Steps : Stops(out, cont, t) => Stops(out, cont, t)'
  BY <1>7, <1>8 DEF Stops
<1>10. TypeOK'
  BY DEF TypeOK
<1>11. Shape'
  BY DEF Shape
<1>12. Records'
  <2>1. \A t \in Steps : Coherent(t)'
    BY <1>1, <1>6, <1>7 DEF Records, Coherent, Started
  <2>2. past \subseteq Steps
    BY DEF TypeOK
  <2> QED
    BY <2>1, <2>2, <1>2, <1>3, <1>4, <1>6, <1>7 DEF Records, Fresh, Stops
<1>13. Collected'
  <2>1. \A t \in Unit \ waiting : t # s /\ (Done(t) => Done(t)')
    BY <1>3, <1>5, <1>7 DEF Done
  <2> QED
    BY <2>1, <1>2, <1>3, <1>4, <1>7, <1>9 DEF Collected
<1>14. Quiet'
  BY <1>2 DEF Quiet
<1>15. UnitBarrier'
  <2> SUFFICES ASSUME NEW i \in Steps, NEW j \in Steps,
                      i < j, ~SameUnit(groups, i, j), Started(j)
               PROVE  fut'[i] = "finished" /\ out'[i] \in Outcomes /\ ~Stops(out', cont, i)
    BY DEF UnitBarrier, Started, Stops
  <2>1. fut[i] = "finished" /\ out[i] \in Outcomes /\ ~Stops(out, cont, i)
    BY DEF UnitBarrier
  <2> QED
    BY <2>1, <1>1, <1>7 DEF Stops
<1>16. SiblingsShareContext'
  BY DEF SiblingsShareContext, Started
<1>17. CancelledOnlyForAReason'
  BY <1>6, <1>7, <1>9 DEF CancelledOnlyForAReason, Started
<1>18. OutcomeIsFirstDeclaredFailure'
  BY <1>2 DEF OutcomeIsFirstDeclaredFailure
<1> QED
  BY <1>10, <1>11, <1>12, <1>13, <1>14, <1>15, <1>16, <1>17, <1>18

LEMMA CollectStep ==
  ASSUME IInv, NEW s \in Steps, Collect(s)
  PROVE  IInv'
<1> USE DEF IInv, Collect, StopsUnit, config, endVars
<1>1. pc = "group" /\ first # 0 /\ stoppedAt = 0 /\ s \in Unit /\ Done(s)
  BY DEF Shape, Collected
<1>2. Unit \subseteq Steps
  BY <1>1, UnitFacts
<1>3. Unit' = Unit /\ (Pooled' <=> Pooled)
  BY DEF Unit, Pooled
<1>4. TypeOK'
  <2>1. cancelq' \in SUBSET Steps /\ stopped' \in BOOLEAN
    BY <1>2 DEF TypeOK
  <2> QED
    BY <2>1 DEF TypeOK
<1>5. Shape'
  BY DEF Shape
<1>6. Records'
  BY <1>3 DEF Records, Coherent, Fresh, Started, Stops
<1>7. Collected'
  <2>1. waiting' \subseteq Unit /\ completed' \subseteq Unit /\ raised' \subseteq Unit
    BY <1>1 DEF Collected
  <2>2. cancelq' \subseteq Unit /\ (cancelq' # {} => Pooled)
    BY DEF Collected
  <2>3. ASSUME NEW t \in Unit \ waiting'
        PROVE  /\ Done(t)
               /\ t \in raised' <=> out[t] = "raise"
               /\ t \in completed' <=> out[t] \in Outcomes
    <3>1. CASE t = s
      BY <3>1, <1>1 DEF Collected
    <3>2. CASE t # s
      BY <3>2, <1>1 DEF Collected
    <3> QED
      BY <3>1, <3>2
  <2>4. \A t \in waiting' : t \notin raised' /\ t \notin completed'
    BY <1>1 DEF Collected
  <2>5. \A t \in cancelq' : \E u \in Unit : u # t /\ Stops(out, cont, u)
    BY <1>1
  <2>6. \A t \in Unit : (Done(t) <=> Done(t)')
    BY DEF Done
  <2> QED
    BY <2>1, <2>2, <2>3, <2>4, <2>5, <2>6, <1>3 DEF Collected, Stops
<1>8. Quiet'
  BY <1>1 DEF Quiet
<1>9. UnitBarrier' /\ SiblingsShareContext'
  BY DEF UnitBarrier, SiblingsShareContext, Started, Stops
<1>10. CancelledOnlyForAReason' /\ OutcomeIsFirstDeclaredFailure'
  BY <1>1 DEF CancelledOnlyForAReason, OutcomeIsFirstDeclaredFailure, Started, Stops
<1> QED
  BY <1>4, <1>5, <1>6, <1>7, <1>8, <1>9, <1>10

LEMMA CancelNextStep ==
  ASSUME IInv, NEW s \in Steps, CancelNext(s)
  PROVE  IInv'
<1> USE DEF IInv, CancelNext, config, endVars
<1>1. pc = "group" /\ first # 0 /\ stoppedAt = 0 /\ s \in Unit
  BY DEF Quiet, Shape, Collected
<1>2. Unit \subseteq Steps /\ s \notin past
  BY <1>1, UnitFacts
<1>3. Unit' = Unit /\ (Pooled' <=> Pooled)
  BY DEF Unit, Pooled
<1>4. \A t \in Steps : t # s => fut'[t] = fut[t]
  BY DEF TypeOK
<1>5. fut'[s] = fut[s] \/ (fut[s] = "pending" /\ fut'[s] = "cancelled")
  BY DEF TypeOK
<1>6. TypeOK'
  <2>1. fut' \in [Steps -> {"none", "pending", "running", "cancelled", "notified", "finished"}]
    BY DEF TypeOK
  <2> QED
    BY <2>1 DEF TypeOK
<1>7. Shape'
  BY DEF Shape
<1>8. Records'
  <2>1. \A t \in Steps : Coherent(t)'
    BY <1>4, <1>5 DEF Records, Coherent, Started
  <2>2. past \subseteq Steps
    BY DEF TypeOK
  <2> QED
    BY <2>1, <2>2, <1>1, <1>2, <1>3, <1>4, <1>5 DEF Records, Fresh, Stops
<1>9. Collected'
  <2>1. \A t \in Steps : Done(t) => Done(t)'
    BY <1>4, <1>5 DEF Done
  <2>2. cancelq' \subseteq cancelq
    OBVIOUS
  <2> QED
    BY <2>1, <2>2, <1>1, <1>2, <1>3 DEF Collected, Stops
<1>10. Quiet'
  BY <1>1 DEF Quiet
<1>11. UnitBarrier' /\ SiblingsShareContext'
  BY <1>4, <1>5 DEF UnitBarrier, SiblingsShareContext, Started, Stops
<1>12. CancelledOnlyForAReason'
  <2>1. CASE fut'[s] = fut[s]
    BY <2>1, <1>4 DEF CancelledOnlyForAReason, Started, Stops
  <2>2. CASE fut[s] = "pending" /\ fut'[s] = "cancelled"
    <3>1. ~Started(s)
      BY <2>2 DEF Records, Coherent
    <3>2. PICK t \in Unit : t # s /\ Stops(out, cont, t)
      BY <1>1 DEF Collected
    <3>3. SameGroup(groups, s, t) /\ t \in Steps
      BY <3>2, <1>1, UnitFacts
    <3> QED
      BY <3>1, <3>2, <3>3, <1>4 DEF CancelledOnlyForAReason, Started, Stops
  <2> QED
    BY <2>1, <2>2, <1>5
<1>13. OutcomeIsFirstDeclaredFailure'
  BY <1>1 DEF OutcomeIsFirstDeclaredFailure
<1> QED
  BY <1>6, <1>7, <1>8, <1>9, <1>10, <1>11, <1>12, <1>13

(* Once the unit is collected its workers are idle and its queue is empty. *)
LEMMA CollectedUnitIsQuiet ==
  ASSUME IInv, UnitCollected
  PROVE  /\ pc = "group" /\ first # 0 /\ stoppedAt = 0
         /\ \A s \in Unit : s \in Steps /\ s \notin past /\ Done(s)
         /\ Queued = {} /\ Running = {}
<1> USE DEF IInv, UnitCollected
<1>1. pc = "group" /\ first # 0 /\ stoppedAt = 0
  BY DEF Shape
<1>2. \A s \in Unit : s \in Steps /\ s \notin past
  BY <1>1, UnitFacts
<1>3. \A s \in Unit : Done(s)
  BY <1>1 DEF Collected
<1>4. \A s \in Steps : fut[s] \in {"none", "notified", "finished"}
  BY <1>3 DEF Records, Fresh, Done
<1> QED
  BY <1>1, <1>2, <1>3, <1>4 DEF Queued, Running

LEMMA UnitRaisesStep == IInv /\ UnitRaises => IInv'
<1> SUFFICES ASSUME IInv, UnitRaises PROVE IInv'
  OBVIOUS
<1> USE DEF IInv, UnitRaises, config, unitVars, endVars
<1>1. pc = "group" /\ first # 0 /\ stoppedAt = 0 /\ cancelq = {} /\ Queued = {} /\ Running = {}
  BY CollectedUnitIsQuiet DEF UnitCollected
<1>2. TypeOK'
  BY DEF TypeOK
<1>3. Shape'
  BY <1>1 DEF Shape
<1>4. Records' /\ Collected'
  BY DEF Records, Collected, Coherent, Fresh, Started, Unit, Pooled, Done, Stops
<1>5. Quiet'
  BY <1>1 DEF Quiet, Queued, Running
<1>6. UnitBarrier' /\ SiblingsShareContext' /\ CancelledOnlyForAReason'
  BY DEF UnitBarrier, SiblingsShareContext, CancelledOnlyForAReason, Started, Stops
<1>7. OutcomeIsFirstDeclaredFailure'
  BY DEF OutcomeIsFirstDeclaredFailure
<1> QED
  BY <1>2, <1>3, <1>4, <1>5, <1>6, <1>7

(* What folding a unit in makes of step_results.                           *)
LEMMA FoldedUnit ==
  ASSUME IInv, UnitCollected, raised = {}
  PROVE  /\ \A s \in Unit : Folded[s] = out[s] /\ out[s] # "raise"
         /\ \A s \in Steps \ Unit : Folded[s] = results[s]
         /\ Folded \in [Steps -> {"none"} \cup Outcomes]
         /\ (\A s \in Unit : ~Stops(Folded, cont, s)) => \A s \in Unit : fut[s] = "finished"
<1> USE DEF IInv, UnitCollected
<1>1. first # 0 /\ \A s \in Unit : s \in Steps /\ s \notin past /\ Done(s)
  BY CollectedUnitIsQuiet
<1>2. ASSUME NEW s \in Unit
      PROVE  Folded[s] = out[s] /\ out[s] # "raise"
  <2>1. s \in Steps /\ s \notin past /\ results[s] = "none"
    BY <1>1 DEF Records
  <2>2. s \in completed <=> out[s] \in Outcomes
    BY <1>1 DEF Collected
  <2>3. out[s] # "raise"
    BY <1>1 DEF Collected
  <2>4. out[s] \in {"none"} \cup Outcomes
    BY <2>1, <2>3 DEF TypeOK
  <2> QED
    BY <2>1, <2>2, <2>3, <2>4 DEF Folded
<1>3. ASSUME NEW s \in Steps \ Unit PROVE Folded[s] = results[s]
  BY <1>1 DEF Folded, Collected
<1>4. Folded \in [Steps -> {"none"} \cup Outcomes]
  <2>1. \A s \in Steps : Folded[s] \in {"none"} \cup Outcomes
    BY <1>2, <1>3 DEF TypeOK
  <2>2. Folded = [s \in Steps |-> Folded[s]]
    BY DEF Folded
  <2> QED
    BY <2>1, <2>2
<1>5. ASSUME \A s \in Unit : ~Stops(Folded, cont, s), NEW s \in Unit
      PROVE  fut[s] = "finished"
  <2>1. SUFFICES ASSUME fut[s] = "notified" PROVE FALSE
    BY <1>1 DEF Done
  <2>2. PICK t \in Steps : SameGroup(groups, s, t) /\ Stops(out, cont, t)
    BY <2>1, <1>1 DEF CancelledOnlyForAReason
  <2>3. t \in Unit
    BY <2>2, <1>1, UnitFacts DEF SameUnit
  <2> QED
    BY <2>2, <2>3, <1>2, <1>5 DEF Stops
<1> QED
  BY <1>2, <1>3, <1>4, <1>5

LEMMA FoldUnitStep == IInv /\ FoldUnit => IInv'
<1> SUFFICES ASSUME IInv, FoldUnit PROVE IInv'
  OBVIOUS
<1> USE DEF IInv, FoldUnit, config
<1>1. /\ pc = "group" /\ first # 0 /\ stoppedAt = 0 /\ cancelq = {}
      /\ Queued = {} /\ Running = {}
      /\ \A s \in Unit : s \in Steps /\ s \notin past /\ Done(s)
  BY CollectedUnitIsQuiet DEF UnitCollected
<1>2. /\ \A s \in Unit : results'[s] = out[s] /\ out[s] # "raise"
      /\ \A s \in Steps \ Unit : results'[s] = results[s]
      /\ results' \in [Steps -> {"none"} \cup Outcomes]
      /\ (\A s \in Unit : ~Stops(results', cont, s)) => \A s \in Unit : fut[s] = "finished"
  BY FoldedUnit
<1>3. /\ stoppedAt' = 0 <=> \A s \in Unit : ~Stops(results', cont, s)
      /\ stoppedAt' # 0 => /\ stoppedAt' \in Unit /\ Stops(results', cont, stoppedAt')
                           /\ \A s \in Unit : Stops(results', cont, s) => stoppedAt' <= s
      /\ stoppedAt' \in 0..N
  <2>1. Unit \in SUBSET Steps
    BY <1>1
  <2> QED
    BY <2>1, FirstStoppingIsLeast
<1>4. /\ groups' = groups /\ past' = past \cup Unit /\ Unit' = {} /\ past' \subseteq Steps
      /\ PrefixOfUnits(groups, past') /\ past = 1..(first - 1)
      /\ \A s \in Unit : s >= first
  BY <1>1, UnitFacts DEF Unit, TypeOK
<1>5. TypeOK'
  <2>1. events' \in Seq(EventNames)
    BY DEF TypeOK, EventNames
  <2>2. first' \in 0..N /\ Folded = results'
    BY StepsAreIntegers
  <2> HIDE DEF FoldUnit
  <2>3. /\ UNCHANGED <<groups, cont, limit, memory, blankId, fut, out, seen, waiting,
                       completed, raised, stopped, cancelq, stored>>
        /\ pc' \in {"units", "remember"}
    BY DEF FoldUnit
  <2> QED
    BY <2>1, <2>2, <2>3, <1>2, <1>3, <1>4 DEF TypeOK
<1>6. Shape'
  BY <1>1, <1>4 DEF Shape
<1>7. Records'
  <2>1. \A s \in Unit : fut[s] \in {"finished", "notified"}
    BY <1>1 DEF Done
  <2>2. ASSUME NEW s \in Steps
        PROVE  results'[s] = IF s \in past' THEN out[s] ELSE "none"
    BY <1>1, <1>2, <1>4 DEF Records
  <2>3. ASSUME stoppedAt' = 0, NEW s \in past'
        PROVE  fut[s] = "finished" /\ ~Stops(out, cont, s)
    BY <2>3, <1>1, <1>2, <1>3, <1>4 DEF Records, Stops
  <2>4. \A s \in Steps : Coherent(s)'
    BY DEF Records, Coherent, Started
  <2>5. \A s \in Steps \ (past' \cup Unit') : Fresh(s)'
    BY <1>4 DEF Records, Fresh
  <2>6. \A s \in past' : fut[s] \in {"finished", "notified"} /\ out[s] # "raise"
    BY <2>1, <1>2, <1>4 DEF Records
  <2> HIDE DEF FoldUnit
  <2>7. fut' = fut /\ out' = out /\ cont' = cont
    BY DEF FoldUnit
  <2>8. \A s \in Steps : (IF s \in past' THEN out[s] ELSE "none")
                         = (IF s \in past' THEN out'[s] ELSE "none")
    BY <2>7
  <2> QED
    BY <2>2, <2>3, <2>4, <2>5, <2>6, <2>7, <1>4 DEF Records, Stops
<1>8. Collected' /\ Quiet'
  BY <1>1 DEF Collected, Quiet, Queued, Running
<1>9. UnitBarrier' /\ SiblingsShareContext' /\ CancelledOnlyForAReason'
  BY DEF UnitBarrier, SiblingsShareContext, CancelledOnlyForAReason, Started, Stops
<1>10. OutcomeIsFirstDeclaredFailure'
  <2>1. SUFFICES ASSUME stoppedAt' # 0
                 PROVE  /\ Stops(results', cont, stoppedAt')
                        /\ \A s \in 1..(stoppedAt' - 1) : ~Stops(results', cont, s)
    BY DEF OutcomeIsFirstDeclaredFailure, Stops
  <2>2. stoppedAt' \in Unit /\ stoppedAt' \in Steps
    BY <2>1, <1>1, <1>3
  <2>3. ASSUME NEW s \in 1..(stoppedAt' - 1) PROVE ~Stops(results', cont, s)
    <3>1. s \in Steps /\ s < stoppedAt'
      BY <2>2, StepsAreIntegers DEF Steps
    <3>2. CASE s \in Unit
      BY <3>1, <3>2, <2>1, <2>2, <1>3, StepsAreIntegers
    <3>3. CASE s \notin Unit
      <4>1. results'[s] = results[s]
        BY <3>1, <3>3, <1>2
      <4>2. results[s] = IF s \in past THEN out[s] ELSE "none"
        BY <3>1 DEF Records
      <4>3. s \in past => ~Stops(out, cont, s)
        BY <1>1 DEF Records
      <4> QED
        BY <4>1, <4>2, <4>3 DEF Stops, Failures
    <3> QED
      BY <3>2, <3>3
  <2> QED
    BY <2>1, <2>3, <1>3
<1> QED
  BY <1>5, <1>6, <1>7, <1>8, <1>9, <1>10

LEMMA CompleteStep == IInv /\ Complete => IInv'
<1> SUFFICES ASSUME IInv, Complete PROVE IInv'
  OBVIOUS
<1> USE DEF IInv, Complete, config, unitVars
<1>1. TypeOK'
  BY DEF TypeOK, EventNames
<1>2. Shape'
  BY DEF Shape
<1>3. Records' /\ Collected' /\ Quiet'
  BY DEF Records, Collected, Quiet, Coherent, Fresh, Started, Unit, Pooled, Done,
         Stops, Queued, Running, Shape
<1>4. UnitBarrier' /\ SiblingsShareContext' /\ CancelledOnlyForAReason'
  BY DEF UnitBarrier, SiblingsShareContext, CancelledOnlyForAReason, Started, Stops
<1>5. OutcomeIsFirstDeclaredFailure'
  <2>1. stoppedAt = 0
    BY DEF Shape
  <2>2. \A s \in Steps : results[s] # "none" /\ ~Stops(results, cont, s)
    BY <2>1 DEF Records, Coherent, Stops
  <2> QED
    BY <2>1, <2>2 DEF OutcomeIsFirstDeclaredFailure, Stops
<1> QED
  BY <1>1, <1>2, <1>3, <1>4, <1>5

LEMMA RememberStep == IInv /\ Remember => IInv'
<1> SUFFICES ASSUME IInv, Remember PROVE IInv'
  OBVIOUS
<1> USE DEF IInv, Remember, config, unitVars
<1>1. TypeOK'
  BY DEF TypeOK
<1>2. Shape'
  BY DEF Shape
<1>3. Records' /\ Collected' /\ Quiet'
  BY DEF Records, Collected, Quiet, Coherent, Fresh, Started, Unit, Pooled, Done,
         Stops, Queued, Running, Shape
<1>4. UnitBarrier' /\ SiblingsShareContext' /\ CancelledOnlyForAReason'
  BY DEF UnitBarrier, SiblingsShareContext, CancelledOnlyForAReason, Started, Stops
<1>5. OutcomeIsFirstDeclaredFailure'
  BY DEF OutcomeIsFirstDeclaredFailure, Stops
<1> QED
  BY <1>1, <1>2, <1>3, <1>4, <1>5

LEMMA StutterStep == IInv /\ UNCHANGED vars => IInv'
<1> SUFFICES ASSUME IInv, UNCHANGED vars PROVE IInv'
  OBVIOUS
<1> USE DEF IInv, vars, config, unitVars, endVars
<1>1. TypeOK' /\ Shape'
  BY DEF TypeOK, Shape
<1>2. Records' /\ Collected' /\ Quiet'
  BY DEF Records, Collected, Quiet, Coherent, Fresh, Started, Unit, Pooled, Done,
         Stops, Queued, Running
<1>3. UnitBarrier' /\ SiblingsShareContext' /\ CancelledOnlyForAReason'
  BY DEF UnitBarrier, SiblingsShareContext, CancelledOnlyForAReason, Started, Stops
<1>4. OutcomeIsFirstDeclaredFailure'
  BY DEF OutcomeIsFirstDeclaredFailure, Stops
<1> QED
  BY <1>1, <1>2, <1>3, <1>4

LEMMA NextStepKeepsIInv == IInv /\ [Next]_vars => IInv'
<1> SUFFICES ASSUME IInv, [Next]_vars PROVE IInv'
  OBVIOUS
<1>1. CASE Start
  BY <1>1, StartStep
<1>2. CASE \E s \in Steps : BeginUnit(s)
  BY <1>2, BeginUnitStep
<1>3. CASE \E s \in Steps : Collect(s)
  BY <1>3, CollectStep
<1>4. CASE \E s \in Steps : CancelNext(s)
  <2>1. PICK s \in Steps : CancelNext(s)
    BY <1>4
  <2> QED
    BY <2>1, CancelNextStep
<1>5. CASE UnitRaises
  BY <1>5, UnitRaisesStep
<1>6. CASE FoldUnit
  BY <1>6, FoldUnitStep
<1>7. CASE Complete
  BY <1>7, CompleteStep
<1>8. CASE Remember
  BY <1>8, RememberStep
<1>9. CASE \E s \in Steps : Worker(s)
  BY <1>9, DequeueStep, StepEndsStep DEF Worker
<1>10. CASE Terminated \/ UNCHANGED vars
  BY <1>10, StutterStep DEF Terminated
<1> QED
  BY <1>1, <1>2, <1>3, <1>4, <1>5, <1>6, <1>7, <1>8, <1>9, <1>10 DEF Next, MainStep

---------------------------------------------------------------------------
(* Theorems.                                                               *)

(* The inductive invariant holds in every state of every run.              *)
THEOREM InductiveInvariant == Spec => []IInv
  BY InitIInv, NextStepKeepsIInv, PTL DEF Spec

(* Every variable keeps to its values, for any number of steps and workers.*)
THEOREM TypeCorrect == Spec => []TypeOK
<1>1. IInv => TypeOK
  BY DEF IInv
<1> QED
  BY <1>1, InductiveInvariant, PTL

(* No schedule of the pool lets a step start before its unit's turn, or    *)
(* after a failure that stops the workflow.                                *)
THEOREM UnitsAreBarriers == Spec => []UnitBarrier
<1>1. IInv => UnitBarrier
  BY DEF IInv
<1> QED
  BY <1>1, InductiveInvariant, PTL

(* The context a step is given depends on the declared order alone.        *)
THEOREM ContextIsDeterministic == Spec => []SiblingsShareContext
<1>1. IInv => SiblingsShareContext
  BY DEF IInv
<1> QED
  BY <1>1, InductiveInvariant, PTL

(* The cancel loop touches only siblings of a failure that stops the run.  *)
THEOREM CancellationIsJustified == Spec => []CancelledOnlyForAReason
<1>1. IInv => CancelledOnlyForAReason
  BY DEF IInv
<1> QED
  BY <1>1, InductiveInvariant, PTL

(* stopped_at is a matter of declared order, not of which thread was first.*)
THEOREM StoppedAtIsFirstDeclared == Spec => []OutcomeIsFirstDeclaredFailure
<1>1. IInv => OutcomeIsFirstDeclaredFailure
  BY DEF IInv
<1> QED
  BY <1>1, InductiveInvariant, PTL

(* Every step that was executed is in the result that run() returns.       *)
THEOREM NoExecutedStepIsLost == Spec => []NothingExecutedIsLost
<1>1. IInv => NothingExecutedIsLost
  <2> SUFFICES ASSUME IInv, pc = "returned", NEW s \in Steps
               PROVE  results[s] = out[s] /\ (Started(s) => results[s] # "none")
    BY DEF NothingExecutedIsLost
  <2> USE DEF IInv
  <2>1. first = 0 /\ Unit = {} /\ Running = {}
    BY DEF Shape, Unit, Quiet
  <2>2. CASE s \in past
    BY <2>1, <2>2 DEF Records, Coherent, Running
  <2>3. CASE s \notin past
    BY <2>1, <2>3 DEF Records, Fresh, Started
  <2> QED
    BY <2>2, <2>3
<1> QED
  BY <1>1, InductiveInvariant, PTL

---------------------------------------------------------------------------
(* What termination rests on.  That every call ends is checked by TLC under*)
(* fairness; whatever the schedule, no reachable state of a run is stuck,  *)
(* and every step uses up some of the work that the run began with.        *)

(* The guards of the calling thread, of the workers and of the step bodies.*)
MainCanMove ==
  \/ pc \in {"new", "remember"}
  \/ pc = "units" /\ (past = Steps \/ NextStep(past) # {})
  \/ pc = "group" /\ cancelq = {} /\ (waiting = {} \/ \E s \in waiting : Done(s))
  \/ \E s \in cancelq : \A t \in cancelq : s <= t

WorkerCanMove ==
  \/ Running # {}
  \/ Cardinality(Running) < Workers /\ \E s \in Queued : \A t \in Queued : s <= t

(* The run is over, or some thread of it has something to do.              *)
EndedOrCanMove == Ended \/ MainCanMove \/ WorkerCanMove

(* Steps whose unit is not open, whose future no worker or cancel() has    *)
(* touched, which are not done, not collected, still open to cancel(), and *)
(* not folded in; and the phases of the calling thread.                    *)
ToBegin   == Steps \ (past \cup Unit)
ToDecide  == {s \in Steps : fut[s] \in {"none", "pending"}}
ToSettle  == {s \in Steps : ~Done(s)}
ToCollect == ToBegin \cup waiting
ToCancel  == ToBegin \cup (IF stopped THEN cancelq ELSE Unit)
ToFold    == Steps \ past
PhasesLeft ==
  CASE pc = "new"                -> {"start", "units", "remember"}
    [] pc \in {"units", "group"} -> {"units", "remember"}
    [] pc = "remember"           -> {"remember"}
    [] OTHER                     -> {}

WorkLeft ==
  Cardinality(ToBegin) + Cardinality(ToDecide) + Cardinality(ToSettle)
    + Cardinality(ToCollect) + Cardinality(ToCancel) + Cardinality(ToFold)
    + Cardinality(PhasesLeft)

(* There is only so much to do, and every step leaves less of it.          *)
WorkIsBounded == WorkLeft \in 0..(6 * N + 3)

WorkRunsOut == [][WorkLeft' < WorkLeft]_vars

LEMMA StepsAreFinite == IsFiniteSet(Steps) /\ Cardinality(Steps) = N
<1>1. IsFiniteSet(1..N) /\ Cardinality(1..N) = IF 1 > N THEN 0 ELSE N - 1 + 1
  BY NAssumption, FS_Interval
<1> QED
  BY <1>1, NAssumption DEF Steps

LEMMA SmallerSet ==
  ASSUME NEW S, IsFiniteSet(S), NEW T, T \subseteq S
  PROVE  /\ Cardinality(S) \in Nat /\ Cardinality(T) \in Nat
         /\ Cardinality(T) <= Cardinality(S)
         /\ T # S => Cardinality(T) < Cardinality(S)
<1>1. T \in SUBSET S
  OBVIOUS
<1>2. IsFiniteSet(T) /\ Cardinality(T) <= Cardinality(S) /\ (Cardinality(S) = Cardinality(T) => S = T)
  BY <1>1, FS_Subset
<1>3. Cardinality(S) \in Nat /\ Cardinality(T) \in Nat
  BY <1>2, FS_CardinalityType
<1> QED
  BY <1>2, <1>3

(* In a unit a worker is free to take the next job unless one is running.  *)
LEMMA GroupCanMove ==
  ASSUME IInv, pc = "group", waiting # {}, cancelq = {}
  PROVE  MainCanMove \/ WorkerCanMove
<1> SUFFICES ASSUME Running = {}, ~ \E s \in waiting : Done(s)
             PROVE  WorkerCanMove
  BY DEF MainCanMove, WorkerCanMove
<1>1. first # 0 /\ TypeOK /\ Shape
  BY DEF IInv, Shape
<1>2. first \in Unit /\ Unit \subseteq Steps
  BY <1>1, UnitFacts
<1>3. PICK s \in waiting : s \in Unit /\ fut[s] # "none" /\ ~Done(s)
  BY <1>1 DEF IInv, Collected, Records
<1>4. Queued # {}
  BY <1>1, <1>2, <1>3 DEF TypeOK, Done, Queued, Running
<1>5. \E q \in Queued : \A t \in Queued : q <= t
  <2>1. Queued \in SUBSET Nat
    BY StepsAreIntegers DEF Queued
  <2> QED
    BY <2>1, <1>4, LeastElement
<1>6. Cardinality(Running) = 0
  BY FS_EmptySet
<1>7. Workers > 0
  <2>1. CASE limit = 0
    <3>1. IsFiniteSet(Unit)
      BY <1>2, StepsAreFinite, FS_Subset
    <3>2. Cardinality(Unit) # 0 /\ Cardinality(Unit) \in Nat
      BY <3>1, <1>2, FS_EmptySet, FS_CardinalityType
    <3> QED
      BY <2>1, <3>2 DEF Workers
  <2>2. CASE limit # 0
    BY <2>2, <1>1, LimitsAssumption DEF Workers, TypeOK
  <2> QED
    BY <2>1, <2>2
<1> QED
  BY <1>5, <1>6, <1>7 DEF WorkerCanMove

LEMMA SomeThreadCanMove == IInv => EndedOrCanMove
<1> SUFFICES ASSUME IInv, ~Ended PROVE MainCanMove \/ WorkerCanMove
  BY DEF EndedOrCanMove
<1>1. pc \in {"new", "units", "group", "remember"}
  BY DEF IInv, TypeOK, Ended
<1>2. CASE pc \in {"new", "remember"}
  BY <1>2 DEF MainCanMove
<1>3. CASE pc = "units" /\ past # Steps
  <2> DEFINE D == Steps \ past
  <2>1. D \in SUBSET Nat /\ D # {}
    BY <1>3, StepsAreIntegers DEF IInv, TypeOK
  <2>2. PICK s \in D : \A t \in D : s <= t
    BY <2>1, LeastElement
  <2>3. s \in Steps /\ s \notin past
    OBVIOUS
  <2>4. ASSUME NEW i \in 1..(s - 1) PROVE i \in past
    <3>1. i \in Steps /\ ~(s <= i)
      BY <2>3, StepsAreIntegers DEF Steps
    <3> QED
      BY <3>1, <2>2
  <2>5. s \in NextStep(past)
    BY <2>3, <2>4 DEF NextStep, Opens
  <2> QED
    BY <1>3, <2>5 DEF MainCanMove
<1>4. CASE pc = "units" /\ past = Steps
  BY <1>4 DEF MainCanMove
<1>5. CASE cancelq # {}
  <2>1. cancelq \in SUBSET Nat
    BY StepsAreIntegers DEF IInv, TypeOK
  <2> QED
    BY <2>1, <1>5, LeastElement DEF MainCanMove
<1>6. CASE pc = "group" /\ cancelq = {} /\ waiting = {}
  BY <1>6 DEF MainCanMove
<1>7. CASE pc = "group" /\ cancelq = {} /\ waiting # {}
  BY <1>7, GroupCanMove
<1> QED
  BY <1>1, <1>2, <1>3, <1>4, <1>5, <1>6, <1>7

(* The cancel loop runs only in a unit that has been stopped.              *)
CancelsOnceStopped == cancelq # {} => stopped

LEMMA NextStepKeepsCancels == CancelsOnceStopped /\ [Next]_vars => CancelsOnceStopped'
<1> SUFFICES ASSUME CancelsOnceStopped, [Next]_vars PROVE CancelsOnceStopped'
  OBVIOUS
<1> USE DEF CancelsOnceStopped, unitVars
<1>1. CASE Start
  BY <1>1 DEF Start
<1>2. CASE \E s \in Steps : BeginUnit(s)
  BY <1>2 DEF BeginUnit
<1>3. CASE \E s \in Steps : Collect(s)
  BY <1>3 DEF Collect
<1>4. CASE \E s \in Steps : CancelNext(s)
  BY <1>4 DEF CancelNext
<1>5. CASE UnitRaises
  BY <1>5 DEF UnitRaises
<1>6. CASE FoldUnit
  BY <1>6 DEF FoldUnit
<1>7. CASE Complete
  BY <1>7 DEF Complete
<1>8. CASE Remember
  BY <1>8 DEF Remember
<1>9. CASE \E s \in Steps : Worker(s)
  BY <1>9 DEF Worker, Dequeue, StepEnds
<1>10. CASE Terminated \/ UNCHANGED vars
  BY <1>10 DEF Terminated, vars
<1> QED
  BY <1>1, <1>2, <1>3, <1>4, <1>5, <1>6, <1>7, <1>8, <1>9, <1>10 DEF Next, MainStep

(* What is left to do: none of it comes back, and some of it is done.      *)
NothingComesBack ==
  /\ ToBegin' \subseteq ToBegin
  /\ ToDecide' \subseteq ToDecide
  /\ ToSettle' \subseteq ToSettle
  /\ ToCollect' \subseteq ToCollect
  /\ ToCancel' \subseteq ToCancel
  /\ ToFold' \subseteq ToFold
  /\ PhasesLeft' \subseteq PhasesLeft

SomethingIsDone ==
  \/ ToBegin' # ToBegin
  \/ ToDecide' # ToDecide
  \/ ToSettle' # ToSettle
  \/ ToCollect' # ToCollect
  \/ ToCancel' # ToCancel
  \/ ToFold' # ToFold
  \/ PhasesLeft' # PhasesLeft

Dwindles == NothingComesBack /\ SomethingIsDone

LEMMA BeginUnitDwindles ==
  ASSUME IInv, NEW s \in Steps, BeginUnit(s)
  PROVE  Dwindles
<1> DEFINE unit == UnitFrom(groups, s)
<1> USE DEF BeginUnit, config, endVars
<1>1. /\ groups \in Seq(Seq(Names)) /\ WellFormed(groups) /\ Accepted(groups)
      /\ PrefixOfUnits(groups, past) /\ Opens(past, s) /\ first = 0
  BY GroupOptionsAssumption DEF IInv, TypeOK, Shape, NextStep, Opens
<1>2. s \in unit /\ unit \subseteq Steps /\ \A t \in unit : t \notin past
  <2> HIDE DEF unit
  <2>1. unit = UnitFrom(groups, s)
    BY DEF unit
  <2>2. s \in unit
    BY <1>1, <2>1, OpenedUnit
  <2>3. unit = {t \in Steps : SameUnit(groups, s, t)}
    BY <1>1, <2>1, OpenedUnit
  <2>4. \A t \in unit : t >= s /\ t \notin past
    BY <1>1, <2>1, OpenedUnit
  <2> QED
    BY <2>2, <2>3, <2>4
<1>3. Unit' = unit /\ Unit = {} /\ past' = past /\ waiting' = unit /\ ~stopped'
  BY <1>1, StepsAreIntegers DEF Unit, Steps
<1>4. \A t \in unit : fut[t] = "none"
  BY <1>1, <1>2, <1>3 DEF IInv, Records, Fresh
<1>5. \A t \in Steps : fut'[t] = fut[t] \/ fut[t] = "none"
  BY <1>4 DEF IInv, TypeOK
<1>6. ToBegin' \subseteq ToBegin /\ ToBegin' # ToBegin
  BY <1>2, <1>3 DEF ToBegin
<1>7. ToDecide' \subseteq ToDecide /\ ToSettle' \subseteq ToSettle
  BY <1>5 DEF ToDecide, ToSettle, Done
<1>8. ToCollect' \subseteq ToCollect /\ ToCancel' \subseteq ToCancel
  BY <1>2, <1>3 DEF ToCollect, ToCancel, ToBegin
<1>9. ToFold' = ToFold /\ PhasesLeft' = PhasesLeft
  BY <1>3 DEF ToFold, PhasesLeft
<1> QED
  BY <1>6, <1>7, <1>8, <1>9 DEF Dwindles, NothingComesBack, SomethingIsDone

LEMMA CollectDwindles ==
  ASSUME IInv, NEW s \in Steps, Collect(s)
  PROVE  Dwindles
<1> USE DEF Collect, endVars
<1>1. first # 0 /\ s \in Unit /\ cancelq = {}
  BY DEF IInv, Shape, Collected
<1>2. Unit' = Unit /\ past' = past /\ fut' = fut
  BY DEF Unit, config
<1>3. ToBegin' = ToBegin /\ ToDecide' = ToDecide /\ ToSettle' = ToSettle /\ ToFold' = ToFold
  BY <1>2 DEF ToBegin, ToDecide, ToSettle, Done, ToFold
<1>4. ToCollect' \subseteq ToCollect /\ ToCollect' # ToCollect
  BY <1>1, <1>3 DEF ToCollect, ToBegin
<1>5. ToCancel' \subseteq ToCancel
  BY <1>1, <1>2, <1>3 DEF ToCancel, StopsUnit
<1>6. PhasesLeft' = PhasesLeft
  BY DEF PhasesLeft
<1> QED
  BY <1>3, <1>4, <1>5, <1>6 DEF Dwindles, NothingComesBack, SomethingIsDone

LEMMA CancelNextDwindles ==
  ASSUME IInv, CancelsOnceStopped, NEW s \in Steps, CancelNext(s)
  PROVE  Dwindles
<1> USE DEF CancelNext, endVars
<1>1. pc = "group" /\ first # 0 /\ s \in Unit /\ stopped
  BY DEF IInv, Shape, Collected, Quiet, CancelsOnceStopped
<1>2. Unit' = Unit /\ past' = past /\ waiting' = waiting /\ stopped'
  BY <1>1 DEF Unit, config
<1>3. ToBegin' = ToBegin /\ ToFold' = ToFold /\ ToCollect' = ToCollect
  BY <1>2 DEF ToBegin, ToFold, ToCollect
<1>4. \A t \in Steps : fut'[t] = fut[t] \/ (fut[t] = "pending" /\ fut'[t] = "cancelled")
  BY DEF IInv, TypeOK
<1>5. ToDecide' \subseteq ToDecide /\ ToSettle' \subseteq ToSettle
  BY <1>4 DEF ToDecide, ToSettle, Done
<1>6. ToCancel' \subseteq ToCancel /\ ToCancel' # ToCancel
  BY <1>1, <1>2, <1>3 DEF ToCancel, ToBegin
<1>7. PhasesLeft' = PhasesLeft
  BY DEF PhasesLeft
<1> QED
  BY <1>3, <1>5, <1>6, <1>7 DEF Dwindles, NothingComesBack, SomethingIsDone

LEMMA FoldUnitDwindles ==
  ASSUME IInv, FoldUnit
  PROVE  Dwindles
<1> USE DEF FoldUnit
<1>1. pc = "group" /\ first # 0 /\ first \in Unit /\ cancelq = {} /\ waiting = {}
      /\ \A s \in Unit : s \in Steps /\ s \notin past
  BY CollectedUnitIsQuiet, UnitFacts DEF IInv, UnitCollected
<1>2. Unit' = {} /\ past' = past \cup Unit /\ fut' = fut /\ cancelq' = {} /\ waiting' = {}
  BY <1>1 DEF Unit
<1>3. ToBegin' = ToBegin /\ ToDecide' = ToDecide /\ ToSettle' = ToSettle
  BY <1>2 DEF ToBegin, ToDecide, ToSettle, Done
<1>4. ToCollect' \subseteq ToCollect /\ ToCancel' \subseteq ToCancel
  BY <1>2, <1>3 DEF ToCollect, ToCancel
<1>5. ToFold' \subseteq ToFold /\ ToFold' # ToFold
  BY <1>1, <1>2 DEF ToFold
<1>6. PhasesLeft' \subseteq PhasesLeft
  BY <1>1 DEF PhasesLeft
<1> QED
  BY <1>3, <1>4, <1>5, <1>6 DEF Dwindles, NothingComesBack, SomethingIsDone

LEMMA WorkerDwindles ==
  ASSUME IInv, NEW s \in Steps, Worker(s)
  PROVE  Dwindles
<1>1. /\ \A t \in Steps : t # s => fut'[t] = fut[t]
      /\ \/ fut[s] = "pending" /\ fut'[s] = "running"
         \/ fut[s] = "cancelled" /\ fut'[s] = "notified"
         \/ fut[s] = "running" /\ fut'[s] = "finished"
  BY DEF IInv, TypeOK, Worker, Dequeue, StepEnds, Queued, Running
<1>2. UNCHANGED <<groups, first, past, waiting, stopped, cancelq, pc>>
  BY DEF Worker, Dequeue, StepEnds, config, endVars
<1>3. ToBegin' = ToBegin /\ ToCollect' = ToCollect /\ ToCancel' = ToCancel /\ ToFold' = ToFold
  BY <1>2 DEF ToBegin, ToCollect, ToCancel, ToFold, Unit
<1>4. ToDecide' \subseteq ToDecide /\ ToSettle' \subseteq ToSettle
  BY <1>1 DEF ToDecide, ToSettle, Done
<1>5. ToDecide' # ToDecide \/ ToSettle' # ToSettle
  <2>1. CASE fut[s] = "pending" /\ fut'[s] = "running"
    <3>1. s \in ToDecide /\ s \notin ToDecide'
      BY <2>1 DEF ToDecide
    <3> QED
      BY <3>1
  <2>2. CASE ~(fut[s] = "pending" /\ fut'[s] = "running")
    <3>1. s \in ToSettle /\ s \notin ToSettle'
      BY <2>2, <1>1 DEF ToSettle, Done
    <3> QED
      BY <3>1
  <2> QED
    BY <2>1, <2>2
<1>6. PhasesLeft' = PhasesLeft
  BY <1>2 DEF PhasesLeft
<1> QED
  BY <1>3, <1>4, <1>5, <1>6 DEF Dwindles, NothingComesBack, SomethingIsDone

LEMMA PhaseDwindles ==
  ASSUME IInv, Start \/ UnitRaises \/ Complete \/ Remember
  PROVE  Dwindles
<1>1. UNCHANGED <<groups, past, unitVars>>
  BY DEF Start, UnitRaises, Complete, Remember, config
<1>2. /\ ToBegin' = ToBegin /\ ToDecide' = ToDecide /\ ToSettle' = ToSettle
      /\ ToCollect' = ToCollect /\ ToCancel' = ToCancel /\ ToFold' = ToFold
  BY <1>1 DEF ToBegin, ToDecide, ToSettle, ToCollect, ToCancel, ToFold, Unit, Done, unitVars
<1>3. PhasesLeft' \subseteq PhasesLeft /\ PhasesLeft' # PhasesLeft
  <2>1. CASE Start
    BY <2>1 DEF Start, PhasesLeft
  <2>2. CASE UnitRaises
    BY <2>2 DEF UnitRaises, UnitCollected, PhasesLeft
  <2>3. CASE Complete
    BY <2>3 DEF Complete, PhasesLeft
  <2>4. CASE Remember
    BY <2>4 DEF Remember, PhasesLeft
  <2> QED
    BY <2>1, <2>2, <2>3, <2>4
<1> QED
  BY <1>2, <1>3 DEF Dwindles, NothingComesBack, SomethingIsDone

LEMMA StepDwindles ==
  ASSUME IInv, CancelsOnceStopped, Next, vars' # vars
  PROVE  Dwindles
<1>1. ~Terminated
  BY DEF Terminated
<1>2. CASE Start \/ UnitRaises \/ Complete \/ Remember
  BY <1>2, PhaseDwindles
<1>3. CASE \E s \in Steps : BeginUnit(s)
  BY <1>3, BeginUnitDwindles
<1>4. CASE \E s \in Steps : Collect(s)
  BY <1>4, CollectDwindles
<1>5. CASE \E s \in Steps : CancelNext(s)
  <2>1. PICK s \in Steps : CancelNext(s)
    BY <1>5
  <2> QED
    BY <2>1, CancelNextDwindles
<1>6. CASE FoldUnit
  BY <1>6, FoldUnitDwindles
<1>7. CASE \E s \in Steps : Worker(s)
  BY <1>7, WorkerDwindles
<1> QED
  BY <1>1, <1>2, <1>3, <1>4, <1>5, <1>6, <1>7 DEF Next, MainStep

(* The sets that WorkLeft counts, each of at most N or 3 members.          *)
LEMMA WorkIsFinite ==
  ASSUME TypeOK
  PROVE  /\ \A S \in {ToBegin, ToDecide, ToSettle, ToCollect, ToCancel, ToFold} :
              IsFiniteSet(S) /\ Cardinality(S) \in 0..N
         /\ IsFiniteSet(PhasesLeft) /\ Cardinality(PhasesLeft) \in 0..3
<1>1. Unit \subseteq Steps
  <2>1. \A s \in Nat : s # 0 => s..N \subseteq Steps
    BY NAssumption DEF Steps
  <2>2. first \in Nat
    BY NAssumption DEF TypeOK
  <2> QED
    BY <2>1, <2>2 DEF Unit, UnitFrom
<1>2. \A S \in {ToBegin, ToDecide, ToSettle, ToCollect, ToCancel, ToFold} : S \subseteq Steps
  BY <1>1 DEF TypeOK, ToBegin, ToDecide, ToSettle, ToCollect, ToCancel, ToFold
<1>3. ASSUME NEW S, S \subseteq Steps
      PROVE  IsFiniteSet(S) /\ Cardinality(S) \in 0..N
  <2>1. IsFiniteSet(S)
    BY <1>3, StepsAreFinite, FS_Subset
  <2>2. Cardinality(S) \in Nat /\ Cardinality(S) <= Cardinality(Steps)
    BY <1>3, StepsAreFinite, SmallerSet
  <2>3. Cardinality(S) \in 0..N
    BY <2>2, StepsAreFinite, NAssumption
  <2> QED
    BY <2>1, <2>3
<1>4. IsFiniteSet(PhasesLeft) /\ Cardinality(PhasesLeft) \in 0..3
  <2> DEFINE P == {"start", "units", "remember"}
  <2>1. IsFiniteSet(P) /\ Cardinality(P) <= 3
    <3>1. IsFiniteSet({"start"}) /\ Cardinality({"start"}) = 1
      BY FS_Singleton
    <3>2. IsFiniteSet({"start"} \cup {"units"}) /\ Cardinality({"start"} \cup {"units"}) = 2
      BY <3>1, FS_AddElement
    <3>3. IsFiniteSet(({"start"} \cup {"units"}) \cup {"remember"})
          /\ Cardinality(({"start"} \cup {"units"}) \cup {"remember"}) = 3
      BY <3>2, FS_AddElement
    <3>4. P = ({"start"} \cup {"units"}) \cup {"remember"}
      OBVIOUS
    <3> QED
      BY <3>3, <3>4
  <2>2. PhasesLeft \subseteq P
    BY DEF PhasesLeft
  <2> HIDE DEF P
  <2>3. IsFiniteSet(PhasesLeft)
    BY <2>1, <2>2, FS_Subset
  <2>4. Cardinality(PhasesLeft) \in Nat /\ Cardinality(PhasesLeft) <= Cardinality(P) /\ Cardinality(P) \in Nat
    BY <2>1, <2>2, SmallerSet
  <2> QED
    BY <2>1, <2>3, <2>4
<1> QED
  BY <1>2, <1>3, <1>4

LEMMA DwindlingUsesWork ==
  ASSUME TypeOK, Dwindles
  PROVE  WorkLeft' < WorkLeft
<1>1. /\ IsFiniteSet(ToBegin) /\ IsFiniteSet(ToDecide) /\ IsFiniteSet(ToSettle)
      /\ IsFiniteSet(ToCollect) /\ IsFiniteSet(ToCancel) /\ IsFiniteSet(ToFold)
      /\ IsFiniteSet(PhasesLeft)
  BY WorkIsFinite
<1> DEFINE Less(T, S) ==
             /\ Cardinality(S) \in Nat /\ Cardinality(T) \in Nat
             /\ Cardinality(T) <= Cardinality(S)
             /\ T # S => Cardinality(T) < Cardinality(S)
<1>2. Less(ToBegin', ToBegin)
  BY <1>1, SmallerSet DEF Dwindles, NothingComesBack
<1>3. Less(ToDecide', ToDecide)
  BY <1>1, SmallerSet DEF Dwindles, NothingComesBack
<1>4. Less(ToSettle', ToSettle)
  BY <1>1, SmallerSet DEF Dwindles, NothingComesBack
<1>5. Less(ToCollect', ToCollect)
  BY <1>1, SmallerSet DEF Dwindles, NothingComesBack
<1>6. Less(ToCancel', ToCancel)
  BY <1>1, SmallerSet DEF Dwindles, NothingComesBack
<1>7. Less(ToFold', ToFold)
  BY <1>1, SmallerSet DEF Dwindles, NothingComesBack
<1>8. Less(PhasesLeft', PhasesLeft)
  BY <1>1, SmallerSet DEF Dwindles, NothingComesBack
<1> QED
  BY <1>2, <1>3, <1>4, <1>5, <1>6, <1>7, <1>8 DEF Dwindles, SomethingIsDone, WorkLeft

(* No schedule brings a run to a stop: until it has returned or raised, the*)
(* calling thread can go on, a step body can end or a worker is free for a *)
(* job that waits, whatever max_concurrency is and whatever was cancelled. *)
THEOREM NeverStuck == Spec => []EndedOrCanMove
  BY SomeThreadCanMove, InductiveInvariant, PTL

(* A run takes at most 6 N + 3 steps, because each of them leaves less to  *)
(* do: no future is taken twice, none handed over twice and no unit opened *)
(* again.                                                                  *)
THEOREM RunsAreBounded == Spec => []WorkIsBounded /\ WorkRunsOut
<1>1. IInv => WorkIsBounded
  <2> SUFFICES ASSUME TypeOK PROVE WorkIsBounded
    BY DEF IInv
  <2>1. /\ Cardinality(ToBegin) \in 0..N /\ Cardinality(ToDecide) \in 0..N
        /\ Cardinality(ToSettle) \in 0..N /\ Cardinality(ToCollect) \in 0..N
        /\ Cardinality(ToCancel) \in 0..N /\ Cardinality(ToFold) \in 0..N
        /\ Cardinality(PhasesLeft) \in 0..3
    BY WorkIsFinite
  <2> QED
    BY <2>1, NAssumption DEF WorkIsBounded, WorkLeft
<1>2. Init => CancelsOnceStopped
  BY DEF Init, CancelsOnceStopped
<1>3. IInv /\ CancelsOnceStopped /\ [Next]_vars => [WorkLeft' < WorkLeft]_vars
  BY StepDwindles, DwindlingUsesWork DEF IInv
<1> QED
  BY <1>1, <1>2, <1>3, NextStepKeepsCancels, InductiveInvariant, PTL DEF Spec, WorkRunsOut

---------------------------------------------------------------------------
(* The engine implements the atomic run.                                   *)

LEMMA RunInitMapped == Init => Run!RunInit
  BY DEF Init, Run!RunInit, Status, Run!WellFormed, WellFormed, Run!Steps, Steps

LEMMA StaticsMapped ==
  /\ Run!Steps = Steps
  /\ \A gs : Run!WellFormed(gs) <=> WellFormed(gs)
  /\ \A gs : Run!Accepted(gs) <=> Accepted(gs)
  /\ \A gs, s : Run!UnitFrom(gs, s) = UnitFrom(gs, s)
  /\ \A r, c, s : Run!Stops(r, c, s) <=> Stops(r, c, s)
  /\ \A d, s : Run!Opens(d, s) <=> Opens(d, s)
  /\ Run!Successes \cup Run!Failures = Outcomes
<1>1. Run!Steps = Steps
  BY DEF Run!Steps, Steps
<1>2. \A g : Run!NamedIn(g) = NamedIn(g)
  BY DEF Run!NamedIn, NamedIn
<1>3. \A gs, s : Run!GroupOf(gs, s) = GroupOf(gs, s)
  BY <1>2 DEF Run!GroupOf, GroupOf
<1>4. \A gs, i, j : Run!SameGroup(gs, i, j) <=> SameGroup(gs, i, j)
  BY <1>3 DEF Run!SameGroup, SameGroup
<1>5. \A gs, s : Run!UnitFrom(gs, s) = UnitFrom(gs, s)
  BY <1>4 DEF Run!UnitFrom, UnitFrom
<1>6. \A gs : Run!WellFormed(gs) <=> WellFormed(gs)
  BY DEF Run!WellFormed, WellFormed
<1>7. \A gs : Run!Accepted(gs) <=> Accepted(gs)
  BY <1>1, <1>2 DEF Run!Accepted, Accepted, Run!KnownNames, KnownNames,
     Run!InDeclaredOrder, InDeclaredOrder, Run!Contiguous, Contiguous
<1>8. \A r, c, s : Run!Stops(r, c, s) <=> Stops(r, c, s)
  BY DEF Run!Stops, Stops, Run!Failures, Failures
<1>9. \A d, s : Run!Opens(d, s) <=> Opens(d, s)
  BY <1>1 DEF Run!Opens, Opens
<1>10. Run!Successes \cup Run!Failures = Outcomes
  BY DEF Run!Successes, Run!Failures, Outcomes, Successes, Failures
<1> QED
  BY <1>1, <1>5, <1>6, <1>7, <1>8, <1>9, <1>10

LEMMA FoldUnitMapped ==
  ASSUME IInv, FoldUnit
  PROVE  Run!SettleUnit(first)
<1> USE DEF IInv, FoldUnit, config
<1>1. first # 0 /\ stoppedAt = 0 /\ \A s \in Unit : s \in Steps
  BY CollectedUnitIsQuiet DEF UnitCollected
<1>2. /\ \A s \in Unit : results'[s] = out[s]
      /\ \A s \in Steps \ Unit : results'[s] = results[s]
      /\ results' \in [Steps -> {"none"} \cup Outcomes]
      /\ (\A s \in Unit : ~Stops(results', cont, s)) => \A s \in Unit : fut[s] = "finished"
  BY FoldedUnit
<1>3. stoppedAt' = 0 <=> \A s \in Unit : ~Stops(results', cont, s)
  <2>1. Unit \in SUBSET Steps
    BY <1>1
  <2> QED
    BY <2>1, FirstStoppingIsLeast
<1>4. Unit = UnitFrom(groups, first) /\ Opens(past, first)
  BY <1>1 DEF Unit, Shape
<1>5. \/ \E i \in Unit : Stops(results', cont, i)
      \/ \A i \in Unit : results'[i] # "none"
  BY <1>1, <1>2 DEF Records, Coherent
<1>6. Status = "running"
  BY DEF UnitCollected, Status
<1>7. Status' = IF \E i \in Unit : Stops(results', cont, i) THEN "failed" ELSE "running"
  BY <1>3 DEF Status
<1>8. past' = past \cup Unit /\ UNCHANGED <<groups, cont>>
  OBVIOUS
<1> HIDE DEF FoldUnit, IInv
<1>9. results' \in [Run!Steps -> {"none"} \cup Run!Successes \cup Run!Failures]
  <2>1. {"none"} \cup Run!Successes \cup Run!Failures = {"none"} \cup Outcomes
    BY StaticsMapped
  <2> QED
    BY <2>1, <1>2, StaticsMapped
<1>10. Run!UnitFrom(groups, first) = Unit /\ Run!Opens(past, first)
  BY <1>4, StaticsMapped
<1>11. \A i : Run!Stops(results', cont, i) <=> Stops(results', cont, i)
  BY StaticsMapped
<1>12. \A i \in Run!Steps \ Unit : results'[i] = results[i]
  BY <1>2, StaticsMapped
<1> QED
  BY <1>5, <1>6, <1>7, <1>8, <1>9, <1>10, <1>11, <1>12 DEF Run!SettleUnit

(* Each step of the threads is one step of the atomic run, or hidden in it.*)
LEMMA StepMapped == IInv /\ [Next]_vars => [Run!RunNext]_(Run!runVars)
<1> SUFFICES ASSUME IInv, [Next]_vars
             PROVE  Run!RunNext \/ UNCHANGED Run!runVars
  OBVIOUS
<1> USE DEF Run!runVars, config, unitVars, endVars
<1>1. CASE Start
  <2>1. Run!Accept
    BY <1>1, StaticsMapped DEF Start, Run!Accept, Status
  <2> QED
    BY <2>1 DEF Run!RunNext
<1>2. CASE \E s \in Steps : BeginUnit(s)
  BY <1>2 DEF BeginUnit, Status
<1>3. CASE \E s \in Steps : Collect(s)
  BY <1>3 DEF Collect, Status
<1>4. CASE \E s \in Steps : CancelNext(s)
  BY <1>4 DEF CancelNext, Status
<1>5. CASE UnitRaises
  <2>1. Run!Escape
    BY <1>5 DEF UnitRaises, UnitCollected, Run!Escape, Status
  <2> QED
    BY <2>1 DEF Run!RunNext
<1>6. CASE FoldUnit
  <2>1. Run!SettleUnit(first) /\ first \in Run!Steps
    BY <1>6, FoldUnitMapped, CollectedUnitIsQuiet, StaticsMapped, UnitFacts DEF IInv, FoldUnit
  <2> QED
    BY <2>1 DEF Run!RunNext
<1>7. CASE Complete
  <2>1. Run!Succeed
    BY <1>7, StaticsMapped DEF IInv, Shape, Complete, Run!Succeed, Status
  <2> QED
    BY <2>1 DEF Run!RunNext
<1>8. CASE Remember
  <2>1. CASE pc' = "raised"
    <3>1. Run!Escape
      BY <1>8, <2>1 DEF Remember, Run!Escape, Status
    <3> QED
      BY <3>1 DEF Run!RunNext
  <2>2. CASE pc' = "returned"
    BY <1>8, <2>2 DEF Remember, Status
  <2> QED
    BY <1>8, <2>1, <2>2 DEF Remember
<1>9. CASE \E s \in Steps : Worker(s)
  BY <1>9 DEF Worker, Dequeue, StepEnds, Status
<1>10. CASE Terminated \/ UNCHANGED vars
  BY <1>10 DEF Terminated, vars, Status
<1> QED
  BY <1>1, <1>2, <1>3, <1>4, <1>5, <1>6, <1>7, <1>8, <1>9, <1>10 DEF Next, MainStep

(* WorkflowEngine.run implements WorkflowRun: seen from outside, the units *)
(* of a workflow are settled one by one and each at once.                  *)
THEOREM EngineImplementsRun == Spec => RefinesRun
  BY RunInitMapped, StepMapped, InductiveInvariant, PTL
     DEF Spec, RefinesRun, Run!RunSpec

---------------------------------------------------------------------------
(* Events and records, of a run of its own and of one under an agent.      *)

(* What is ever published.                                                 *)
Said == EventNames \cup {"agent started", "agent completed", "agent failed"}

(* What an action adds to a run's events is what the bus is given.         *)
LEMMA AddedEvents ==
  ASSUME NEW S, NEW s \in Seq(S), NEW x \in S
  PROVE  /\ SubSeq(s, Len(s) + 1, Len(s)) = <<>>
         /\ SubSeq(Append(s, x), Len(s) + 1, Len(Append(s, x))) = <<x>>
<1>1. Len(s) \in Nat
  BY LenProperties
<1>2. /\ Append(s, x) \in Seq(S) /\ Len(Append(s, x)) = Len(s) + 1
      /\ Append(s, x)[Len(s) + 1] = x
  BY AppendProperties
<1>3. SubSeq(s, Len(s) + 1, Len(s)) = <<>>
  BY <1>1, SubSeqEmpty
<1>4. SubSeq(Append(s, x), Len(s) + 1, Len(s) + 1)
        = <<Append(s, x)[Len(s) + 1]>> \o SubSeq(Append(s, x), Len(s) + 2, Len(s) + 1)
  <2>1. Len(s) + 1 \in 1..Len(Append(s, x)) /\ Len(s) + 1 \in (Len(s) + 1)..Len(Append(s, x))
        /\ (Len(s) + 1) + 1 = Len(s) + 2
    BY <1>1, <1>2
  <2>2. SubSeq(Append(s, x), Len(s) + 1, Len(s) + 1)
          = <<Append(s, x)[Len(s) + 1]>> \o SubSeq(Append(s, x), (Len(s) + 1) + 1, Len(s) + 1)
    BY <1>2, <2>1, SubSeqRecursiveFirst
  <2> QED
    BY <2>1, <2>2
<1>5. SubSeq(Append(s, x), Len(s) + 2, Len(s) + 1) = <<>>
  BY <1>1, SubSeqEmpty
<1>6. <<x>> \o <<>> = <<x>>
  BY ConcatEmptySeq
<1> QED
  BY <1>2, <1>3, <1>4, <1>5, <1>6

(* The sequences of up to four events that a listener hears.               *)
LEMMA SameSequence ==
  ASSUME NEW S, NEW s \in Seq(S), NEW t \in Seq(S), Len(s) = Len(t), Len(s) \in 1..4,
         \A i \in 1..4 : i <= Len(s) => s[i] = t[i]
  PROVE  s = t
<1>1. \A i \in 1..Len(s) : s[i] = t[i]
  OBVIOUS
<1> QED
  BY <1>1, SeqEqual

LEMMA TupleFacts ==
  ASSUME NEW a, NEW b, NEW c, NEW d, NEW t
  PROVE  LET S == {a, b, c, d} IN
         /\ t = <<a>> => t \in Seq(S) /\ Len(t) = 1 /\ t[1] = a
         /\ t = <<a, b>> => t \in Seq(S) /\ Len(t) = 2 /\ t[1] = a /\ t[2] = b
         /\ t = <<a, b, c>> =>
              t \in Seq(S) /\ Len(t) = 3 /\ t[1] = a /\ t[2] = b /\ t[3] = c
         /\ t = <<a, b, c, d>> =>
              t \in Seq(S) /\ Len(t) = 4 /\ t[1] = a /\ t[2] = b /\ t[3] = c /\ t[4] = d
<1>1. t = <<a>> => t \in Seq({a, b, c, d}) /\ Len(t) = 1 /\ t[1] = a
  OBVIOUS
<1>2. t = <<a, b>> => t \in Seq({a, b, c, d}) /\ Len(t) = 2 /\ t[1] = a /\ t[2] = b
  OBVIOUS
<1>3. t = <<a, b, c>> =>
        t \in Seq({a, b, c, d}) /\ Len(t) = 3 /\ t[1] = a /\ t[2] = b /\ t[3] = c
  OBVIOUS
<1>4. t = <<a, b, c, d>> =>
        t \in Seq({a, b, c, d}) /\ Len(t) = 4 /\ t[1] = a /\ t[2] = b /\ t[3] = c /\ t[4] = d
  OBVIOUS
<1> QED
  BY <1>1, <1>2, <1>3, <1>4, Zenon

LEMMA ShortTupleFacts ==
  ASSUME NEW a, NEW b, NEW c, NEW t
  PROVE  LET S == {a, b, c} IN
         /\ t = <<a>> => t \in Seq(S) /\ Len(t) = 1 /\ t[1] = a
         /\ t = <<a, b>> => t \in Seq(S) /\ Len(t) = 2 /\ t[1] = a /\ t[2] = b
         /\ t = <<a, b, c>> =>
              t \in Seq(S) /\ Len(t) = 3 /\ t[1] = a /\ t[2] = b /\ t[3] = c
<1>1. t = <<a>> => t \in Seq({a, b, c}) /\ Len(t) = 1 /\ t[1] = a
  OBVIOUS
<1>2. t = <<a, b>> => t \in Seq({a, b, c}) /\ Len(t) = 2 /\ t[1] = a /\ t[2] = b
  OBVIOUS
<1>3. t = <<a, b, c>> =>
        t \in Seq({a, b, c}) /\ Len(t) = 3 /\ t[1] = a /\ t[2] = b /\ t[3] = c
  OBVIOUS
<1> QED
  BY <1>1, <1>2, <1>3, Zenon

LEMMA Appended ==
  ASSUME NEW a, NEW b, NEW c
  PROVE  /\ Append(<<>>, a) = <<a>>
         /\ Append(<<a>>, b) = <<a, b>>
         /\ Append(<<a, b>>, c) = <<a, b, c>>
<1>0. PICK S : S = {a, b, c}
  OBVIOUS
<1>1. PICK t1, t2, t3 : t1 = <<a>> /\ t2 = <<a, b>> /\ t3 = <<a, b, c>>
  OBVIOUS
<1>2. /\ t1 \in Seq(S) /\ Len(t1) = 1 /\ t1[1] = a
      /\ t2 \in Seq(S) /\ Len(t2) = 2 /\ t2[1] = a /\ t2[2] = b
      /\ t3 \in Seq(S) /\ Len(t3) = 3 /\ t3[1] = a /\ t3[2] = b /\ t3[3] = c
      /\ b \in S /\ c \in S
  BY <1>0, <1>1, ShortTupleFacts
<1>3. Append(<<>>, a) = t1
  BY <1>1
<1>4. Append(t1, b) = t2
  <2>1. /\ Append(t1, b) \in Seq(S) /\ Len(Append(t1, b)) = 2
        /\ Append(t1, b)[1] = a /\ Append(t1, b)[2] = b
    <3>0. t1 \in Seq(S) /\ b \in S
      BY <1>2
    <3>1. /\ Append(t1, b) \in Seq(S) /\ Len(Append(t1, b)) = Len(t1) + 1
          /\ \A i \in 1..Len(t1) : Append(t1, b)[i] = t1[i]
          /\ Append(t1, b)[Len(t1) + 1] = b
      BY <3>0, AppendProperties
    <3> QED
      BY <1>2, <3>1
  <2> QED
    BY <1>2, <2>1, SameSequence
<1>5. Append(t2, c) = t3
  <2>1. /\ Append(t2, c) \in Seq(S) /\ Len(Append(t2, c)) = 3
        /\ Append(t2, c)[1] = a /\ Append(t2, c)[2] = b /\ Append(t2, c)[3] = c
    <3>0. t2 \in Seq(S) /\ c \in S
      BY <1>2
    <3>1. /\ Append(t2, c) \in Seq(S) /\ Len(Append(t2, c)) = Len(t2) + 1
          /\ \A i \in 1..Len(t2) : Append(t2, c)[i] = t2[i]
          /\ Append(t2, c)[Len(t2) + 1] = c
      BY <3>0, AppendProperties
    <3> QED
      BY <1>2, <3>1
  <2> QED
    BY <1>2, <2>1, SameSequence
<1> QED
  BY <1>1, <1>3, <1>4, <1>5, Zenon

LEMMA AppendedToThree ==
  ASSUME NEW a, NEW b, NEW c, NEW d
  PROVE  Append(<<a, b, c>>, d) = <<a, b, c, d>>
<1>0. PICK S : S = {a, b, c, d}
  OBVIOUS
<1>1. PICK t3, t4 : t3 = <<a, b, c>> /\ t4 = <<a, b, c, d>>
  OBVIOUS
<1>2. /\ t3 \in Seq(S) /\ Len(t3) = 3 /\ t3[1] = a /\ t3[2] = b /\ t3[3] = c
      /\ t4 \in Seq(S) /\ Len(t4) = 4 /\ t4[1] = a /\ t4[2] = b /\ t4[3] = c /\ t4[4] = d
      /\ d \in S
  BY <1>0, <1>1, TupleFacts
<1>3. Append(t3, d) = t4
  <2>1. /\ Append(t3, d) \in Seq(S) /\ Len(Append(t3, d)) = 4
        /\ Append(t3, d)[1] = a /\ Append(t3, d)[2] = b /\ Append(t3, d)[3] = c
        /\ Append(t3, d)[4] = d
    <3>0. t3 \in Seq(S) /\ d \in S
      BY <1>2
    <3>1. /\ Append(t3, d) \in Seq(S) /\ Len(Append(t3, d)) = Len(t3) + 1
          /\ \A i \in 1..Len(t3) : Append(t3, d)[i] = t3[i]
          /\ Append(t3, d)[Len(t3) + 1] = d
      BY <3>0, AppendProperties
    <3> QED
      BY <1>2, <3>1
  <2> QED
    BY <1>2, <2>1, SameSequence
<1> QED
  BY <1>1, <1>3, Zenon

(* Told(outcome) is built up one event at a time.                          *)
LEMMA Beginnings ==
  ASSUME NEW a, NEW b, NEW c, NEW d
  PROVE  /\ SubSeq(<<a, b, c, d>>, 1, 0) = <<>>
         /\ SubSeq(<<a, b, c, d>>, 1, 1) = <<a>>
         /\ SubSeq(<<a, b, c, d>>, 1, 2) = <<a, b>>
         /\ SubSeq(<<a, b, c, d>>, 1, 3) = <<a, b, c>>
         /\ SubSeq(<<a, b, c, d>>, 1, 4) = <<a, b, c, d>>
<1>0. PICK S : S = {a, b, c, d}
  OBVIOUS
<1>1. PICK t1, t2, t3, s : t1 = <<a>> /\ t2 = <<a, b>> /\ t3 = <<a, b, c>> /\ s = <<a, b, c, d>>
  OBVIOUS
<1>2. /\ t1 \in Seq(S) /\ Len(t1) = 1 /\ t1[1] = a
      /\ t2 \in Seq(S) /\ Len(t2) = 2 /\ t2[1] = a /\ t2[2] = b
      /\ t3 \in Seq(S) /\ Len(t3) = 3 /\ t3[1] = a /\ t3[2] = b /\ t3[3] = c
      /\ s \in Seq(S) /\ Len(s) = 4 /\ s[1] = a /\ s[2] = b /\ s[3] = c /\ s[4] = d
      /\ a \in S /\ b \in S /\ c \in S /\ d \in S
  BY <1>0, <1>1, TupleFacts
<1>4. SubSeq(s, 1, 0) = <<>>
  BY SubSeqEmpty
<1>5. ASSUME NEW n \in 1..4
      PROVE  /\ SubSeq(s, 1, n) \in Seq(S) /\ Len(SubSeq(s, 1, n)) = n
             /\ \A i \in 1..n : SubSeq(s, 1, n)[i] = s[i]
  <2>1. \A i \in 1..n : s[i] \in S
    BY <1>2
  <2>2. /\ SubSeq(s, 1, n) \in Seq(S)
        /\ Len(SubSeq(s, 1, n)) = IF 1 <= n THEN n - 1 + 1 ELSE 0
        /\ \A i \in 1..(n - 1 + 1) : SubSeq(s, 1, n)[i] = s[1 + i - 1]
    BY <2>1, SubSeqProperties
  <2>3. n - 1 + 1 = n /\ 1 <= n /\ \A i \in 1..n : 1 + i - 1 = i
    OBVIOUS
  <2> QED
    BY <2>2, <2>3
<1>6. SubSeq(s, 1, 1) = t1
  BY <1>2, <1>5, SameSequence
<1>7. SubSeq(s, 1, 2) = t2
  BY <1>2, <1>5, SameSequence
<1>8. SubSeq(s, 1, 3) = t3
  BY <1>2, <1>5, SameSequence
<1>9. SubSeq(s, 1, 4) = s
  BY <1>2, SubSeqFull
<1> QED
  BY <1>1, <1>4, <1>6, <1>7, <1>8, <1>9, Zenon

LEMMA Joined ==
  ASSUME NEW a, NEW b, NEW c
  PROVE  /\ <<a>> \o <<>> = <<a>>
         /\ <<a>> \o <<b>> = <<a, b>>
         /\ <<a>> \o <<b, c>> = <<a, b, c>>
<1>0. PICK S : S = {a, b, c}
  OBVIOUS
<1>1. PICK t1, t2, u1, v1, u2 :
        t1 = <<a>> /\ t2 = <<a, b>> /\ u1 = <<b>> /\ v1 = <<c>> /\ u2 = <<b, c>>
  OBVIOUS
<1>2. /\ t1 \in Seq(S) /\ t2 \in Seq(S) /\ u1 \in Seq(S) /\ v1 \in Seq(S) /\ u2 \in Seq(S)
      /\ a \in S /\ b \in S /\ c \in S
  BY <1>0, <1>1
<1>3. t1 \o u1 = t2
  <2>1. Append(t1, b) = t1 \o u1
    BY <1>1, <1>2, AppendIsConcat, Zenon
  <2>2. Append(t1, b) = t2
    BY <1>1, Appended, Zenon
  <2> QED
    BY <2>1, <2>2
<1>4. u2 = u1 \o v1
  <2>1. Append(u1, c) = u1 \o v1
    BY <1>1, <1>2, AppendIsConcat, Zenon
  <2>2. Append(u1, c) = u2
    BY <1>1, Appended, Zenon
  <2> QED
    BY <2>1, <2>2
<1>5. t2 \o v1 = <<a, b, c>>
  <2>1. Append(t2, c) = t2 \o v1
    BY <1>1, <1>2, AppendIsConcat, Zenon
  <2>2. Append(t2, c) = <<a, b, c>>
    BY <1>1, Appended, Zenon
  <2> QED
    BY <2>1, <2>2, Zenon
<1>6. t1 \o u2 = <<a, b, c>>
  <2>1. (t1 \o u1) \o v1 = t1 \o (u1 \o v1)
    BY <1>2, ConcatAssociative
  <2> QED
    BY <1>3, <1>4, <1>5, <2>1, Zenon
<1>7. <<a>> \o <<>> = <<a>>
  OBVIOUS
<1> QED
  BY <1>1, <1>3, <1>6, <1>7, Zenon

-----------------------------------------------------------------------------
(* What run() has published wherever its caller is.                        *)
Outcome == IF stoppedAt = 0 THEN "completed" ELSE "failed"

EngineTells ==
  /\ pc \in {"new", "rejected"} => events = <<>>
  /\ pc \in {"units", "group"} => events = <<"started">>
  /\ pc \in {"remember", "returned"} => events = <<"started", Outcome>>
  /\ pc = "raised" =>
       IF first # 0 THEN raised # {} /\ waiting = {} /\ events = <<"started">>
       ELSE memory /\ blankId /\ events = <<"started", Outcome>>

LEMMA EngineTellsNext ==
  ASSUME IInv, EngineTells, [Next]_vars
  PROVE  EngineTells'
<1>1. ASSUME UNCHANGED <<pc, events, stoppedAt, memory, blankId>>,
             pc = "raised" => UNCHANGED <<first, raised, waiting>>
      PROVE  EngineTells'
  <2>1. Outcome' = Outcome
    BY <1>1 DEF Outcome
  <2>2. CASE pc = "raised"
    BY <1>1, <2>1, <2>2, Zenon DEF EngineTells
  <2>3. CASE pc # "raised"
    BY <1>1, <2>1, <2>3, Zenon DEF EngineTells
  <2> QED
    BY <2>2, <2>3
<1>2. CASE Start
  <2>1. Append(<<>>, "started") = <<"started">>
    BY Appended, Zenon
  <2>2. events = <<>>
    BY <1>2 DEF Start, EngineTells
  <2>3. \/ pc' = "units" /\ events' = <<"started">>
        \/ pc' = "rejected" /\ events' = <<>>
    BY <1>2, <2>1, <2>2 DEF Start
  <2> QED
    BY <2>3 DEF EngineTells
<1>3. CASE \E s \in Steps : BeginUnit(s)
  <2>1. pc = "units" /\ pc' = "group" /\ UNCHANGED events
    BY <1>3 DEF BeginUnit, endVars
  <2> QED
    BY <2>1 DEF EngineTells
<1>4. CASE \E s \in Steps : Collect(s) \/ CancelNext(s) \/ Worker(s)
  <2>1. /\ UNCHANGED <<pc, events, stoppedAt, memory, blankId>>
        /\ pc = "group" \/ UNCHANGED <<first, raised, waiting>>
    BY <1>4 DEF Collect, CancelNext, Worker, Dequeue, StepEnds, config, endVars
  <2> QED
    BY <1>1, <2>1
<1>5. CASE UnitRaises
  <2>1. /\ pc = "group" /\ pc' = "raised" /\ UNCHANGED <<events, first, raised, waiting>>
        /\ raised # {} /\ waiting = {} /\ first # 0
    BY <1>5 DEF UnitRaises, UnitCollected, endVars, unitVars, IInv, Shape
  <2> QED
    BY <2>1 DEF EngineTells
<1>6. CASE FoldUnit
  <2>1. pc = "group" /\ events = <<"started">>
    BY <1>6 DEF FoldUnit, UnitCollected, EngineTells
  <2>2. Append(<<"started">>, "failed") = <<"started", "failed">>
    BY Appended, Zenon
  <2>3. \/ pc' = "remember" /\ stoppedAt' # 0 /\ events' = <<"started", "failed">>
        \/ pc' = "units" /\ events' = <<"started">>
    BY <1>6, <2>1, <2>2 DEF FoldUnit
  <2> QED
    BY <2>3, Zenon DEF EngineTells, Outcome
<1>7. CASE Complete
  <2>1. pc = "units" /\ events = <<"started">> /\ stoppedAt' = 0
    BY <1>7 DEF Complete, EngineTells, IInv, Shape
  <2>2. Append(<<"started">>, "completed") = <<"started", "completed">>
    BY Appended, Zenon
  <2>3. pc' = "remember" /\ events' = <<"started", "completed">>
    BY <1>7, <2>1, <2>2 DEF Complete
  <2> QED
    BY <2>1, <2>3 DEF EngineTells, Outcome
<1>8. CASE Remember
  <2>1. /\ pc = "remember" /\ UNCHANGED <<events, stoppedAt, memory, blankId>>
        /\ (pc' = "raised" /\ memory /\ blankId) \/ pc' = "returned"
        /\ first' = 0
    BY <1>8 DEF Remember, config, unitVars, IInv, Shape
  <2>2. Outcome' = Outcome
    BY <2>1 DEF Outcome
  <2>3. events' = <<"started", Outcome>>
    BY <2>1 DEF EngineTells
  <2>4. memory' = memory /\ blankId' = blankId
    BY <2>1
  <2> QED
    BY <2>1, <2>2, <2>3, <2>4 DEF EngineTells
<1>9. CASE Terminated \/ UNCHANGED vars
  <2>1. UNCHANGED <<pc, events, stoppedAt, memory, blankId, first, raised, waiting>>
    BY <1>9 DEF Terminated, vars, config, endVars, unitVars
  <2> QED
    BY <1>1, <2>1
<1> QED
  BY <1>2, <1>3, <1>4, <1>5, <1>6, <1>7, <1>8, <1>9 DEF Next, MainStep

LEMMA EngineAlwaysTells == Spec => []EngineTells
<1>1. Init => EngineTells
  BY DEF Init, EngineTells
<1>2. IInv /\ EngineTells /\ [Next]_vars => EngineTells'
  BY EngineTellsNext
<1> QED
  BY <1>1, <1>2, InductiveInvariant, PTL DEF Spec

(* A run that raised has its reason: a step whose exception was collected, *)
(* or the record that _remember refused.                                   *)
LEMMA WhyItRaised ==
  ASSUME IInv, EngineTells, pc \in {"returned", "raised"}
  PROVE  (\E s \in Steps : out[s] = "raise") <=> first # 0
<1>1. CASE first # 0
  <2>1. pc = "raised" /\ raised # {} /\ waiting = {}
    BY <1>1 DEF IInv, Shape, EngineTells
  <2>2. PICK s \in raised : TRUE
    BY <2>1
  <2>3. s \in Unit /\ s \in Steps
    BY <1>1 DEF IInv, Collected, TypeOK
  <2>4. out[s] = "raise"
    BY <1>1, <2>1, <2>3 DEF IInv, Collected
  <2> QED
    BY <1>1, <2>3, <2>4
<1>2. CASE first = 0
  <2>1. Unit = {}
    BY <1>2 DEF Unit
  <2>2. \A s \in Steps : out[s] # "raise"
    BY <2>1 DEF IInv, Records, Fresh
  <2> QED
    BY <1>2, <2>2
<1> QED
  BY <1>1, <1>2

(* What a run that ended has published: nothing if it was refused, its     *)
(* start alone if a step raised, and in every other case its start and its *)
(* own outcome, the record that _remember refused included.                *)
THEOREM EventsAreItsOutcome == Spec => []EventsMatchOutcome
<1>1. IInv /\ EngineTells => EventsMatchOutcome
  <2> SUFFICES ASSUME IInv, EngineTells PROVE EventsMatchOutcome
    OBVIOUS
  <2>1. pc = "rejected" => events = <<>>
    BY DEF EngineTells
  <2>2. ASSUME pc \in {"returned", "raised"}, first # 0
        PROVE  pc = "raised" /\ events = <<"started">>
    BY <2>2 DEF EngineTells, IInv, Shape
  <2>3. ASSUME pc \in {"returned", "raised"}, first = 0
        PROVE  /\ events = <<"started", Outcome>>
               /\ pc = "raised" => memory /\ blankId
    BY <2>3 DEF EngineTells
  <2>4. pc \in {"returned", "raised"} =>
          ((\E s \in Steps : out[s] = "raise") <=> first # 0)
    BY WhyItRaised
  <2> QED
    BY <2>1, <2>2, <2>3, <2>4, Zenon DEF EventsMatchOutcome, Outcome
<1> QED
  BY <1>1, EngineAlwaysTells, InductiveInvariant, PTL

-----------------------------------------------------------------------------
(* A run under an agent, or a direct one, is a run of the workflow engine. *)
LEMMA AgentStepIsEngineStep == [AgentNext]_allVars => [Next]_vars
<1> SUFFICES ASSUME [AgentNext]_allVars PROVE [Next]_vars
  OBVIOUS
<1>1. CASE AgentStep
  BY <1>1 DEF AgentStep, AgentStarts, AgentEnds, AgentRemembers
<1>2. CASE Engine(MainStep)
  BY <1>2 DEF Engine, Next
<1>3. CASE \E s \in Steps : Engine(Worker(s))
  <2>1. \E s \in Steps : Worker(s)
    BY <1>3 DEF Engine
  <2> QED
    BY <2>1 DEF Next
<1>4. CASE UNCHANGED allVars
  BY <1>4 DEF allVars
<1> QED
  BY <1>1, <1>2, <1>3, <1>4 DEF AgentNext

THEOREM AgentRunsTheEngine == AgentSpec => Spec
<1>1. AgentInit => Init
  BY DEF AgentInit
<1> QED
  BY <1>1, AgentStepIsEngineStep, PTL DEF AgentSpec, Spec

-----------------------------------------------------------------------------
(* What a listener has heard of an agent wherever execute() is.            *)
Heard == <<"agent started">> \o events

AgentTells ==
  /\ viaAgent \in BOOLEAN
  /\ viaAgent <=> agentPc # "direct"
  /\ agentPc \in {"direct", "new", "running", "remember", "returned", "raised"}
  /\ viaAgent => ~blankId
  /\ agentStored => agentPc = "returned"
  /\ agentPc = "new" => pc = "new" /\ trace = <<>>
  /\ agentPc = "running" => trace = Heard
  /\ agentPc \in {"remember", "returned"} => pc = "returned" /\ trace = Told(Outcome)
  /\ agentPc = "raised" =>
       \/ pc \in {"rejected", "raised"} /\ trace = Heard
       \/ pc = "returned" /\ memory /\ blankAgent /\ trace = Told(Outcome)

(* An action of run() publishes what it adds to its own events.            *)
LEMMA Published ==
  ASSUME IInv, [Next]_vars
  PROVE  events' = events \o SubSeq(events', Len(events) + 1, Len(events'))
<1>1. events \in Seq(EventNames)
  BY DEF IInv, TypeOK
<1>2. CASE events' = events
  <2>1. SubSeq(events, Len(events) + 1, Len(events)) = <<>>
    BY <1>1, LenProperties, SubSeqEmpty
  <2>2. events \o <<>> = events
    BY <1>1, ConcatEmptySeq
  <2> QED
    BY <1>2, <2>1, <2>2
<1>3. ASSUME NEW x \in EventNames, events' = Append(events, x)
      PROVE  events' = events \o SubSeq(events', Len(events) + 1, Len(events'))
  <2>1. SubSeq(events', Len(events) + 1, Len(events')) = <<x>>
    BY <1>1, <1>3, AddedEvents
  <2>2. events' = events \o <<x>>
    BY <1>1, <1>3, AppendIsConcat
  <2> QED
    BY <2>1, <2>2
<1>4. events' = events \/ \E x \in EventNames : events' = Append(events, x)
  <2>1. /\ "started" \in EventNames /\ "failed" \in EventNames /\ "completed" \in EventNames
    BY DEF EventNames
  <2>2. CASE Start \/ FoldUnit \/ Complete
    BY <2>1, <2>2 DEF Start, FoldUnit, Complete
  <2>3. CASE (\E s \in Steps : BeginUnit(s) \/ Collect(s) \/ CancelNext(s) \/ Worker(s))
             \/ UnitRaises \/ Remember \/ Terminated \/ UNCHANGED vars
    BY <2>3 DEF BeginUnit, Collect, CancelNext, Worker, Dequeue, StepEnds, UnitRaises, Remember,
                Terminated, vars, endVars
  <2> QED
    BY <2>2, <2>3 DEF Next, MainStep
<1> QED
  BY <1>2, <1>3, <1>4

LEMMA EngineKeepsAgentTells ==
  ASSUME IInv, EngineTells, AgentTells, [Next]_vars,
         agentPc \in {"direct", "running"}, UNCHANGED agentVars,
         trace' = trace \o SubSeq(events', Len(events) + 1, Len(events'))
  PROVE  AgentTells'
<1>1. events' = events \o SubSeq(events', Len(events) + 1, Len(events'))
  BY Published
<1>2. /\ agentPc' = agentPc /\ viaAgent' = viaAgent /\ blankAgent' = blankAgent
      /\ agentStored' = agentStored
  BY DEF agentVars
<1>3. blankId' = blankId
  BY DEF Next, MainStep, Start, BeginUnit, Collect, CancelNext, UnitRaises, FoldUnit, Complete,
         Remember, Worker, Dequeue, StepEnds, Terminated, vars, config
<1>4. agentPc = "running" => trace' = Heard'
  <2> SUFFICES ASSUME agentPc = "running" PROVE trace' = Heard'
    OBVIOUS
  <2> DEFINE more == SubSeq(events', Len(events) + 1, Len(events'))
  <2>1. trace = Heard
    BY DEF AgentTells
  <2>2. events \in Seq(EventNames) /\ IInv'
    BY NextStepKeepsIInv DEF IInv, TypeOK
  <2>3. events' \in Seq(EventNames)
    BY <2>2 DEF IInv, TypeOK
  <2>4. events \in Seq(Said) /\ more \in Seq(Said) /\ <<"agent started">> \in Seq(Said)
    <3>1. EventNames \subseteq Said /\ "agent started" \in Said
      BY DEF Said
    <3> HIDE DEF Said
    <3>2. events \in Seq(Said) /\ events' \in Seq(Said)
      BY <2>2, <2>3, <3>1, SeqMonotonic, Zenon
    <3>3. Len(events) \in Nat /\ Len(events') \in Nat /\ \A i \in 1..Len(events') : events'[i] \in Said
      BY <3>2, LenProperties, ElementOfSeq
    <3>4. \A i \in (Len(events) + 1)..Len(events') : events'[i] \in Said
      BY <3>3
    <3>5. Len(events) + 1 \in Int /\ Len(events') \in Int
      BY <3>3
    <3>6. more \in Seq(Said)
      BY <3>4, <3>5, SubSeqProperties
    <3>7. <<"agent started">> \in Seq(Said)
      <4>1. Append(<<>>, "agent started") = <<"agent started">>
        BY Appended, Zenon
      <4>2. Append(<<>>, "agent started") \in Seq(Said)
        BY <3>1, EmptySeq, AppendProperties
      <4> QED
        BY <4>1, <4>2
    <3> QED
      BY <3>2, <3>6, <3>7
  <2> HIDE DEF more
  <2>5. (<<"agent started">> \o events) \o more = <<"agent started">> \o (events \o more)
    <3>1. PICK h : h = <<"agent started">>
      OBVIOUS
    <3>2. PICK m : m = more
      OBVIOUS
    <3>3. h \in Seq(Said) /\ events \in Seq(Said) /\ m \in Seq(Said)
      BY <2>4, <3>1, <3>2, Zenon
    <3>4. (h \o events) \o m = h \o (events \o m)
      BY <3>3, ConcatAssociative
    <3> QED
      BY <3>1, <3>2, <3>4, Zenon
  <2> QED
    BY <1>1, <2>1, <2>5 DEF Heard, more
<1> QED
  BY <1>2, <1>3, <1>4 DEF AgentTells

LEMMA AgentKeepsAgentTells ==
  ASSUME IInv, EngineTells, AgentTells, AgentStep
  PROVE  AgentTells'
<1>0. /\ UNCHANGED <<vars, viaAgent, blankAgent>>
      /\ pc' = pc /\ events' = events /\ stoppedAt' = stoppedAt
      /\ memory' = memory /\ blankId' = blankId
  BY DEF AgentStep, AgentStarts, AgentEnds, AgentRemembers, vars, config, endVars
<1>1. Heard' = Heard /\ Outcome' = Outcome /\ Told(Outcome)' = Told(Outcome)
  BY <1>0 DEF Heard, Outcome, Told
<1>2. CASE AgentStarts
  <2>1. events = <<>> /\ trace = <<>>
    BY <1>2 DEF AgentStarts, AgentTells, EngineTells
  <2>2. Append(<<>>, "agent started") = <<"agent started">> \o <<>>
    BY Appended, Joined, Zenon
  <2>3. trace' = Heard
    BY <1>2, <2>1, <2>2 DEF AgentStarts, Heard
  <2>4. agentPc = "new" /\ agentPc' = "running" /\ agentStored' = agentStored
    BY <1>2 DEF AgentStarts
  <2>5. viaAgent /\ viaAgent' = viaAgent /\ ~blankId' /\ ~agentStored'
    BY <1>0, <2>4 DEF AgentTells
  <2> QED
    BY <1>1, <2>3, <2>4, <2>5 DEF AgentTells
<1>3. CASE AgentEnds /\ pc = "returned"
  <2>1. agentPc = "running" /\ agentPc' = "remember" /\ trace = Heard /\ agentStored' = agentStored
        /\ trace' = Append(trace, IF stoppedAt = 0 THEN "agent completed" ELSE "agent failed")
    BY <1>3 DEF AgentEnds, AgentTells
  <2>2. events = <<"started", Outcome>>
    BY <1>3 DEF EngineTells
  <2>3. <<"agent started">> \o <<"started", Outcome>> = <<"agent started", "started", Outcome>>
    BY Joined, Zenon
  <2>4. ASSUME NEW o, NEW d
        PROVE  Append(<<"agent started", "started", o>>, d) = <<"agent started", "started", o, d>>
    BY AppendedToThree, Zenon
  <2>5. Told(Outcome) = <<"agent started", "started", Outcome,
                          IF stoppedAt = 0 THEN "agent completed" ELSE "agent failed">>
    BY DEF Told, Outcome
  <2>6. trace' = Told(Outcome)
    BY <2>1, <2>2, <2>3, <2>4, <2>5, Zenon DEF Heard
  <2> QED
    BY <1>0, <1>1, <1>3, <2>1, <2>6 DEF AgentTells
<1>4. CASE AgentEnds /\ pc # "returned"
  <2>1. /\ agentPc = "running" /\ agentPc' = "raised" /\ trace = Heard /\ trace' = trace
        /\ agentStored' = agentStored /\ pc \in {"rejected", "raised"}
    BY <1>4 DEF AgentEnds, AgentTells, Ended
  <2> QED
    BY <1>0, <1>1, <2>1 DEF AgentTells
<1>5. CASE AgentRemembers
  <2>1. /\ agentPc = "remember" /\ trace' = trace /\ pc = "returned" /\ trace = Told(Outcome)
        /\ (\/ agentPc' = "raised" /\ memory /\ blankAgent /\ agentStored' = agentStored
            \/ agentPc' = "returned")
    BY <1>5 DEF AgentRemembers, AgentTells
  <2> QED
    BY <1>0, <1>1, <2>1 DEF AgentTells
<1> QED
  BY <1>2, <1>3, <1>4, <1>5 DEF AgentStep

LEMMA AgentAlwaysTells == AgentSpec => [](IInv /\ EngineTells /\ AgentTells)
<1>1. AgentInit => AgentTells
  BY DEF AgentInit, Init, AgentTells
<1>2. IInv /\ EngineTells /\ AgentTells /\ [AgentNext]_allVars => AgentTells'
  <2> SUFFICES ASSUME IInv, EngineTells, AgentTells, [AgentNext]_allVars PROVE AgentTells'
    OBVIOUS
  <2>1. CASE AgentStep
    BY <2>1, AgentKeepsAgentTells
  <2>2. CASE Engine(MainStep)
    BY <2>2, EngineKeepsAgentTells DEF Engine, Next
  <2>3. CASE \E s \in Steps : Engine(Worker(s))
    <3>1. PICK s \in Steps : Engine(Worker(s))
      BY <2>3
    <3>2. [Next]_vars
      BY <3>1 DEF Engine, Next
    <3> QED
      BY <3>1, <3>2, EngineKeepsAgentTells DEF Engine
  <2>4. CASE UNCHANGED allVars
    BY <2>4 DEF allVars, vars, agentVars, config, endVars, AgentTells, Heard, Outcome, Told
  <2> QED
    BY <2>1, <2>2, <2>3, <2>4 DEF AgentNext
<1> QED
  BY <1>1, <1>2, AgentRunsTheEngine, InductiveInvariant, EngineAlwaysTells, PTL DEF AgentSpec

(* The outcome a workflow announces is that of its steps.                  *)
LEMMA OutcomeIsOfItsSteps ==
  ASSUME IInv, pc = "returned"
  PROVE  Outcome = IF \E s \in Steps : Stops(out, cont, s) THEN "failed" ELSE "completed"
<1>1. first = 0 /\ Unit = {} /\ Running = {}
  BY DEF IInv, Shape, Unit, Quiet
<1>2. \A s \in Steps : results[s] = out[s]
  <2> SUFFICES ASSUME NEW s \in Steps PROVE results[s] = out[s]
    OBVIOUS
  <2>1. CASE s \in past
    BY <2>1 DEF IInv, Records
  <2>2. CASE s \notin past
    BY <1>1, <2>2 DEF IInv, Records, Fresh
  <2> QED
    BY <2>1, <2>2
<1>3. CASE stoppedAt = 0
  BY <1>2, <1>3 DEF IInv, OutcomeIsFirstDeclaredFailure, Outcome, Stops
<1>4. CASE stoppedAt # 0
  <2>1. stoppedAt \in Steps
    BY <1>4, StepsAreIntegers DEF IInv, TypeOK, Steps
  <2>2. Stops(results, cont, stoppedAt)
    BY <1>4 DEF IInv, OutcomeIsFirstDeclaredFailure
  <2> QED
    BY <1>2, <1>4, <2>1, <2>2 DEF Outcome, Stops
<1> QED
  BY <1>3, <1>4

(* An agent's events enclose its workflow's and tell the outcome of its    *)
(* steps; a run cut short has told a beginning of that.                    *)
THEOREM AgentsTellTheirWorkflow == AgentSpec => []AgentTellsItsWorkflow
<1>1. IInv /\ EngineTells /\ AgentTells => AgentTellsItsWorkflow
  <2> SUFFICES ASSUME IInv, EngineTells, AgentTells, viaAgent
               PROVE  /\ \E outcome \in {"completed", "failed"} :
                           trace = SubSeq(Told(outcome), 1, Len(trace))
                      /\ agentPc \in {"remember", "returned"} =>
                           trace = Told(IF \E s \in Steps : Stops(out, cont, s)
                                        THEN "failed" ELSE "completed")
                      /\ agentPc = "raised" /\ Len(trace) = 4 => memory /\ blankAgent
                      /\ agentStored => agentPc = "returned"
    BY DEF AgentTellsItsWorkflow
  <2>0. PICK o \in {"completed", "failed"} : o = Outcome
    BY DEF Outcome
  <2>1. PICK d : d = IF o = "completed" THEN "agent completed" ELSE "agent failed"
    OBVIOUS
  <2>2. Told(o) = <<"agent started", "started", o, d>>
    BY <2>1 DEF Told
  <2>3. /\ SubSeq(Told(o), 1, 0) = <<>>
        /\ SubSeq(Told(o), 1, 1) = <<"agent started">>
        /\ SubSeq(Told(o), 1, 2) = <<"agent started", "started">>
        /\ SubSeq(Told(o), 1, 3) = <<"agent started", "started", o>>
        /\ SubSeq(Told(o), 1, 4) = Told(o)
    <3>1. LET t == <<"agent started", "started", o, d>> IN
          /\ SubSeq(t, 1, 0) = <<>>
          /\ SubSeq(t, 1, 1) = <<"agent started">>
          /\ SubSeq(t, 1, 2) = <<"agent started", "started">>
          /\ SubSeq(t, 1, 3) = <<"agent started", "started", o>>
          /\ SubSeq(t, 1, 4) = t
      BY Beginnings, Zenon
    <3> QED
      BY <2>2, <3>1, Zenon
  <2>4. /\ Len(<<>>) = 0 /\ Len(<<"agent started">>) = 1
        /\ Len(<<"agent started", "started">>) = 2
        /\ Len(<<"agent started", "started", o>>) = 3 /\ Len(Told(o)) = 4
    BY <2>2
  <2>5. \/ trace = <<>> \/ trace = <<"agent started">> \/ trace = <<"agent started", "started">>
        \/ trace = <<"agent started", "started", o>> /\ agentPc # "raised"
        \/ trace = Told(o) /\ (agentPc = "raised" => memory /\ blankAgent)
    <3>1. CASE trace = Heard
      <4>1. \/ events = <<>> \/ events = <<"started">>
            \/ events = <<"started", o>> /\ (pc = "raised" => blankId)
        BY <2>0 DEF EngineTells, IInv, TypeOK
      <4>2. /\ <<"agent started">> \o <<>> = <<"agent started">>
            /\ <<"agent started">> \o <<"started">> = <<"agent started", "started">>
            /\ <<"agent started">> \o <<"started", o>> = <<"agent started", "started", o>>
        BY Joined, Zenon
      <4>3. ~blankId
        BY DEF AgentTells
      <4>4. events = <<"started", o>> => agentPc # "raised"
        <5>1. <<"started", o>> # <<"started">>
          OBVIOUS
        <5>2. pc = "raised" => events # <<"started", o>>
          BY <2>0, <4>3, <5>1, Zenon DEF EngineTells
        <5>3. pc = "rejected" => events = <<>>
          BY DEF EngineTells
        <5>4. <<"started", o>> # <<>>
          OBVIOUS
        <5>5. pc = "returned" /\ events = <<"started", o>> => trace # Told(o)
          <6>1. <<"agent started", "started", o>> # Told(o)
            <7>1. PICK t, u : t = <<"agent started", "started", o>> /\ u = Told(o)
              OBVIOUS
            <7>2. Len(t) = 3 /\ Len(u) = 4
              BY <2>4, <7>1, Zenon
            <7>3. t # u
              BY <7>2
            <7> QED
              BY <7>1, <7>3, Zenon
          <6> QED
            BY <3>1, <4>2, <6>1, Zenon DEF Heard
        <5> QED
          BY <2>0, <5>2, <5>3, <5>4, <5>5 DEF AgentTells
      <4> QED
        BY <3>1, <4>1, <4>2, <4>4, Zenon DEF Heard
    <3>2. CASE trace # Heard
      BY <2>0, <3>2 DEF AgentTells
    <3> QED
      BY <3>1, <3>2
  <2>6. trace = SubSeq(Told(o), 1, Len(trace))
    BY <2>3, <2>4, <2>5, Zenon
  <2>7. agentPc = "raised" /\ Len(trace) = 4 => memory /\ blankAgent
    <3>1. CASE trace = Told(o) /\ (agentPc = "raised" => memory /\ blankAgent)
      BY <3>1
    <3>2. CASE trace = <<"agent started", "started", o>> /\ agentPc # "raised"
      BY <3>2
    <3>3. CASE trace = <<>> \/ trace = <<"agent started">> \/ trace = <<"agent started", "started">>
      <4>1. Len(trace) = 0 \/ Len(trace) = 1 \/ Len(trace) = 2
        BY <2>4, <3>3, Zenon
      <4> QED
        BY <4>1
    <3> QED
      BY <2>5, <3>1, <3>2, <3>3, Zenon
  <2>8. agentPc \in {"remember", "returned"} =>
          trace = Told(IF \E s \in Steps : Stops(out, cont, s) THEN "failed" ELSE "completed")
    BY OutcomeIsOfItsSteps, Zenon DEF AgentTells
  <2>9. agentStored => agentPc = "returned"
    BY DEF AgentTells
  <2> QED
    BY <2>6, <2>7, <2>8, <2>9
<1> QED
  BY <1>1, AgentAlwaysTells, PTL
=============================================================================
