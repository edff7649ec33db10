---------------------------- MODULE WindowsProofs ----------------------------
(***************************************************************************)
(* The corrections of every window, for every population, every evidence,  *)
(* every history of commits, policy changes and restarts; then the carry   *)
(* of one subject, which every commit updates, for every word size, every  *)
(* set of window nets and every set of policy bounds.                      *)
(***************************************************************************)
EXTENDS Windows, Carry, AllocationProofs

-------------------------------------------------------------------------------
(* Helpers.                                                                *)

LEMMA FiniteImage ==
  ASSUME NEW S, IsFiniteSet(S), NEW f
  PROVE  IsFiniteSet({f[x] : x \in S})
<1> DEFINE I(T) == {f[x] : x \in T}
           Good == {T \in SUBSET S : IsFiniteSet(I(T))}
<1>1. {} \in Good
  <2>1. I({}) = {}
    OBVIOUS
  <2> QED BY <2>1, FS_EmptySet
<1>2. ASSUME NEW T \in SUBSET S, NEW x \in S \ T, T \in Good PROVE T \cup {x} \in Good
  <2>1. I(T \cup {x}) = I(T) \cup {f[x]}
    OBVIOUS
  <2>2. IsFiniteSet(I(T))
    BY <1>2
  <2> HIDE DEF I
  <2>3. IsFiniteSet(I(T) \cup {f[x]})
    BY <2>2, FS_AddElement
  <2> QED BY <2>1, <2>3
<1>3. S \in Good
  <2> HIDE DEF Good
  <2> QED BY <1>1, <1>2, SetInduction
<1> QED BY <1>3

-------------------------------------------------------------------------------
(* What a plan is made of.                                                 *)

StarvingIn(r) == Starving(r.unserved_streak, r.below_floor_streak)

AssessedIn(r, w, ent) ==
  Assessed(r.served, r.authority, ent, StarvingIn(r), Cooling(w, StarvingIn(r)))

GroupParts(ent) == [g \in DOMAIN Policy.groups |-> ent[g]]

LEMMA JoinedFields ==
  ASSUME NEW f, NEW g
  PROVE  /\ DOMAIN Joined(f, g) = DOMAIN f \cup DOMAIN g
         /\ \A x \in DOMAIN f : Joined(f, g)[x] = f[x]
         /\ \A x \in DOMAIN g : x \notin DOMAIN f => Joined(f, g)[x] = g[x]
BY DEF Joined

PlanShape(e, authority, w, ent, d) ==
  LET r == Reading(e, authority)
      a == AssessedIn(r, w, ent)
      x == Corrections(a)
  IN /\ d.policy = installed /\ d.window = w
     /\ d.authority = authority /\ d.superseded = Superseded(e)
     /\ d.served = Served(e, authority)
     /\ d.unserved_streak = UnservedStreak(e, authority)
     /\ d.below_floor_streak = BelowFloorStreak(e, authority)
     /\ d.entitlement = [s \in Subjects |-> ent[s]]
     /\ d.starving = StarvingIn(r) /\ d.demand = a.demand
     /\ d.authorized = x.authorized /\ d.augment = x.augment /\ d.reduce = x.reduce
     /\ d.group_entitlement = GroupParts(ent) /\ d.group_served = RollUp(Served(e, authority))
     /\ d.intents = Intents(a, x)
     /\ d.outcome = Aggregate(d.outcomes)
     /\ \E j : /\ d.outcomes = [s \in Subjects |-> OutcomeOf(s, j)]
               /\ j.superseded = Superseded(e) /\ j.authority = authority
               /\ j.starving = StarvingIn(r)

LEMMA PlanFields ==
  ASSUME NEW e, NEW authority, NEW w, NEW ent
  PROVE  PlanShape(e, authority, w, ent, Plan(Reading(e, authority), w, ent))
<1> DEFINE r == Reading(e, authority)
           a == AssessedIn(r, w, ent)
           x == Corrections(a)
           D == Decided(w, a, x, GroupParts(ent))
           j == Joined(r, D)
           outcomes == [s \in Subjects |-> OutcomeOf(s, j)]
           o == [outcomes |-> outcomes, outcome |-> Aggregate(outcomes)]
           d == Joined(j, o)
           R == {"authority", "superseded", "served", "unserved_streak", "below_floor_streak"}
           E == {"policy", "window", "authority", "served", "entitlement", "starving", "deficit", "surplus",
                 "demand", "authorized", "augment", "reduce", "blocked", "group_entitlement",
                 "group_served", "intents"}
<1>1. Plan(r, w, ent) = d
  BY DEF Plan, WithOutcomes, AssessedIn, StarvingIn, GroupParts
<1>2. /\ DOMAIN r = R /\ r.authority = authority /\ r.superseded = Superseded(e)
      /\ r.served = Served(e, authority) /\ r.unserved_streak = UnservedStreak(e, authority)
      /\ r.below_floor_streak = BelowFloorStreak(e, authority)
  BY DEF Reading
<1>3. /\ a.authority = authority /\ a.served = Served(e, authority) /\ a.starving = StarvingIn(r)
      /\ a.entitlement = [s \in Subjects |-> ent[s]]
  <2> HIDE DEF r
  <2> QED BY <1>2 DEF AssessedIn, Assessed
<1> HIDE DEF r, a, x
<1>4. /\ DOMAIN D = E
      /\ D.policy = installed /\ D.window = w
      /\ D.entitlement = a.entitlement /\ D.starving = a.starving /\ D.demand = a.demand
      /\ D.authorized = x.authorized /\ D.augment = x.augment /\ D.reduce = x.reduce
      /\ D.group_entitlement = GroupParts(ent) /\ D.group_served = RollUp(a.served)
      /\ D.intents = Intents(a, x)
  BY DEF Decided
<1> HIDE DEF D
<1>5. /\ DOMAIN j = R \cup E
      /\ \A y \in R : j[y] = r[y]
      /\ \A y \in E \ R : j[y] = D[y]
  <2>1. /\ DOMAIN j = DOMAIN r \cup DOMAIN D
        /\ \A y \in DOMAIN r : j[y] = r[y]
        /\ \A y \in DOMAIN D : y \notin DOMAIN r => j[y] = D[y]
    BY JoinedFields, Zenon
  <2> HIDE DEF R, E, j
  <2> QED BY <1>2, <1>4, <2>1
<1> HIDE DEF j
<1>6. \A y \in R \cup E : d[y] = j[y]
  <2>1. \A y \in DOMAIN j : d[y] = j[y]
    BY JoinedFields, Zenon
  <2> HIDE DEF R, E, d
  <2> QED BY <1>5, <2>1
<1>7. d.outcomes = outcomes /\ d.outcome = Aggregate(outcomes)
  <2>1. DOMAIN o = {"outcomes", "outcome"} /\ o["outcomes"] = outcomes /\ o["outcome"] = Aggregate(outcomes)
    OBVIOUS
  <2> HIDE DEF o, outcomes
  <2>2. "outcomes" \notin DOMAIN j /\ "outcome" \notin DOMAIN j
    BY <1>5
  <2>3. \A y \in DOMAIN o : y \notin DOMAIN j => d[y] = o[y]
    BY JoinedFields, Zenon
  <2> HIDE DEF d
  <2> QED BY <2>1, <2>2, <2>3
<1> HIDE DEF d, outcomes
<1>8. /\ d.authority = r.authority /\ d.superseded = r.superseded /\ d.served = r.served
      /\ d.unserved_streak = r.unserved_streak /\ d.below_floor_streak = r.below_floor_streak
  BY <1>5, <1>6
<1>9. /\ d.policy = D.policy /\ d.window = D.window /\ d.entitlement = D.entitlement
      /\ d.starving = D.starving /\ d.demand = D.demand
      /\ d.authorized = D.authorized /\ d.augment = D.augment /\ d.reduce = D.reduce
      /\ d.group_entitlement = D.group_entitlement /\ d.group_served = D.group_served
      /\ d.intents = D.intents
  BY <1>5, <1>6
<1>10. j.superseded = r.superseded /\ j.authority = r.authority /\ j.starving = D.starving
  BY <1>5
<1>11. \E k : /\ d.outcomes = [s \in Subjects |-> OutcomeOf(s, k)]
              /\ k.superseded = Superseded(e) /\ k.authority = authority
              /\ k.starving = StarvingIn(r)
  BY <1>2, <1>3, <1>4, <1>7, <1>10 DEF outcomes
<1> QED BY <1>1, <1>2, <1>3, <1>4, <1>7, <1>8, <1>9, <1>11 DEF r, a, x, PlanShape

-------------------------------------------------------------------------------
(* Types.                                                                  *)

EntryType(n) ==
  /\ n.cumulative_deficit \in Nat /\ n.cumulative_surplus \in Nat
  /\ n.discarded_deficit \in Nat /\ n.discarded_surplus \in Nat
  /\ n.unserved_streak \in Nat /\ n.below_floor_streak \in Nat
  /\ n.last_correction_window \in Nat /\ n.last_correction_generation \in Nat

TypeInv ==
  /\ installed \in DOMAIN Policies
  /\ IsFiniteSet(DOMAIN accounting) /\ DOMAIN accounting \subseteq Population
  /\ \A s \in DOMAIN accounting : EntryType(accounting[s])
  /\ intervention \in Nat /\ lastWindow \in Nat
  /\ unservedRun \in [Population -> Nat] /\ lastCorrected \in [Population -> Nat]
  /\ complete \in BOOLEAN

LEMMA ConstantTypes ==
  /\ kStreakSaturation \in Nat /\ kMaxCarryUnits \in Nat /\ MaxRecords \in Nat
  /\ MaxService \in Nat /\ MaxWindow \in Nat /\ MaxSkip \in Nat
BY WindowsAssumption

LEMMA PolicyFacts ==
  ASSUME TypeInv
  PROVE  /\ Forest(Policy) /\ installed \in Nat
         /\ IsFiniteSet(Subjects) /\ Subjects \subseteq Nat /\ Subjects \subseteq Population
         /\ Subjects # {}
         /\ Policy.fair_band_units \in Nat /\ Policy.cooldown_windows \in Nat
         /\ Policy.max_correction_units \in Nat /\ Policy.max_correction_bps \in Nat
         /\ Policy.max_carry_units \in Nat /\ Policy.max_carry_units <= kMaxCarryUnits
         /\ \A s \in Subjects :
              /\ Policy.subjects[s].floor \in Nat /\ Policy.subjects[s].rank \in Nat
              /\ Policy.subjects[s].max_reduce_units \in Nat
              /\ Policy.subjects[s].max_augment_units \in Nat
              /\ Policy.subjects[s].starvation_windows \in 0..kStreakSaturation
<1>1. installed \in DOMAIN Policies
  BY DEF TypeInv
<1>2. PolicyType(Policy) /\ ValidPolicy(Policy) /\ PolicyBounds(Policy) /\ Subjects \subseteq Population
      /\ installed \in Nat
  BY <1>1, WindowsAssumption DEF Policy, Subjects, Population
<1>3. Forest(Policy)
  BY <1>2, ValidIsForest
<1>4. \A s \in Subjects : s \in Nodes(Policy) /\ s \notin DOMAIN Policy.groups
  BY <1>3, ForestShape DEF Subjects
<1>5. \A s \in Subjects : Policy.subjects[s].floor \in Nat /\ Policy.subjects[s].rank \in Nat
  BY <1>2, <1>4 DEF PolicyType, Declared
<1>6. IsFiniteSet(Subjects) /\ Subjects \subseteq Nat /\ Subjects # {}
  BY <1>3 DEF Forest, PolicyType, Subjects
<1>7. /\ Policy.fair_band_units \in Nat /\ Policy.cooldown_windows \in Nat
      /\ Policy.max_correction_units \in Nat /\ Policy.max_correction_bps \in Nat
      /\ Policy.max_carry_units \in Nat /\ Policy.max_carry_units <= kMaxCarryUnits
      /\ \A s \in Subjects :
           /\ Policy.subjects[s].max_reduce_units \in Nat
           /\ Policy.subjects[s].max_augment_units \in Nat
           /\ Policy.subjects[s].starvation_windows \in 0..kStreakSaturation
  BY <1>2 DEF PolicyBounds, Subjects
<1> QED BY <1>2, <1>3, <1>5, <1>6, <1>7

LEMMA EntryTyped ==
  ASSUME TypeInv, NEW s
  PROVE  EntryType(Entry(s))
BY DEF TypeInv, Entry, NewEntry, EntryType

\* The whole is entitled to the subjects, and to the root groups.
LEMMA EntitledTo ==
  ASSUME TypeInv, NEW whole \in Nat, whole <= MaxService
  PROVE  LET ent == Entitlements[installed][whole]
         IN /\ \A n \in Nodes(Policy) : ent[n] \in Nat
            /\ SumFunctionOnSet(ent, Subjects) = whole
            /\ SumFunctionOnSet(ent, Children(Policy, NoParent)) = whole
<1> DEFINE level == Scatter(Policy, whole, TRUE)
           ent == Pass(Policy, level)
<1>1. Forest(Policy)
  BY PolicyFacts
<1>2. Entitlements[installed][whole] = ent
  <2>1. installed \in DOMAIN Policies /\ whole \in 0..MaxService
    BY ConstantTypes DEF TypeInv
  <2>2. Entitlements[installed][whole] = Evaluated(Policy, whole).effective
    BY <2>1 DEF Entitlements, Policy
  <2> QED BY <2>2 DEF Evaluated, Outcome, Pass
<1>3. /\ ent \in [Nodes(Policy) -> Nat]
      /\ \A g \in Levels(Policy) :
           /\ Part(Policy, whole, level, g) = IF g = NoParent THEN whole ELSE ent[g]
           /\ SumFunctionOnSet(ent, Children(Policy, g)) = Part(Policy, whole, level, g)
  BY <1>1, PassLevels
<1> HIDE DEF ent, level
<1>4. \A g \in Levels(Policy) :
        SumFunctionOnSet(ent, Children(Policy, g)) = IF g = NoParent THEN whole ELSE ent[g]
  BY <1>3
<1>5. SumFunctionOnSet(ent, DOMAIN Policy.subjects) = whole
  BY <1>1, <1>3, <1>4, SubjectsGetAll
<1>6. SumFunctionOnSet(ent, Children(Policy, NoParent)) = whole
  BY <1>1, <1>4, ForestShape
<1> QED BY <1>2, <1>3, <1>5, <1>6 DEF Subjects

\* What evidence says of a subject with authority.
LEMMA ReadingFacts ==
  ASSUME TypeInv, NEW e \in EvidenceUnder[installed]
  PROVE  LET authority == HasAuthority(e)
         IN /\ authority \in SUBSET Subjects /\ authority \cap Superseded(e) = {}
            /\ Served(e, authority) \in [Subjects -> Nat]
            /\ \A s \in Subjects : Served(e, authority)[s] > 0 => s \in authority
            /\ \A s \in authority :
                 /\ UnservedStreak(e, authority)[s] \in 0..kStreakSaturation
                 /\ BelowFloorStreak(e, authority)[s] \in 0..kStreakSaturation
                 /\ Served(e, authority)[s] = 0 =>
                      UnservedStreak(e, authority)[s] >= BumpStreak(Entry(s).unserved_streak)
            /\ DOMAIN UnservedStreak(e, authority) = authority
<1> DEFINE A == HasAuthority(e)
<1>1. A \in SUBSET Subjects /\ A \cap Superseded(e) = {} /\ \A s \in A : e[s] # Missing
  BY DEF HasAuthority
<1>2. \A s \in Subjects : e[s] \in Observations[s] /\ s \in DOMAIN Observations
  <2>1. installed \in DOMAIN Policies
    BY DEF TypeInv
  <2>2. \A s \in Subjects : e[s] \in Observations[s]
    BY <2>1 DEF EvidenceUnder, Subjects, Policy
  <2> QED BY <2>2, PolicyFacts DEF Population
<1>3. \A s \in A : /\ e[s].served \in Nat
                   /\ e[s].unserved_streak \in 0..kStreakSaturation
                   /\ e[s].below_floor_streak \in 0..kStreakSaturation
  BY <1>1, <1>2, WindowsAssumption
<1>4. \A n \in Nat : BumpStreak(n) \in 0..kStreakSaturation
  BY ConstantTypes DEF BumpStreak, Least
<1>5. \A s \in A : Entry(s).unserved_streak \in Nat /\ Entry(s).below_floor_streak \in Nat
  BY EntryTyped DEF EntryType
<1>6. \A s \in A : Policy.subjects[s].floor \in Nat
  BY <1>1, PolicyFacts
<1> HIDE DEF A
<1>7. Served(e, A) \in [Subjects -> Nat] /\ \A s \in Subjects : Served(e, A)[s] > 0 => s \in A
  BY <1>3 DEF Served
<1>8. DOMAIN UnservedStreak(e, A) = A
  BY DEF UnservedStreak
<1>9. ASSUME NEW s \in A
      PROVE  /\ UnservedStreak(e, A)[s] \in 0..kStreakSaturation
             /\ Served(e, A)[s] = 0 => UnservedStreak(e, A)[s] >= BumpStreak(Entry(s).unserved_streak)
  <2>1. UnservedStreak(e, A)[s] =
          Greater(IF e[s].served = 0 THEN BumpStreak(Entry(s).unserved_streak) ELSE 0, e[s].unserved_streak)
    BY DEF UnservedStreak
  <2>2. BumpStreak(Entry(s).unserved_streak) \in 0..kStreakSaturation
    BY <1>4, <1>5
  <2>3. Served(e, A)[s] = e[s].served
    BY <1>1 DEF Served, A
  <2> QED BY <1>3, <2>1, <2>2, <2>3, ConstantTypes DEF Greater
<1>10. ASSUME NEW s \in A PROVE BelowFloorStreak(e, A)[s] \in 0..kStreakSaturation
  <2>1. BelowFloorStreak(e, A)[s] =
          Greater(IF e[s].served < Policy.subjects[s].floor THEN BumpStreak(Entry(s).below_floor_streak) ELSE 0,
                  e[s].below_floor_streak)
    BY DEF BelowFloorStreak
  <2>2. BumpStreak(Entry(s).below_floor_streak) \in 0..kStreakSaturation
    BY <1>4, <1>5
  <2> QED BY <1>3, <2>1, <2>2, ConstantTypes DEF Greater
<1> QED BY <1>1, <1>7, <1>8, <1>9, <1>10 DEF A

-------------------------------------------------------------------------------
(* The numbers of a plan.                                                  *)

AssessedWell(served, authority, starving, cooling, a) ==
  /\ a.demand \in [Subjects -> Nat] /\ a.reducible \in [Subjects -> Nat]
  /\ \A s \in Subjects : a.demand[s] > 0 => s \in authority /\ s \notin cooling
  /\ \A s \in Subjects : a.reducible[s] > 0 => s \in authority
  /\ \A s \in Subjects : Policy.subjects[s].protected =>
       a.reducible[s] <= Excess(served[s], Policy.subjects[s].floor)
  /\ a.served = served /\ a.starving = starving

LEMMA AssessedFacts ==
  ASSUME TypeInv, NEW served \in [Subjects -> Nat], NEW authority \in SUBSET Subjects,
         \A s \in Subjects : served[s] > 0 => s \in authority,
         NEW ent, \A s \in Subjects : ent[s] \in Nat, NEW starving, NEW cooling
  PROVE  AssessedWell(served, authority, starving, cooling,
                      Assessed(served, authority, ent, starving, cooling))
<1> DEFINE a == Assessed(served, authority, ent, starving, cooling)
           deficit == EffectiveDeficit(served, authority, ent)
           cap == ReduceCap(served, ent)
<1>1. /\ a.demand = Demand(deficit, cooling) /\ a.reducible = Reducible(served, cap)
      /\ a.served = served /\ a.starving = starving
  BY DEF Assessed
<1>2. ASSUME NEW s \in Subjects
      PROVE  deficit[s] \in Nat /\ (deficit[s] > 0 => s \in authority)
  <2>1. Entry(s).cumulative_deficit \in Nat /\ Policy.max_carry_units \in Nat
    BY EntryTyped, PolicyFacts DEF EntryType
  <2>2. deficit[s] = IF s \in authority
                     THEN Excess(ent[s], served[s]) + Least(Entry(s).cumulative_deficit, Policy.max_carry_units)
                     ELSE 0
    BY DEF EffectiveDeficit
  <2> QED BY <2>1, <2>2 DEF Excess, Least
<1>3. ASSUME NEW s \in Subjects
      PROVE  cap[s] \in Nat /\ (cap[s] > 0 => s \in authority)
  <2>1. Policy.subjects[s].max_reduce_units \in Nat
    BY PolicyFacts
  <2>2. cap[s] = Least(Excess(served[s], ent[s]), Policy.subjects[s].max_reduce_units)
    BY DEF ReduceCap
  <2> QED BY <2>1, <2>2 DEF Excess, Least
<1> HIDE DEF deficit, cap
<1>4. ASSUME NEW s \in Subjects
      PROVE  /\ Demand(deficit, cooling)[s] \in Nat
             /\ Demand(deficit, cooling)[s] > 0 => s \in authority /\ s \notin cooling
  <2>1. Policy.fair_band_units \in Nat /\ Policy.subjects[s].max_augment_units \in Nat
    BY PolicyFacts
  <2>2. Demand(deficit, cooling)[s] =
          IF deficit[s] > Policy.fair_band_units /\ s \notin cooling
          THEN Least(deficit[s], Policy.subjects[s].max_augment_units) ELSE 0
    BY DEF Demand
  <2> QED BY <1>2, <2>1, <2>2 DEF Least
<1>5. ASSUME NEW s \in Subjects
      PROVE  /\ Reducible(served, cap)[s] \in Nat
             /\ Reducible(served, cap)[s] > 0 => s \in authority
             /\ Policy.subjects[s].protected =>
                  Reducible(served, cap)[s] <= Excess(served[s], Policy.subjects[s].floor)
  <2>1. Policy.subjects[s].floor \in Nat /\ served[s] \in Nat
    BY PolicyFacts
  <2>2. Reducible(served, cap)[s] =
          IF Policy.subjects[s].protected
          THEN Least(cap[s], Excess(served[s], Policy.subjects[s].floor)) ELSE cap[s]
    BY DEF Reducible
  <2> QED BY <1>3, <2>1, <2>2 DEF Least, Excess
<1>6. /\ Demand(deficit, cooling) = [s \in Subjects |-> Demand(deficit, cooling)[s]]
      /\ Reducible(served, cap) = [s \in Subjects |-> Reducible(served, cap)[s]]
  BY DEF Demand, Reducible
<1>7. Demand(deficit, cooling) \in [Subjects -> Nat] /\ Reducible(served, cap) \in [Subjects -> Nat]
  BY <1>4, <1>5, <1>6
<1> HIDE DEF a
<1> QED BY <1>1, <1>4, <1>5, <1>7 DEF a, AssessedWell

LEMMA GrantingOrdered ==
  ASSUME TypeInv, NEW demand \in [Subjects -> Nat], NEW starving
  PROVE  StrictOrder({o \in Subjects \X Subjects : GrantedBefore(demand, starving, o[1], o[2])}, Subjects)
<1> DEFINE D == Subjects
           R(s) == Policy.subjects[s].rank
           In(s) == IF s \in starving THEN 1 ELSE 0
           order == {o \in D \X D : GrantedBefore(demand, starving, o[1], o[2])}
<1>1. \A a, b \in D : <<a, b>> \in order <=>
        \/ a \in starving /\ b \notin starving
        \/ /\ a \in starving <=> b \in starving
           /\ \/ demand[a] > demand[b]
              \/ demand[a] = demand[b] /\ R(a) > R(b)
              \/ demand[a] = demand[b] /\ R(a) = R(b) /\ a < b
  BY DEF GrantedBefore
<1>2. \A a, b \in D : <<a, b>> \in order <=>
        \/ In(a) > In(b)
        \/ In(a) = In(b) /\ demand[a] > demand[b]
        \/ In(a) = In(b) /\ demand[a] = demand[b] /\ R(a) > R(b)
        \/ In(a) = In(b) /\ demand[a] = demand[b] /\ R(a) = R(b) /\ a < b
  <2>1. \A a, b : /\ In(a) > In(b) <=> a \in starving /\ b \notin starving
                  /\ In(a) = In(b) <=> (a \in starving <=> b \in starving)
    OBVIOUS
  <2> HIDE DEF In, R, order, D
  <2> QED BY <1>1, <2>1, Zenon
<1>3. \A s \in D : s \in Int /\ R(s) \in Int /\ demand[s] \in Int /\ In(s) \in Int
  BY PolicyFacts
<1> HIDE DEF R, In, order, D
<1>4. StrictOrder(order, D)
  BY <1>2, <1>3 DEF StrictOrder
<1> QED BY <1>4 DEF order, D

LEMMA TakingOrdered ==
  ASSUME TypeInv, NEW reducible \in [Subjects -> Nat]
  PROVE  StrictOrder({o \in Subjects \X Subjects : TakenBefore(reducible, o[1], o[2])}, Subjects)
<1> DEFINE D == Subjects
           R(s) == Policy.subjects[s].rank
           order == {o \in D \X D : TakenBefore(reducible, o[1], o[2])}
<1>1. \A a, b \in D : <<a, b>> \in order <=>
        \/ reducible[a] > reducible[b]
        \/ reducible[a] = reducible[b] /\ R(a) < R(b)
        \/ reducible[a] = reducible[b] /\ R(a) = R(b) /\ a < b
  BY DEF TakenBefore
<1>2. \A s \in D : s \in Int /\ R(s) \in Int /\ reducible[s] \in Int
  BY PolicyFacts
<1> HIDE DEF R, order, D
<1>3. StrictOrder(order, D)
  BY <1>1, <1>2 DEF StrictOrder
<1> QED BY <1>3 DEF order, D

\* The budget is within the demand and within what can be taken.
LEMMA BudgetBounded ==
  ASSUME TypeInv, NEW pool \in Nat, NEW demand \in Nat, NEW whole \in Nat
  PROVE  /\ Authorized(pool, demand, whole) \in Nat
         /\ Authorized(pool, demand, whole) <= pool
         /\ Authorized(pool, demand, whole) <= demand
<1>1. Policy.max_correction_units \in Nat /\ Policy.max_correction_bps \in Nat
  BY PolicyFacts
<1> DEFINE product == whole * Policy.max_correction_bps
<1>2. product \in Nat
  BY <1>1
<1>3. product \div BasisPointScale \in Nat
  <2> HIDE DEF product
  <2>1. BasisPointScale \in Nat \ {0}
    BY DEF BasisPointScale
  <2> QED BY <1>2, <2>1, DivMod
<1>4. BpsBudget(whole, demand) \in Nat
  BY <1>3 DEF BpsBudget
<1> QED BY <1>1, <1>4 DEF Authorized, Least

LEMMA CorrectionFacts ==
  ASSUME TypeInv, NEW a, a.demand \in [Subjects -> Nat], a.reducible \in [Subjects -> Nat],
         a.served \in [Subjects -> Nat]
  PROVE  LET x == Corrections(a)
         IN /\ x.authorized \in Nat
            /\ x.augment \in [Subjects -> Nat] /\ x.reduce \in [Subjects -> Nat]
            /\ Sum(x.augment) = x.authorized /\ Sum(x.reduce) = x.authorized
            /\ \A s \in Subjects : x.augment[s] <= a.demand[s] /\ x.reduce[s] <= a.reducible[s]
            /\ \A s, t \in Subjects :
                 s \in a.starving /\ t \notin a.starving /\ x.augment[s] < a.demand[s] => x.augment[t] = 0
<1> DEFINE demand == a.demand
           reducible == a.reducible
           budget == Authorized(Sum(reducible), Sum(demand), Sum(a.served))
           granting == {o \in Subjects \X Subjects : GrantedBefore(demand, a.starving, o[1], o[2])}
           taking == {o \in Subjects \X Subjects : TakenBefore(reducible, o[1], o[2])}
           augment == Greedy(demand, granting, budget)
           reduce == Greedy(reducible, taking, budget)
           x == Corrections(a)
<1>1. x.augment = augment /\ x.reduce = reduce /\ x.authorized = budget
  BY DEF Corrections, Distributed
<1>2. IsFiniteSet(Subjects)
  BY PolicyFacts
<1>3. Sum(demand) \in Nat /\ Sum(reducible) \in Nat /\ Sum(a.served) \in Nat
  <2>1. \A f \in [Subjects -> Nat] : Sum(f) \in Nat
    BY <1>2, SumNat DEF Sum
  <2> QED BY <2>1
<1>4. budget \in Nat /\ budget <= Sum(demand) /\ budget <= Sum(reducible)
  <2> HIDE DEF demand, reducible
  <2> QED BY <1>3, BudgetBounded
<1>5. StrictOrder(granting, Subjects) /\ StrictOrder(taking, Subjects)
  BY GrantingOrdered, TakingOrdered
<1>6. demand \in [Subjects -> Nat] /\ reducible \in [Subjects -> Nat]
  OBVIOUS
<1> HIDE DEF budget, granting, taking, demand, reducible, x
<1>7. augment \in [Subjects -> Nat] /\ \A s \in Subjects : augment[s] <= demand[s]
  BY <1>2, <1>4, <1>6, GreedyParts
<1>8. reduce \in [Subjects -> Nat] /\ \A s \in Subjects : reduce[s] <= reducible[s]
  BY <1>2, <1>4, <1>6, GreedyParts
<1>9. Total(augment) = Least(Total(demand), budget)
  BY <1>2, <1>4, <1>5, <1>6, GreedyTotal
<1>10. Total(reduce) = Least(Total(reducible), budget)
  BY <1>2, <1>4, <1>5, <1>6, GreedyTotal
<1>11. Sum(augment) = budget /\ Sum(reduce) = budget
  <2>1. \A f : Sum(f) = Total(f)
    BY DEF Sum, Total
  <2> HIDE DEF augment, reduce
  <2> QED BY <1>3, <1>4, <1>9, <1>10, <2>1 DEF Least
<1>12. ASSUME NEW s \in Subjects, NEW t \in Subjects, s \in a.starving, t \notin a.starving,
              augment[s] < demand[s]
       PROVE  augment[t] = 0
  <2>1. <<s, t>> \in granting
    BY <1>12 DEF granting, GrantedBefore
  <2> QED BY <1>2, <1>4, <1>5, <1>6, <1>12, <2>1, GreedyPriority
<1> HIDE DEF augment, reduce
<1> QED BY <1>1, <1>4, <1>7, <1>8, <1>11, <1>12 DEF demand, reducible, x

\* A decision as evaluate_fairness makes it, for the current state.
PlanOn(e, w) == PlanFrom(Reading(e, HasAuthority(e)), w)

\* The service the evidence e adds up to.
WholeOf(e) == Sum(Served(e, HasAuthority(e)))

LEMMA WholeType ==
  ASSUME TypeInv, NEW e \in EvidenceUnder[installed]
  PROVE  WholeOf(e) \in Nat
<1>1. Served(e, HasAuthority(e)) \in [Subjects -> Nat]
  BY ReadingFacts
<1>2. IsFiniteSet(Subjects)
  BY PolicyFacts
<1> DEFINE f == Served(e, HasAuthority(e))
<1> HIDE DEF f
<1>3. f \in [Subjects -> Nat]
  BY <1>1 DEF f
<1>4. Sum(f) \in Nat
  BY <1>2, <1>3, SumNat DEF Sum
<1> QED BY <1>4 DEF WholeOf, f

\* What a plan does with the budget.
LEMMA PlanSpends ==
  ASSUME TypeInv, NEW e \in EvidenceUnder[installed], NEW w, WholeOf(e) <= MaxService
  PROVE  LET d == PlanOn(e, w)
         IN /\ d.augment \in [Subjects -> Nat] /\ d.reduce \in [Subjects -> Nat]
            /\ Sum(d.augment) = d.authorized /\ Sum(d.reduce) = d.authorized
            /\ \A s \in Subjects : Policy.subjects[s].protected /\ d.reduce[s] > 0 =>
                 d.served[s] - d.reduce[s] >= Policy.subjects[s].floor
            /\ d.starving \in SUBSET d.authority
            /\ \A s, t \in Subjects :
                 s \in d.starving /\ t \notin d.starving /\ d.augment[s] < d.demand[s] => d.augment[t] = 0
            /\ \A s \in Subjects : d.augment[s] > 0 => s \in d.authority /\ s \notin Cooling(w, d.starving)
            /\ \A s \in Subjects : d.reduce[s] > 0 => s \in d.authority
<1> DEFINE authority == HasAuthority(e)
           r == Reading(e, authority)
           ent == Entitlements[installed][WholeOf(e)]
           starving == StarvingIn(r)
           cooling == Cooling(w, starving)
           served == Served(e, authority)
           a == AssessedIn(r, w, ent)
           x == Corrections(a)
           d == PlanOn(e, w)
<1>0. r.served = served /\ r.authority = authority /\ r.unserved_streak = UnservedStreak(e, authority)
  BY DEF Reading
<1>1. d = Plan(r, w, ent)
  BY <1>0 DEF PlanOn, PlanFrom, WholeOf
<1>2. a = Assessed(served, authority, ent, starving, cooling)
  BY <1>0 DEF AssessedIn
<1>3. /\ d.authority = authority /\ d.served = served /\ d.starving = starving /\ d.demand = a.demand
      /\ d.authorized = x.authorized /\ d.augment = x.augment /\ d.reduce = x.reduce
  <2>1. PlanShape(e, authority, w, ent, d)
    BY <1>1, PlanFields
  <2> HIDE DEF d, authority, ent, served
  <2> QED BY <2>1 DEF PlanShape, served
<1>4. /\ authority \in SUBSET Subjects /\ served \in [Subjects -> Nat]
      /\ \A s \in Subjects : served[s] > 0 => s \in authority
      /\ DOMAIN UnservedStreak(e, authority) = authority
  BY ReadingFacts
<1>5. \A s \in Subjects : ent[s] \in Nat
  <2>1. \A n \in Nodes(Policy) : ent[n] \in Nat
    BY WholeType, EntitledTo
  <2> QED BY <2>1 DEF Nodes, Subjects
<1>6. starving \in SUBSET authority
  <2> HIDE DEF r, authority
  <2> QED BY <1>0, <1>4 DEF StarvingIn, Starving
<1> HIDE DEF authority, r, ent, starving, cooling, served, a, x, d
<1>7. /\ a.demand \in [Subjects -> Nat] /\ a.reducible \in [Subjects -> Nat]
      /\ \A s \in Subjects : a.demand[s] > 0 => s \in authority /\ s \notin cooling
      /\ \A s \in Subjects : a.reducible[s] > 0 => s \in authority
      /\ \A s \in Subjects : Policy.subjects[s].protected =>
           a.reducible[s] <= Excess(served[s], Policy.subjects[s].floor)
      /\ a.served = served /\ a.starving = starving
  <2>1. \A s \in Subjects : served[s] > 0 => s \in authority
    BY <1>4
  <2>2. AssessedWell(served, authority, starving, cooling,
                     Assessed(served, authority, ent, starving, cooling))
    BY <1>4, <1>5, <2>1, AssessedFacts
  <2>3. AssessedWell(served, authority, starving, cooling, a)
    BY <1>2, <2>2
  <2> QED BY <2>3 DEF AssessedWell
<1>8. /\ x.authorized \in Nat
      /\ x.augment \in [Subjects -> Nat] /\ x.reduce \in [Subjects -> Nat]
      /\ Sum(x.augment) = x.authorized /\ Sum(x.reduce) = x.authorized
      /\ \A s \in Subjects : x.augment[s] <= a.demand[s] /\ x.reduce[s] <= a.reducible[s]
      /\ \A s, t \in Subjects :
           s \in a.starving /\ t \notin a.starving /\ x.augment[s] < a.demand[s] => x.augment[t] = 0
  <2>1. a.served \in [Subjects -> Nat]
    BY <1>4, <1>7
  <2> QED BY <1>7, <2>1, CorrectionFacts DEF x
<1>9. ASSUME NEW s \in Subjects, Policy.subjects[s].protected, x.reduce[s] > 0
      PROVE  served[s] - x.reduce[s] >= Policy.subjects[s].floor
  <2>1. /\ x.reduce[s] \in Nat /\ a.reducible[s] \in Nat /\ x.reduce[s] <= a.reducible[s]
        /\ a.reducible[s] <= Excess(served[s], Policy.subjects[s].floor)
        /\ served[s] \in Nat
    BY <1>4, <1>7, <1>8, <1>9
  <2>2. Policy.subjects[s].floor \in Nat
    BY PolicyFacts
  <2> QED BY <1>9, <2>1, <2>2 DEF Excess
<1>10. \A s \in Subjects : x.augment[s] > 0 => s \in authority /\ s \notin cooling
  <2>1. \A s \in Subjects : x.augment[s] \in Nat /\ a.demand[s] \in Nat
    BY <1>7, <1>8
  <2> QED BY <1>7, <1>8, <2>1
<1>11. \A s \in Subjects : x.reduce[s] > 0 => s \in authority
  <2>1. \A s \in Subjects : x.reduce[s] \in Nat /\ a.reducible[s] \in Nat
    BY <1>7, <1>8
  <2> QED BY <1>7, <1>8, <2>1
<1> QED BY <1>3, <1>6, <1>7, <1>8, <1>9, <1>10, <1>11 DEF cooling, d

\* What commit relies on: the numbers are those of the window and of the entries.
SoundPlan(d) ==
  /\ d.window \in Nat /\ d.window > lastWindow
  /\ d.authority \in SUBSET Subjects
  /\ d.served \in [Subjects -> Nat] /\ d.entitlement \in [Subjects -> Nat]
  /\ Sum(d.entitlement) = Sum(d.served)
  /\ \A s \in d.authority :
       /\ d.unserved_streak[s] \in 0..kStreakSaturation
       /\ d.below_floor_streak[s] \in 0..kStreakSaturation
       /\ d.served[s] = 0 => d.unserved_streak[s] >= BumpStreak(Entry(s).unserved_streak)
  /\ IsFiniteSet(d.intents)
  /\ \A i \in d.intents :
       i.subject \in d.authority /\ i.generation \in Nat /\ i.generation > intervention

LEMMA IntentFacts ==
  ASSUME TypeInv, NEW a, NEW x, NEW authority,
         \A s \in Subjects : x.augment[s] > 0 \/ x.reduce[s] > 0 => s \in authority
  PROVE  /\ IsFiniteSet(Intents(a, x))
         /\ \A i \in Intents(a, x) :
              i.subject \in authority /\ i.generation \in Nat /\ i.generation > intervention
<1> DEFINE up == {s \in Subjects : x.augment[s] > 0}
           down == {s \in Subjects : x.reduce[s] > 0}
           before(s) == {t \in up : GrantedBefore(a.demand, a.starving, t, s)}
           ahead(s) == {t \in down : TakenBefore(a.reducible, t, s)}
           f == [s \in up |-> [subject |-> s, direction |-> "augment",
                               generation |-> intervention + Cardinality(before(s)) + 1]]
           g == [s \in down |-> [subject |-> s, direction |-> "reduce",
                                 generation |-> intervention + Cardinality(up) + Cardinality(ahead(s)) + 1]]
<1>1. Intents(a, x) = {f[s] : s \in up} \cup {g[s] : s \in down}
  BY DEF Intents
<1>2. IsFiniteSet(up) /\ IsFiniteSet(down)
  BY PolicyFacts, FS_Subset
<1>3. \A s : Cardinality(before(s)) \in Nat /\ Cardinality(ahead(s)) \in Nat
  <2>1. \A s : IsFiniteSet(before(s)) /\ IsFiniteSet(ahead(s))
    BY <1>2, FS_Subset
  <2> QED BY <2>1, FS_CardinalityType
<1>4. Cardinality(up) \in Nat /\ intervention \in Nat
  BY <1>2, FS_CardinalityType DEF TypeInv
<1> HIDE DEF before, ahead
<1>5. \A s \in up : f[s].subject = s /\ f[s].generation \in Nat /\ f[s].generation > intervention
  BY <1>3, <1>4
<1>6. \A s \in down : g[s].subject = s /\ g[s].generation \in Nat /\ g[s].generation > intervention
  <2> HIDE DEF up
  <2> QED BY <1>3, <1>4
<1>7. \A s \in up : s \in authority
  OBVIOUS
<1>8. \A s \in down : s \in authority
  OBVIOUS
<1> HIDE DEF f, g, up, down
<1>9. IsFiniteSet({f[s] : s \in up}) /\ IsFiniteSet({g[s] : s \in down})
  BY <1>2, FiniteImage
<1>10. IsFiniteSet({f[s] : s \in up} \cup {g[s] : s \in down})
  BY <1>9, FS_Union
<1> QED BY <1>1, <1>5, <1>6, <1>7, <1>8, <1>10

LEMMA PlanIsSound ==
  ASSUME TypeInv, NEW e \in EvidenceUnder[installed], NEW w \in Nat, w > lastWindow,
         WholeOf(e) <= MaxService
  PROVE  SoundPlan(PlanOn(e, w))
<1> DEFINE authority == HasAuthority(e)
           r == Reading(e, authority)
           ent == Entitlements[installed][WholeOf(e)]
           served == Served(e, authority)
           a == AssessedIn(r, w, ent)
           x == Corrections(a)
           d == PlanOn(e, w)
<1>1. d = Plan(r, w, ent)
  <2>1. r.served = served
    BY DEF Reading
  <2> QED BY <2>1 DEF PlanOn, PlanFrom, WholeOf
<1>2. /\ d.authority = authority /\ d.served = served /\ d.window = w
      /\ d.unserved_streak = UnservedStreak(e, authority)
      /\ d.below_floor_streak = BelowFloorStreak(e, authority)
      /\ d.entitlement = [s \in Subjects |-> ent[s]]
      /\ d.augment = x.augment /\ d.reduce = x.reduce /\ d.intents = Intents(a, x)
  <2>1. PlanShape(e, authority, w, ent, d)
    BY <1>1, PlanFields
  <2> HIDE DEF d, authority, ent, served
  <2> QED BY <2>1 DEF PlanShape, served
<1>3. /\ authority \in SUBSET Subjects /\ served \in [Subjects -> Nat]
      /\ \A s \in authority :
           /\ UnservedStreak(e, authority)[s] \in 0..kStreakSaturation
           /\ BelowFloorStreak(e, authority)[s] \in 0..kStreakSaturation
           /\ served[s] = 0 =>
                UnservedStreak(e, authority)[s] >= BumpStreak(Entry(s).unserved_streak)
  BY ReadingFacts
<1>4. (\A n \in Nodes(Policy) : ent[n] \in Nat) /\ SumFunctionOnSet(ent, Subjects) = WholeOf(e)
  BY WholeType, EntitledTo
<1>5. \A s \in Subjects : d.augment[s] > 0 \/ d.reduce[s] > 0 => s \in d.authority
  BY PlanSpends
<1> HIDE DEF authority, r, ent, served, a, x, d
<1>6. IsFiniteSet(d.intents) /\ \A i \in d.intents :
        i.subject \in d.authority /\ i.generation \in Nat /\ i.generation > intervention
  <2>1. \A s \in Subjects : x.augment[s] > 0 \/ x.reduce[s] > 0 => s \in authority
    BY <1>2, <1>5, Zenon
  <2>2. IsFiniteSet(Intents(a, x)) /\ \A i \in Intents(a, x) :
          i.subject \in authority /\ i.generation \in Nat /\ i.generation > intervention
    BY <2>1, IntentFacts, Zenon
  <2> QED BY <1>2, <2>2, Zenon
<1>7. d.entitlement \in [Subjects -> Nat] /\ \A s \in Subjects : d.entitlement[s] = ent[s] /\ ent[s] \in Int
  <2>1. \A s \in Subjects : ent[s] \in Nat
    BY <1>4 DEF Nodes, Subjects
  <2> QED BY <1>2, <2>1
<1>8. Sum(d.entitlement) = Sum(d.served)
  <2>1. IsFiniteSet(Subjects) /\ DOMAIN d.entitlement = Subjects
    BY <1>7, PolicyFacts
  <2>2. SumFunctionOnSet(ent, Subjects) = SumFunctionOnSet(d.entitlement, Subjects)
    BY <1>7, <2>1, SumSame
  <2>3. Sum(d.served) = WholeOf(e)
    BY <1>2 DEF WholeOf, served, authority
  <2> QED BY <1>4, <2>1, <2>2, <2>3 DEF Sum
<1>9. SoundPlan(d)
  BY <1>2, <1>3, <1>6, <1>7, <1>8 DEF SoundPlan
<1> QED BY <1>9 DEF d

OutcomeNames ==
  {"FAIR", "OVER_SERVED", "UNDER_SERVED", "STARVATION_RISK", "CORRECTION_REQUIRED",
   "BLOCKED_BY_STRONGER_OBLIGATION", "UNKNOWN", "STALE"}

LEMMA RankType == \A o \in OutcomeNames : OutcomeRank[o] \in Int
BY DEF OutcomeNames, OutcomeRank

\* The aggregate is no better than the outcome of any subject.
LEMMA AggregateWorst ==
  ASSUME NEW S, IsFiniteSet(S), NEW outcomes, DOMAIN outcomes = S,
         \A s \in S : outcomes[s] \in OutcomeNames, NEW s \in S
  PROVE  /\ Aggregate(outcomes) \in OutcomeNames
         /\ OutcomeRank[outcomes[s]] <= OutcomeRank[Aggregate(outcomes)]
<1> DEFINE f == [t \in S |-> OutcomeRank[outcomes[t]]]
<1>1. \A t \in S : f[t] \in Int /\ f[t] = OutcomeRank[outcomes[t]]
  BY RankType
<1> HIDE DEF f
<1>2. PICK m \in S : \A t \in S : f[t] <= f[m]
  BY <1>1, MaximumExists
<1>3. \A p \in Range(outcomes) : OutcomeRank[p] <= OutcomeRank[outcomes[m]]
  BY <1>1, <1>2 DEF Range
<1>4. outcomes[m] \in Range(outcomes) /\ outcomes[s] \in Range(outcomes)
  BY DEF Range
<1>5. /\ Aggregate(outcomes) \in Range(outcomes)
      /\ \A p \in Range(outcomes) : OutcomeRank[p] <= OutcomeRank[Aggregate(outcomes)]
  BY <1>3, <1>4, Zenon DEF Aggregate
<1>6. Range(outcomes) \subseteq OutcomeNames
  BY DEF Range
<1> QED BY <1>4, <1>5, <1>6

LEMMA OutcomeTypes ==
  ASSUME NEW s, NEW j
  PROVE  /\ OutcomeOf(s, j) \in OutcomeNames
         /\ s \in j.authority /\ s \notin j.superseded /\ s \in j.starving =>
              OutcomeOf(s, j) \in {"STARVATION_RISK", "BLOCKED_BY_STRONGER_OBLIGATION"}
BY DEF OutcomeOf, OutcomeNames

\* A subject whose streak has reached its threshold is reported.
LEMMA PlanReports ==
  ASSUME TypeInv, NEW e \in EvidenceUnder[installed], NEW w
  PROVE  LET d == PlanOn(e, w)
         IN \A s \in d.authority :
              Policy.subjects[s].starvation_windows > 0
                /\ d.unserved_streak[s] >= Policy.subjects[s].starvation_windows
              => /\ d.outcomes[s] \in {"STARVATION_RISK", "BLOCKED_BY_STRONGER_OBLIGATION"}
                 /\ OutcomeRank[d.outcome] >= OutcomeRank["STARVATION_RISK"]
<1> DEFINE authority == HasAuthority(e)
           r == Reading(e, authority)
           ent == Entitlements[installed][WholeOf(e)]
           d == PlanOn(e, w)
<1>1. d = Plan(r, w, ent)
  <2>1. r.served = Served(e, authority)
    BY DEF Reading
  <2> QED BY <2>1 DEF PlanOn, PlanFrom, WholeOf
<1>2. /\ d.authority = authority /\ d.unserved_streak = UnservedStreak(e, authority)
      /\ d.outcome = Aggregate(d.outcomes)
      /\ \E j : /\ d.outcomes = [s \in Subjects |-> OutcomeOf(s, j)]
                /\ j.superseded = Superseded(e) /\ j.authority = authority
                /\ j.starving = StarvingIn(r)
  <2>1. PlanShape(e, authority, w, ent, d)
    BY <1>1, PlanFields
  <2> HIDE DEF d, authority, ent
  <2> QED BY <2>1, Zenon DEF PlanShape
<1>3. /\ authority \in SUBSET Subjects /\ authority \cap Superseded(e) = {}
      /\ DOMAIN UnservedStreak(e, authority) = authority
  BY ReadingFacts
<1>4. r.unserved_streak = UnservedStreak(e, authority)
  BY DEF Reading
<1> HIDE DEF authority, r, ent, d
<1>5. SUFFICES ASSUME NEW s \in authority, Policy.subjects[s].starvation_windows > 0,
                      UnservedStreak(e, authority)[s] >= Policy.subjects[s].starvation_windows
               PROVE  /\ d.outcomes[s] \in {"STARVATION_RISK", "BLOCKED_BY_STRONGER_OBLIGATION"}
                      /\ OutcomeRank[d.outcome] >= OutcomeRank["STARVATION_RISK"]
  BY <1>2 DEF d
<1>6. s \in StarvingIn(r)
  BY <1>3, <1>4, <1>5 DEF StarvingIn, Starving
<1>7. PICK j : /\ d.outcomes = [t \in Subjects |-> OutcomeOf(t, j)]
               /\ j.superseded = Superseded(e) /\ j.authority = authority
               /\ j.starving = StarvingIn(r)
  BY <1>2
<1>8. s \in Subjects /\ s \in j.authority /\ s \notin j.superseded /\ s \in j.starving
  BY <1>3, <1>6, <1>7
<1>9. /\ DOMAIN d.outcomes = Subjects
      /\ \A t \in Subjects : d.outcomes[t] = OutcomeOf(t, j)
  BY <1>7
<1>10. \A t \in Subjects : d.outcomes[t] \in OutcomeNames
  BY <1>9, OutcomeTypes
<1>11. d.outcomes[s] \in {"STARVATION_RISK", "BLOCKED_BY_STRONGER_OBLIGATION"}
  BY <1>8, <1>9, OutcomeTypes
<1>12. d.outcome \in OutcomeNames /\ OutcomeRank[d.outcomes[s]] <= OutcomeRank[d.outcome]
  <2>1. IsFiniteSet(Subjects)
    BY PolicyFacts
  <2>2. /\ Aggregate(d.outcomes) \in OutcomeNames
        /\ OutcomeRank[d.outcomes[s]] <= OutcomeRank[Aggregate(d.outcomes)]
    BY <1>8, <1>9, <1>10, <2>1, AggregateWorst
  <2> QED BY <1>2, <2>2
<1>13. OutcomeRank[d.outcome] \in Int
  BY <1>12, RankType
<1> QED BY <1>11, <1>12, <1>13 DEF OutcomeRank

\* The groups of a plan add up, level by level.
LEMMA PlanGroups ==
  ASSUME TypeInv, NEW e \in EvidenceUnder[installed], NEW w, WholeOf(e) <= MaxService
  PROVE  LET d == PlanOn(e, w)
             children(g) == {h \in DOMAIN Policy.groups : Policy.groups[h].parent = g}
             direct(g)   == {s \in Subjects : Policy.subjects[s].group = g}
         IN /\ \A g \in DOMAIN Policy.groups :
                 d.group_served[g] = SumFunctionOnSet(d.served, direct(g))
                                       + SumFunctionOnSet(d.group_served, children(g))
            /\ SumFunctionOnSet(d.group_served, children(NoParent)) = Sum(d.served)
            /\ SumFunctionOnSet(d.group_entitlement, children(NoParent)) = Sum(d.served)
<1> DEFINE authority == HasAuthority(e)
           r == Reading(e, authority)
           whole == WholeOf(e)
           ent == Entitlements[installed][whole]
           served == Served(e, authority)
           d == PlanOn(e, w)
           total == RollUp(served)
           G == DOMAIN Policy.groups
           children(g) == {h \in G : Policy.groups[h].parent = g}
           direct(g)   == {s \in Subjects : Policy.subjects[s].group = g}
<1>1. d = Plan(r, w, ent)
  <2>1. r.served = served
    BY DEF Reading
  <2> QED BY <2>1 DEF PlanOn, PlanFrom, WholeOf
<1>2. d.served = served /\ d.group_entitlement = GroupParts(ent) /\ d.group_served = total
  <2>1. PlanShape(e, authority, w, ent, d)
    BY <1>1, PlanFields
  <2> HIDE DEF d, authority, ent
  <2> QED BY <2>1, Zenon DEF PlanShape
<1>3. served \in [Subjects -> Nat]
  BY ReadingFacts
<1>4. whole \in Nat /\ whole <= MaxService /\ whole = Sum(served)
  BY WholeType DEF WholeOf
<1>5. /\ \A n \in Nodes(Policy) : ent[n] \in Nat
      /\ SumFunctionOnSet(ent, Children(Policy, NoParent)) = whole
  BY <1>4, EntitledTo
<1>6. Forest(Policy) /\ IsFiniteSet(Subjects)
  BY PolicyFacts
<1> HIDE DEF authority, r, whole, ent, served, d, total
<1>7. \A g \in G : g # NoParent /\ g \in Levels(Policy) /\ total[g] = SumFunctionOnSet(served, Inside(Policy, g))
  <2>1. \A g \in G : g # NoParent /\ g \in Levels(Policy)
    BY <1>6, ForestShape
  <2>2. \A g \in G : total[g] = SumFunctionOnSet(served, {s \in Subjects : g \in Chain(Policy, Policy.subjects[s].group)})
    BY DEF total, RollUp
  <2>3. \A g \in G : Inside(Policy, g) = {s \in Subjects : g \in Chain(Policy, Policy.subjects[s].group)}
    BY <2>1, Zenon DEF Inside, Subjects
  <2> QED BY <2>1, <2>2, <2>3
<1>8. \A s \in DOMAIN Policy.subjects : served[s] \in Int
  BY <1>3 DEF Subjects
<1>9. \A g \in Levels(Policy) :
        SumFunctionOnSet(served, Inside(Policy, g)) =
          SumFunctionOnSet(served, direct(g)) + SumFunctionOnSet(total, children(g))
  <2>1. \A g \in G : total[g] = SumFunctionOnSet(served, Inside(Policy, g))
    BY <1>7
  <2> QED BY <1>6, <1>8, <2>1, RollsUp DEF Subjects
<1>10. \A g \in G : total[g] = SumFunctionOnSet(served, direct(g)) + SumFunctionOnSet(total, children(g))
  BY <1>7, <1>9
<1>11. direct(NoParent) = {} /\ children(NoParent) \in SUBSET G /\ IsFiniteSet(children(NoParent))
  <2>1. \A s \in Subjects : Policy.subjects[s].group # NoParent
    BY <1>6 DEF Forest, ValidPolicy, PolicyType, Subjects
  <2>2. IsFiniteSet(G)
    BY <1>6 DEF Forest, PolicyType
  <2> QED BY <2>1, <2>2, FS_Subset
<1>12. SumFunctionOnSet(total, children(NoParent)) = whole
  <2>1. NoParent \in Levels(Policy) /\ Inside(Policy, NoParent) = Subjects
    BY <1>6, ForestShape DEF Inside, Subjects
  <2>2. SumFunctionOnSet(served, Subjects) =
          SumFunctionOnSet(served, {}) + SumFunctionOnSet(total, children(NoParent))
    BY <1>9, <1>11, <2>1
  <2>3. SumFunctionOnSet(served, {}) = 0 /\ SumFunctionOnSet(served, Subjects) = whole
    BY <1>3, <1>4, SumEmpty DEF Sum
  <2>4. SumFunctionOnSet(total, children(NoParent)) \in Int
    <3>1. \A g \in G : total[g] \in Int
      <4>1. \A g \in G : Inside(Policy, g) \in SUBSET Subjects
        BY <1>7 DEF Inside, Subjects
      <4>2. \A g \in G : IsFiniteSet(Inside(Policy, g)) /\ \A s \in Inside(Policy, g) : served[s] \in Int
        BY <1>3, <1>6, <4>1, FS_Subset
      <4> QED BY <1>7, <4>2, SumInt
    <3> HIDE DEF G, children
    <3>2. \A g \in children(NoParent) : total[g] \in Int
      BY <1>11, <3>1
    <3> QED BY <1>11, <3>2, SumInt
  <2> HIDE DEF children
  <2> QED BY <2>2, <2>3, <2>4
<1>13. SumFunctionOnSet(GroupParts(ent), children(NoParent)) = whole
  <2>1. Children(Policy, NoParent) = children(NoParent)
    <3>1. \A s \in DOMAIN Policy.subjects : s \notin G /\ Policy.subjects[s].group # NoParent
      BY <1>6, ForestShape DEF Forest, ValidPolicy, PolicyType
    <3> QED BY <3>1 DEF Children, Nodes, Parent
  <2>2. \A g \in children(NoParent) : ent[g] \in Int /\ GroupParts(ent)[g] = ent[g]
    BY <1>5 DEF GroupParts, Nodes
  <2> HIDE DEF children
  <2>3. SumFunctionOnSet(ent, children(NoParent)) = SumFunctionOnSet(GroupParts(ent), children(NoParent))
    BY <1>11, <2>2, SumSame
  <2> QED BY <1>5, <2>1, <2>3
<1> QED BY <1>2, <1>4, <1>10, <1>12, <1>13 DEF d

-------------------------------------------------------------------------------
(* What a commit makes of a decision.                                      *)

\* The carry of an entry, discarded units included: owed less in credit.
Net(n) == (n.cumulative_deficit + n.discarded_deficit) - (n.cumulative_surplus + n.discarded_surplus)

CarryType(n) ==
  /\ n.cumulative_deficit \in Nat /\ n.cumulative_surplus \in Nat
  /\ n.discarded_deficit \in Nat /\ n.discarded_surplus \in Nat

\* A window moves the net by exactly what it left owing, and the carry is bounded.
LEMMA CarryMoves ==
  ASSUME NEW n, CarryType(n), NEW net \in Int, NEW bound \in Nat
  PROVE  LET c == Saturate(Recognize(n, net), bound)
         IN /\ CarryType(c) /\ Net(c) = Net(n) + net
            /\ c.cumulative_deficit <= bound /\ c.cumulative_surplus <= bound
<1> DEFINE m == Recognize(n, net)
           c == Saturate(m, bound)
<1>1. CarryType(m) /\ Net(m) = Net(n) + net
  <2>1. CASE net >= 0
    <3>1. Least(net, n.cumulative_surplus) \in Nat /\ Least(net, n.cumulative_surplus) <= net
          /\ Least(net, n.cumulative_surplus) <= n.cumulative_surplus
      BY <2>1 DEF Least, CarryType
    <3> QED BY <2>1, <3>1 DEF Recognize, Net, CarryType
  <2>2. CASE ~(net >= 0)
    <3>1. Least(-net, n.cumulative_deficit) \in Nat /\ Least(-net, n.cumulative_deficit) <= -net
          /\ Least(-net, n.cumulative_deficit) <= n.cumulative_deficit
      BY <2>2 DEF Least, CarryType
    <3> DEFINE debit == Least(-net, n.cumulative_deficit)
    <3>2. /\ m.cumulative_deficit = n.cumulative_deficit - debit
          /\ m.cumulative_surplus = n.cumulative_surplus + (-net - debit)
          /\ m.discarded_deficit = n.discarded_deficit /\ m.discarded_surplus = n.discarded_surplus
      BY <2>2 DEF Recognize
    <3> HIDE DEF debit, m
    <3>3. debit \in Nat /\ debit <= -net /\ debit <= n.cumulative_deficit
      BY <3>1 DEF debit
    <3> QED BY <2>2, <3>2, <3>3 DEF Net, CarryType
  <2> QED BY <2>1, <2>2
<1> HIDE DEF m
<1>2. \A a \in Nat : /\ Least(a, bound) \in Nat /\ Excess(a, bound) \in Nat
                     /\ Least(a, bound) + Excess(a, bound) = a /\ Least(a, bound) <= bound
  BY DEF Least, Excess
<1>3. CarryType(c) /\ Net(c) = Net(m) /\ c.cumulative_deficit <= bound /\ c.cumulative_surplus <= bound
  <2>1. /\ c.cumulative_deficit = Least(m.cumulative_deficit, bound)
        /\ c.cumulative_surplus = Least(m.cumulative_surplus, bound)
        /\ c.discarded_deficit = m.discarded_deficit + Excess(m.cumulative_deficit, bound)
        /\ c.discarded_surplus = m.discarded_surplus + Excess(m.cumulative_surplus, bound)
    BY DEF Saturate
  <2> HIDE DEF c
  <2>2. /\ m.cumulative_deficit \in Nat /\ m.cumulative_surplus \in Nat
        /\ m.discarded_deficit \in Nat /\ m.discarded_surplus \in Nat
    BY <1>1 DEF CarryType
  <2>3. /\ c.cumulative_deficit \in Nat /\ c.cumulative_surplus \in Nat
        /\ c.cumulative_deficit <= bound /\ c.cumulative_surplus <= bound
    BY <1>2, <2>1, <2>2
  <2>4. /\ c.discarded_deficit \in Nat
        /\ c.cumulative_deficit + c.discarded_deficit = m.cumulative_deficit + m.discarded_deficit
    <3> DEFINE a == m.cumulative_deficit
               kept == Least(a, bound)
               cut == Excess(a, bound)
    <3>1. a \in Nat /\ m.discarded_deficit \in Nat /\ c.cumulative_deficit = kept
          /\ c.discarded_deficit = m.discarded_deficit + cut
      BY <2>1, <2>2
    <3>2. kept \in Nat /\ cut \in Nat /\ kept + cut = a
      BY <1>2, <2>2
    <3> HIDE DEF kept, cut
    <3> QED BY <3>1, <3>2
  <2>5. /\ c.discarded_surplus \in Nat
        /\ c.cumulative_surplus + c.discarded_surplus = m.cumulative_surplus + m.discarded_surplus
    <3> DEFINE a == m.cumulative_surplus
               kept == Least(a, bound)
               cut == Excess(a, bound)
    <3>1. a \in Nat /\ m.discarded_surplus \in Nat /\ c.cumulative_surplus = kept
          /\ c.discarded_surplus = m.discarded_surplus + cut
      BY <2>1, <2>2
    <3>2. kept \in Nat /\ cut \in Nat /\ kept + cut = a
      BY <1>2, <2>2
    <3> HIDE DEF kept, cut
    <3> QED BY <3>1, <3>2
  <2> QED BY <2>3, <2>4, <2>5 DEF CarryType, Net
<1>4. Net(c) = Net(n) + net
  BY <1>1, <1>3
<1> QED BY <1>3, <1>4 DEF m

\* The newest generation given out.
Newest(d) == Max({intervention} \cup {i.generation : i \in d.intents})

LEMMA NewestFacts ==
  ASSUME TypeInv, NEW d, SoundPlan(d)
  PROVE  /\ Newest(d) \in Nat /\ Newest(d) >= intervention
         /\ \A i \in d.intents : i.generation <= Newest(d)
<1> DEFINE f == [i \in d.intents |-> i.generation]
           I == {f[i] : i \in d.intents}
           S == {intervention} \cup I
<1>1. IsFiniteSet(d.intents) /\ (\A i \in d.intents : i.generation \in Nat) /\ intervention \in Nat
  BY DEF SoundPlan, TypeInv
<1>2. {i.generation : i \in d.intents} = I
  OBVIOUS
<1>3. \A i \in d.intents : f[i] \in Nat /\ f[i] = i.generation
  BY <1>1
<1> HIDE DEF f
<1>4. IsFiniteSet(I) /\ I \subseteq Nat /\ \A i \in d.intents : i.generation \in I
  BY <1>1, <1>3, FiniteImage
<1> HIDE DEF I
<1>5. IsFiniteSet(S) /\ S \subseteq Int /\ S # {}
  <2>1. S = I \cup {intervention}
    OBVIOUS
  <2>2. IsFiniteSet(I \cup {intervention})
    BY <1>4, FS_AddElement
  <2>3. S \subseteq Int /\ S # {}
    BY <1>1, <1>4
  <2> QED BY <2>1, <2>2, <2>3
<1>6. Max(S) \in S /\ \A x \in S : x <= Max(S)
  <2> HIDE DEF S
  <2> QED BY <1>5, MaxOf
<1>7. Newest(d) = Max(S)
  BY <1>2 DEF Newest
<1> QED BY <1>1, <1>4, <1>6, <1>7

\* The accounting agrees with the history of what was observed and corrected.
Links ==
  /\ \A s \in DOMAIN accounting :
       /\ accounting[s].unserved_streak >= Least(unservedRun[s], kStreakSaturation)
       /\ accounting[s].last_correction_window = lastCorrected[s]
       /\ accounting[s].last_correction_window <= lastWindow
       /\ accounting[s].last_correction_generation <= intervention
  /\ \A s \in Population \ DOMAIN accounting : unservedRun[s] = 0 /\ lastCorrected[s] = 0

LEMMA EntryLinks ==
  ASSUME TypeInv, Links, NEW s \in Population
  PROVE  /\ Entry(s).unserved_streak >= Least(unservedRun[s], kStreakSaturation)
         /\ Entry(s).last_correction_window = lastCorrected[s]
         /\ Entry(s).last_correction_window <= lastWindow
         /\ Entry(s).last_correction_generation <= intervention
<1>1. CASE s \in DOMAIN accounting
  BY <1>1 DEF Links, Entry
<1>2. CASE s \notin DOMAIN accounting
  BY <1>2, ConstantTypes DEF Links, Entry, NewEntry, TypeInv, Least
<1> QED BY <1>1, <1>2

\* The correction an entry remembers is that of the newest intent for it.
LEMMA CorrectionRemembered ==
  ASSUME TypeInv, Links, NEW d, SoundPlan(d), NEW s \in d.authority
  PROVE  LET c == Correction(d, s)
         IN /\ DOMAIN c = {"last_correction_window", "last_correction_generation"}
            /\ c.last_correction_window \in Nat /\ c.last_correction_generation \in Nat
            /\ c.last_correction_window = IF IntentsFor(d, s) # {} THEN d.window ELSE lastCorrected[s]
            /\ c.last_correction_window <= d.window
            /\ c.last_correction_generation <= Newest(d)
<1> DEFINE last == Entry(s).last_correction_generation
           J == {j \in IntentsFor(d, s) : j.generation > last}
           newer == {i.generation : i \in J}
           f == [i \in J |-> i.generation]
<1>1. /\ s \in Population /\ d.window \in Nat /\ d.window > lastWindow
      /\ IsFiniteSet(d.intents) /\ intervention \in Nat /\ lastWindow \in Nat
      /\ \A i \in d.intents : i.generation \in Nat /\ i.generation > intervention
  BY PolicyFacts DEF SoundPlan, TypeInv
<1>2. /\ last \in Nat /\ last <= intervention
      /\ Entry(s).last_correction_window \in Nat /\ Entry(s).last_correction_window = lastCorrected[s]
      /\ Entry(s).last_correction_window <= lastWindow
  BY <1>1, EntryTyped, EntryLinks DEF EntryType
<1>3. \A i \in d.intents : i.generation <= Newest(d)
  BY NewestFacts
<1>4. Newest(d) \in Nat /\ Newest(d) >= intervention
  BY NewestFacts
<1>5. J = IntentsFor(d, s) /\ J \in SUBSET d.intents
  BY <1>1, <1>2 DEF IntentsFor
<1>6. CASE J = {}
  <2>1. newer = {}
    BY <1>6
  <2>2. Correction(d, s) = [last_correction_window |-> Entry(s).last_correction_window,
                            last_correction_generation |-> last]
    BY <2>1 DEF Correction
  <2> HIDE DEF last, J
  <2> QED BY <1>1, <1>2, <1>4, <1>5, <1>6, <2>2
<1>7. CASE J # {}
  <2>1. newer # {}
    BY <1>7
  <2>2. Correction(d, s) = [last_correction_window |-> d.window,
                            last_correction_generation |-> Max(newer)]
    BY <2>1 DEF Correction
  <2>3. newer = {f[i] : i \in J} /\ \A x \in newer : x \in Nat /\ x <= Newest(d)
    BY <1>1, <1>3, <1>5
  <2>4. IsFiniteSet(J)
    BY <1>1, <1>5, FS_Subset
  <2> HIDE DEF last, J, f, newer
  <2>5. IsFiniteSet(newer) /\ newer \subseteq Int
    BY <2>3, <2>4, FiniteImage
  <2>6. Max(newer) \in newer
    BY <2>1, <2>5, MaxOf
  <2> QED BY <1>1, <1>5, <1>7, <2>2, <2>3, <2>6
<1> QED BY <1>6, <1>7

\* The entry that commit leaves for a subject with authority.
FoldedWell(d, s, n) ==
  /\ EntryType(n)
  /\ Net(n) = Net(Entry(s)) + (d.entitlement[s] - d.served[s])
  /\ n.cumulative_deficit <= kMaxCarryUnits /\ n.cumulative_surplus <= kMaxCarryUnits
  /\ n.unserved_streak = d.unserved_streak[s] /\ n.below_floor_streak = d.below_floor_streak[s]
  /\ n.last_correction_window = IF IntentsFor(d, s) # {} THEN d.window ELSE lastCorrected[s]
  /\ n.last_correction_window <= d.window /\ n.last_correction_generation <= Newest(d)

LEMMA FoldedFacts ==
  ASSUME TypeInv, Links, NEW d, SoundPlan(d), NEW s \in d.authority
  PROVE  FoldedWell(d, s, Folded(d, s))
<1> DEFINE old == Entry(s)
           net == d.entitlement[s] - d.served[s]
           carry == Saturate(Carried(d, s), Policy.max_carry_units)
           c == Correction(d, s)
           rest == [generation |-> old.generation, unserved_streak |-> d.unserved_streak[s],
                    below_floor_streak |-> d.below_floor_streak[s]]
           n == Folded(d, s)
           C == {"cumulative_deficit", "cumulative_surplus", "discarded_deficit", "discarded_surplus"}
<1>1. /\ s \in Subjects /\ net \in Int
      /\ d.unserved_streak[s] \in Nat /\ d.below_floor_streak[s] \in Nat
  BY ConstantTypes DEF SoundPlan
<1>2. CarryType(old)
  BY EntryTyped DEF EntryType, CarryType
<1>3. /\ Policy.max_carry_units \in Nat /\ Policy.max_carry_units <= kMaxCarryUnits /\ kMaxCarryUnits \in Nat
  BY PolicyFacts, ConstantTypes
<1>4. carry = Saturate(Recognize(old, net), Policy.max_carry_units) /\ DOMAIN carry = C
  BY DEF Carried, Saturate
<1> HIDE DEF carry, old, net
<1>5. /\ CarryType(carry) /\ Net(carry) = Net(old) + net
      /\ carry.cumulative_deficit <= Policy.max_carry_units
      /\ carry.cumulative_surplus <= Policy.max_carry_units
  BY <1>1, <1>2, <1>3, <1>4, CarryMoves
<1>6. /\ DOMAIN c = {"last_correction_window", "last_correction_generation"}
      /\ c.last_correction_window \in Nat /\ c.last_correction_generation \in Nat
      /\ c.last_correction_window = IF IntentsFor(d, s) # {} THEN d.window ELSE lastCorrected[s]
      /\ c.last_correction_window <= d.window
      /\ c.last_correction_generation <= Newest(d)
  BY CorrectionRemembered
<1>7. n = Joined(carry, Joined(c, rest))
  BY DEF Folded, carry, old
<1>8. /\ DOMAIN rest = {"generation", "unserved_streak", "below_floor_streak"}
      /\ rest["unserved_streak"] = d.unserved_streak[s]
      /\ rest["below_floor_streak"] = d.below_floor_streak[s]
  OBVIOUS
<1> HIDE DEF c, rest, n
<1> DEFINE k == Joined(c, rest)
<1>9. /\ DOMAIN k = DOMAIN c \cup DOMAIN rest
      /\ \A x \in DOMAIN c : k[x] = c[x]
      /\ \A x \in DOMAIN rest : x \notin DOMAIN c => k[x] = rest[x]
  BY JoinedFields, Zenon
<1> HIDE DEF k
<1>10. /\ \A x \in DOMAIN carry : n[x] = carry[x]
       /\ \A x \in DOMAIN k : x \notin DOMAIN carry => n[x] = k[x]
  <2>1. n = Joined(carry, k)
    BY <1>7 DEF k
  <2>2. /\ \A x \in DOMAIN carry : Joined(carry, k)[x] = carry[x]
        /\ \A x \in DOMAIN k : x \notin DOMAIN carry => Joined(carry, k)[x] = k[x]
    BY JoinedFields, Zenon
  <2> QED BY <2>1, <2>2, Zenon
<1>11. /\ n["cumulative_deficit"] = carry["cumulative_deficit"]
       /\ n["cumulative_surplus"] = carry["cumulative_surplus"]
       /\ n["discarded_deficit"] = carry["discarded_deficit"]
       /\ n["discarded_surplus"] = carry["discarded_surplus"]
  BY <1>4, <1>10
<1>12. /\ n["last_correction_window"] = c["last_correction_window"]
       /\ n["last_correction_generation"] = c["last_correction_generation"]
       /\ n["unserved_streak"] = rest["unserved_streak"]
       /\ n["below_floor_streak"] = rest["below_floor_streak"]
  BY <1>4, <1>6, <1>8, <1>9, <1>10
<1>13. CarryType(n) /\ Net(n) = Net(old) + net
  BY <1>5, <1>11 DEF CarryType, Net
<1>14. EntryType(n)
  BY <1>1, <1>6, <1>8, <1>12, <1>13 DEF CarryType, EntryType
<1>15. n.cumulative_deficit <= kMaxCarryUnits /\ n.cumulative_surplus <= kMaxCarryUnits
  BY <1>3, <1>5, <1>11 DEF CarryType
<1> QED BY <1>6, <1>8, <1>12, <1>13, <1>14, <1>15 DEF FoldedWell, n, old, net

LEMMA SumZero ==
  ASSUME NEW f, NEW S, IsFiniteSet(S), \A x \in S : f[x] = 0
  PROVE  SumFunctionOnSet(f, S) = 0
<1>1. \A x \in S : f[x] \in Int /\ f[x] = f[x] + f[x]
  OBVIOUS
<1>2. SumFunctionOnSet(f, S) \in Int
  BY <1>1, SumInt
<1> DEFINE total == SumFunctionOnSet(f, S)
<1>3. total = total + total
  BY <1>1, SumPointwise
<1> HIDE DEF total
<1>4. total \in Int
  BY <1>2 DEF total
<1>5. total = 0
  BY <1>3, <1>4
<1> QED BY <1>5 DEF total

\* What PopulationCancels asks of a record of entries.
Cancels(acc) ==
  Sum([s \in DOMAIN acc |-> acc[s].cumulative_deficit + acc[s].discarded_deficit])
    = Sum([s \in DOMAIN acc |-> acc[s].cumulative_surplus + acc[s].discarded_surplus])

LEMMA NetCancels ==
  ASSUME NEW acc, NEW D, D = DOMAIN acc, IsFiniteSet(D), \A s \in D : CarryType(acc[s]),
         NEW net, \A s \in D : net[s] = Net(acc[s])
  PROVE  Cancels(acc) <=> SumFunctionOnSet(net, D) = 0
<1> DEFINE owed == [s \in D |-> acc[s].cumulative_deficit + acc[s].discarded_deficit]
           credit == [s \in D |-> acc[s].cumulative_surplus + acc[s].discarded_surplus]
<1>1. Cancels(acc) <=> SumFunctionOnSet(owed, D) = SumFunctionOnSet(credit, D)
  BY DEF Cancels, Sum
<1>2. \A s \in D : owed[s] \in Int /\ credit[s] \in Int /\ net[s] \in Int /\ owed[s] = credit[s] + net[s]
  BY DEF CarryType, Net
<1> HIDE DEF owed, credit
<1>3. SumFunctionOnSet(owed, D) = SumFunctionOnSet(credit, D) + SumFunctionOnSet(net, D)
  BY <1>2, SumPointwise
<1>4. SumFunctionOnSet(credit, D) \in Int /\ SumFunctionOnSet(net, D) \in Int
  BY <1>2, SumInt
<1> QED BY <1>1, <1>3, <1>4

LEMMA TouchedEntries ==
  ASSUME TypeInv, Links, NEW d, SoundPlan(d)
  PROVE  /\ DOMAIN Touched(d) = DOMAIN accounting \cup d.authority
         /\ IsFiniteSet(DOMAIN accounting \cup d.authority)
         /\ \A s \in d.authority : FoldedWell(d, s, Touched(d)[s])
         /\ \A s \in DOMAIN accounting \ d.authority : Touched(d)[s] = accounting[s]
         /\ \A s \in DOMAIN Touched(d) : EntryType(Touched(d)[s]) /\ CarryType(Touched(d)[s])
<1> DEFINE D == DOMAIN accounting
           A == d.authority
<1>1. DOMAIN Touched(d) = D \cup A
  BY DEF Touched
<1>2. \A s \in A : Touched(d)[s] = Folded(d, s)
  BY DEF Touched
<1>3. \A s \in D \ A : Touched(d)[s] = accounting[s]
  BY DEF Touched
<1>4. \A s \in A : FoldedWell(d, s, Touched(d)[s])
  BY <1>2, FoldedFacts
<1>5. \A s \in A : EntryType(Touched(d)[s])
  BY <1>4 DEF FoldedWell
<1>6. \A s \in D \ A : EntryType(Touched(d)[s])
  BY <1>3 DEF TypeInv
<1>7. \A s \in D \cup A : EntryType(Touched(d)[s])
  BY <1>5, <1>6
<1>8. IsFiniteSet(D) /\ IsFiniteSet(A)
  BY PolicyFacts, FS_Subset DEF TypeInv, SoundPlan
<1>9. IsFiniteSet(D \cup A)
  BY <1>8, FS_Union
<1> QED BY <1>1, <1>3, <1>4, <1>7, <1>9 DEF EntryType, CarryType

\* A window that everyone was observed in moves the carry, and adds none.
LEMMA TouchedCancels ==
  ASSUME TypeInv, Links, NEW d, SoundPlan(d), d.authority = Subjects, Cancels(accounting)
  PROVE  Cancels(Touched(d))
<1> DEFINE D == DOMAIN accounting
           U == D \cup Subjects
           before == [s \in U |-> Net(Entry(s))]
           after == [s \in U |-> Net(Touched(d)[s])]
           delta == [s \in U |-> IF s \in Subjects THEN d.entitlement[s] - d.served[s] ELSE 0]
<1>1. /\ DOMAIN Touched(d) = U /\ IsFiniteSet(U)
      /\ \A s \in Subjects : FoldedWell(d, s, Touched(d)[s])
      /\ \A s \in D \ Subjects : Touched(d)[s] = accounting[s]
      /\ \A s \in U : CarryType(Touched(d)[s])
  BY TouchedEntries
<1>2. IsFiniteSet(D) /\ IsFiniteSet(Subjects) /\ IsFiniteSet(U \ D) /\ IsFiniteSet(U \ Subjects)
  BY <1>1, PolicyFacts, FS_Subset DEF TypeInv
<1>3. /\ d.served \in [Subjects -> Nat] /\ d.entitlement \in [Subjects -> Nat]
      /\ Sum(d.entitlement) = Sum(d.served)
  BY DEF SoundPlan
<1>4. \A s \in U : CarryType(Entry(s))
  BY EntryTyped DEF EntryType, CarryType
<1>5. \A s \in U : before[s] \in Int /\ delta[s] \in Int /\ after[s] = before[s] + delta[s]
  <2>1. ASSUME NEW s \in Subjects
        PROVE  before[s] \in Int /\ delta[s] \in Int /\ after[s] = before[s] + delta[s]
    <3>1. /\ before[s] = Net(Entry(s)) /\ after[s] = Net(Touched(d)[s])
          /\ delta[s] = d.entitlement[s] - d.served[s]
      OBVIOUS
    <3>2. Net(Touched(d)[s]) = Net(Entry(s)) + (d.entitlement[s] - d.served[s])
      BY <1>1 DEF FoldedWell
    <3>3. Net(Entry(s)) \in Int
      BY <1>4 DEF CarryType, Net
    <3> QED BY <1>3, <3>1, <3>2, <3>3
  <2>2. ASSUME NEW s \in D \ Subjects
        PROVE  before[s] \in Int /\ delta[s] \in Int /\ after[s] = before[s] + delta[s]
    <3>1. before[s] = Net(Entry(s)) /\ after[s] = Net(Touched(d)[s]) /\ delta[s] = 0
      OBVIOUS
    <3>2. Touched(d)[s] = Entry(s)
      BY <1>1 DEF Entry
    <3>3. Net(Entry(s)) \in Int
      BY <1>4 DEF CarryType, Net
    <3> QED BY <3>1, <3>2, <3>3
  <2> QED BY <2>1, <2>2
<1>6. \A s \in U \ D : before[s] = 0
  BY DEF Entry, NewEntry, Net
<1>7. \A s \in D : CarryType(accounting[s]) /\ before[s] = Net(accounting[s])
  BY <1>4 DEF Entry
<1>8. (\A s \in U \ Subjects : delta[s] = 0) /\ \A s \in Subjects : delta[s] = d.entitlement[s] - d.served[s]
  OBVIOUS
<1>9. \A s \in U : after[s] = Net(Touched(d)[s])
  OBVIOUS
<1> HIDE DEF before, after, delta
<1>10. SumFunctionOnSet(before, U) = 0
  <2>1. SumFunctionOnSet(before, D) = 0
    BY <1>2, <1>7, NetCancels
  <2>2. SumFunctionOnSet(before, U \ D) = 0
    BY <1>2, <1>6, SumZero
  <2>3. U = D \cup (U \ D) /\ D \cap (U \ D) = {} /\ \A s \in D \cup (U \ D) : before[s] \in Int
    BY <1>5
  <2>4. SumFunctionOnSet(before, D \cup (U \ D)) = SumFunctionOnSet(before, D) + SumFunctionOnSet(before, U \ D)
    BY <1>2, <2>3, SumUnion
  <2> QED BY <2>1, <2>2, <2>3, <2>4
<1>11. SumFunctionOnSet(delta, U) = 0
  <2>1. SumFunctionOnSet(delta, Subjects) = 0
    <3>1. \A s \in Subjects : /\ d.served[s] \in Int /\ delta[s] \in Int
                              /\ d.entitlement[s] = d.served[s] + delta[s]
      BY <1>3, <1>8
    <3>2. SumFunctionOnSet(d.entitlement, Subjects)
            = SumFunctionOnSet(d.served, Subjects) + SumFunctionOnSet(delta, Subjects)
      BY <1>2, <3>1, SumPointwise
    <3>3. SumFunctionOnSet(d.entitlement, Subjects) = SumFunctionOnSet(d.served, Subjects)
      BY <1>3 DEF Sum
    <3>4. SumFunctionOnSet(d.served, Subjects) \in Int /\ SumFunctionOnSet(delta, Subjects) \in Int
      BY <1>2, <3>1, SumInt
    <3> QED BY <3>2, <3>3, <3>4
  <2>2. SumFunctionOnSet(delta, U \ Subjects) = 0
    BY <1>2, <1>8, SumZero
  <2>3. /\ U = Subjects \cup (U \ Subjects) /\ Subjects \cap (U \ Subjects) = {}
        /\ \A s \in Subjects \cup (U \ Subjects) : delta[s] \in Int
    BY <1>5
  <2>4. SumFunctionOnSet(delta, Subjects \cup (U \ Subjects))
          = SumFunctionOnSet(delta, Subjects) + SumFunctionOnSet(delta, U \ Subjects)
    BY <1>2, <2>3, SumUnion
  <2> QED BY <2>1, <2>2, <2>3, <2>4
<1>12. SumFunctionOnSet(after, U) = 0
  <2>1. SumFunctionOnSet(after, U) = SumFunctionOnSet(before, U) + SumFunctionOnSet(delta, U)
    BY <1>1, <1>5, SumPointwise
  <2> QED BY <1>10, <1>11, <2>1
<1> QED
  <2> DEFINE T == Touched(d)
  <2> HIDE DEF T, U
  <2>1. DOMAIN T = U /\ IsFiniteSet(U) /\ (\A s \in U : CarryType(T[s])) /\ \A s \in U : after[s] = Net(T[s])
    BY <1>1, <1>9 DEF T
  <2>2. Cancels(T)
    BY <1>12, <2>1, NetCancels
  <2> QED BY <2>2 DEF T

-------------------------------------------------------------------------------
(* The inductive invariant.                                                *)

\* What is known of a decision that may be committed.
GoodPlan(d) ==
  /\ SoundPlan(d)
  /\ Sum(d.augment) = d.authorized /\ Sum(d.reduce) = d.authorized
  /\ \A s \in Subjects : Policy.subjects[s].protected /\ d.reduce[s] > 0 =>
       d.served[s] - d.reduce[s] >= Policy.subjects[s].floor
  /\ \A s \in d.starving : \A t \in Subjects \ d.starving :
       d.augment[s] < d.demand[s] => d.augment[t] = 0
  /\ \A s \in d.authority :
       Policy.subjects[s].starvation_windows > 0
         /\ d.unserved_streak[s] >= Policy.subjects[s].starvation_windows
       => /\ d.outcomes[s] \in {"STARVATION_RISK", "BLOCKED_BY_STRONGER_OBLIGATION"}
          /\ OutcomeRank[d.outcome] >= OutcomeRank["STARVATION_RISK"]
  /\ \A s \in Subjects : d.augment[s] > 0 => s \notin Cooling(d.window, d.starving)
  /\ LET children(g) == {h \in DOMAIN Policy.groups : Policy.groups[h].parent = g}
         direct(g)   == {s \in Subjects : Policy.subjects[s].group = g}
     IN /\ \A g \in DOMAIN Policy.groups :
             d.group_served[g] = SumFunctionOnSet(d.served, direct(g))
                                   + SumFunctionOnSet(d.group_served, children(g))
        /\ SumFunctionOnSet(d.group_served, children(NoParent)) = Sum(d.served)
        /\ SumFunctionOnSet(d.group_entitlement, children(NoParent)) = Sum(d.served)

\* Only the decision of the installed policy can be committed, and a policy is
\* never installed again: a decision that is kept over an installation is dead.
PolicyOrder == decision # NoDecision => decision.policy \in Nat /\ decision.policy <= installed

IInv ==
  /\ TypeInv
  /\ Decodable
  /\ Links
  /\ complete => Cancels(accounting)
  /\ PolicyOrder
  /\ Planned => GoodPlan(decision)

LEMMA PlanPolicy ==
  ASSUME NEW e, NEW w
  PROVE  PlanOn(e, w).policy = installed /\ PlanOn(e, w).window = w
<1> DEFINE authority == HasAuthority(e)
           r == Reading(e, authority)
           ent == Entitlements[installed][Sum(r.served)]
<1>1. PlanOn(e, w) = Plan(r, w, ent)
  BY DEF PlanOn, PlanFrom
<1>2. PlanShape(e, authority, w, ent, Plan(r, w, ent))
  BY PlanFields
<1> HIDE DEF authority, r, ent
<1> QED BY <1>1, <1>2, Zenon DEF PlanShape

LEMMA PlanIsGood ==
  ASSUME TypeInv, NEW e \in EvidenceUnder[installed], NEW w \in Nat, w > lastWindow,
         WholeOf(e) <= MaxService
  PROVE  GoodPlan(PlanOn(e, w))
<1> DEFINE d == PlanOn(e, w)
<1>1. SoundPlan(d)
  BY PlanIsSound
<1>2. /\ Sum(d.augment) = d.authorized /\ Sum(d.reduce) = d.authorized
      /\ \A s \in Subjects : Policy.subjects[s].protected /\ d.reduce[s] > 0 =>
           d.served[s] - d.reduce[s] >= Policy.subjects[s].floor
      /\ d.starving \in SUBSET d.authority
      /\ \A s, t \in Subjects :
           s \in d.starving /\ t \notin d.starving /\ d.augment[s] < d.demand[s] => d.augment[t] = 0
      /\ \A s \in Subjects : d.augment[s] > 0 => s \in d.authority /\ s \notin Cooling(w, d.starving)
  BY PlanSpends
<1>3. d.window = w
  BY PlanPolicy
<1>4. d.starving \subseteq Subjects
  BY <1>1, <1>2 DEF SoundPlan
<1>5. \A s \in d.authority :
        Policy.subjects[s].starvation_windows > 0
          /\ d.unserved_streak[s] >= Policy.subjects[s].starvation_windows
        => /\ d.outcomes[s] \in {"STARVATION_RISK", "BLOCKED_BY_STRONGER_OBLIGATION"}
           /\ OutcomeRank[d.outcome] >= OutcomeRank["STARVATION_RISK"]
  BY PlanReports
<1>6. LET children(g) == {h \in DOMAIN Policy.groups : Policy.groups[h].parent = g}
          direct(g)   == {s \in Subjects : Policy.subjects[s].group = g}
      IN /\ \A g \in DOMAIN Policy.groups :
              d.group_served[g] = SumFunctionOnSet(d.served, direct(g))
                                    + SumFunctionOnSet(d.group_served, children(g))
         /\ SumFunctionOnSet(d.group_served, children(NoParent)) = Sum(d.served)
         /\ SumFunctionOnSet(d.group_entitlement, children(NoParent)) = Sum(d.served)
  BY PlanGroups
<1> HIDE DEF d
<1>7. \A s \in d.starving : \A t \in Subjects \ d.starving :
        d.augment[s] < d.demand[s] => d.augment[t] = 0
  BY <1>2, <1>4
<1>8. \A s \in Subjects : d.augment[s] > 0 => s \notin Cooling(d.window, d.starving)
  BY <1>2, <1>3
<1>9. GoodPlan(d)
  BY <1>1, <1>2, <1>5, <1>6, <1>7, <1>8, Zenon DEF GoodPlan
<1> QED BY <1>9 DEF d

\* A plan stays good for the state it was made in.
LEMMA GoodPlanKept ==
  ASSUME GoodPlan(decision'), UNCHANGED <<installed, durable>>
  PROVE  GoodPlan(decision)'
<1>1. /\ installed' = installed /\ accounting' = accounting
      /\ intervention' = intervention /\ lastWindow' = lastWindow
  BY DEF durable
<1>2. Policy' = Policy /\ Subjects' = Subjects
  BY <1>1 DEF Policy, Subjects
<1>3. \A s : Entry(s)' = Entry(s)
  BY <1>1, <1>2 DEF Entry, NewEntry
<1>4. SoundPlan(decision') => SoundPlan(decision)'
  BY <1>1, <1>2, <1>3 DEF SoundPlan
<1>5. \A x, y : Cooling(x, y)' = Cooling(x, y)
  BY <1>2, <1>3 DEF Cooling
<1> QED BY <1>2, <1>4, <1>5 DEF GoodPlan

LEMMA InitIInv == Init => IInv
<1> SUFFICES ASSUME Init PROVE IInv
  OBVIOUS
<1>1. /\ installed = 1 /\ accounting = <<>> /\ DOMAIN accounting = {} /\ intervention = 0 /\ lastWindow = 0
      /\ decision = NoDecision /\ unservedRun = [s \in Population |-> 0]
      /\ lastCorrected = [s \in Population |-> 0] /\ complete = TRUE
  BY DEF Init
<1>2. TypeInv
  BY <1>1, WindowsAssumption, FS_EmptySet DEF TypeInv
<1>3. Decodable
  BY <1>1, ConstantTypes, FS_EmptySet DEF Decodable
<1>4. Links
  BY <1>1 DEF Links
<1>5. Cancels(accounting)
  <2>1. \A f : DOMAIN f = {} => Sum(f) = 0
    BY SumEmpty DEF Sum
  <2> QED BY <1>1, <2>1 DEF Cancels
<1> QED BY <1>1, <1>2, <1>3, <1>4, <1>5 DEF IInv, PolicyOrder, Planned

LEMMA EvaluateIInv == IInv /\ Evaluate => IInv'
<1> SUFFICES ASSUME IInv, Evaluate PROVE IInv'
  OBVIOUS
<1>1. UNCHANGED <<installed, durable, history>>
  BY DEF Evaluate
<1>2. TypeInv /\ installed \in Nat /\ lastWindow \in Nat /\ MaxWindow \in Nat /\ MaxSkip \in Nat
  BY ConstantTypes, PolicyFacts DEF IInv, TypeInv
<1>3. PICK e \in EvidenceUnder[installed],
           w \in (lastWindow + 1)..Least(lastWindow + 1 + MaxSkip, MaxWindow) :
        WholeOf(e) <= MaxService /\ decision' = PlanOn(e, w)
  BY Zenon DEF Evaluate, WholeOf, PlanOn
<1>4. w \in Nat /\ w > lastWindow
  BY <1>2, <1>3 DEF Least
<1>5. GoodPlan(PlanOn(e, w))
  BY <1>2, <1>3, <1>4, PlanIsGood
<1>6. GoodPlan(decision')
  BY <1>3, <1>5
<1>7. GoodPlan(decision)'
  BY <1>1, <1>6, GoodPlanKept
<1>8. decision'.policy = installed
  BY <1>3, PlanPolicy
<1>9. PolicyOrder'
  BY <1>1, <1>2, <1>8 DEF PolicyOrder
<1>10. TypeInv' /\ Decodable' /\ Links' /\ (complete' => Cancels(accounting)')
  BY <1>1 DEF IInv, TypeInv, Decodable, Links, Cancels, durable, history, EntryType
<1> QED BY <1>7, <1>9, <1>10 DEF IInv

LEMMA DiscardIInv == IInv /\ Discard => IInv'
<1> SUFFICES ASSUME IInv, Discard PROVE IInv'
  OBVIOUS
<1>1. decision' = NoDecision /\ UNCHANGED <<installed, durable, history>>
  BY DEF Discard
<1>2. TypeInv' /\ Decodable' /\ Links' /\ (complete' => Cancels(accounting)')
  BY <1>1 DEF IInv, TypeInv, Decodable, Links, Cancels, durable, history, EntryType
<1> QED BY <1>1, <1>2 DEF IInv, PolicyOrder, Planned

LEMMA InstallPolicyIInv == IInv /\ InstallPolicy => IInv'
<1> SUFFICES ASSUME IInv, InstallPolicy PROVE IInv'
  OBVIOUS
<1>1. installed' = installed + 1 /\ installed' \in DOMAIN Policies /\ UNCHANGED <<durable, decision, history>>
  BY DEF InstallPolicy
<1>2. installed \in Nat
  BY PolicyFacts DEF IInv
<1>3. TypeInv' /\ Decodable' /\ Links' /\ (complete' => Cancels(accounting)')
  BY <1>1 DEF IInv, TypeInv, Decodable, Links, Cancels, durable, history, EntryType
<1>4. PolicyOrder' /\ ~Planned'
  BY <1>1, <1>2 DEF IInv, PolicyOrder, Planned
<1> QED BY <1>3, <1>4 DEF IInv

LEMMA ReopenIInv == IInv /\ Reopen => IInv'
<1> SUFFICES ASSUME IInv, Reopen PROVE IInv'
  OBVIOUS
<1> DEFINE D == DOMAIN accounting
<1>1. /\ accounting' = [s \in Kept |-> accounting[s]] /\ decision' = NoDecision
      /\ UNCHANGED <<installed, intervention, lastWindow>>
      /\ unservedRun' = [s \in Population |-> IF s \in D \ Kept THEN 0 ELSE unservedRun[s]]
      /\ lastCorrected' = [s \in Population |-> IF s \in D \ Kept THEN 0 ELSE lastCorrected[s]]
      /\ complete' = (complete /\ Kept = D)
  BY DEF Reopen, Forgotten
<1>2. TypeInv /\ Decodable /\ Links /\ (complete => Cancels(accounting))
  BY DEF IInv
<1>3. Kept \subseteq D /\ D \subseteq Population /\ IsFiniteSet(D)
  BY <1>2 DEF TypeInv, Kept
<1>4. DOMAIN accounting' = Kept /\ \A s \in Kept : accounting'[s] = accounting[s]
  BY <1>1
<1>5. IsFiniteSet(Kept) /\ Cardinality(Kept) <= Cardinality(D) /\ Cardinality(Kept) \in Nat /\ Cardinality(D) \in Nat
  BY <1>3, FS_Subset, FS_CardinalityType
<1>6. TypeInv'
  <2>1. \A s \in DOMAIN accounting' : EntryType(accounting'[s])
    BY <1>2, <1>3, <1>4 DEF TypeInv
  <2>2. unservedRun' \in [Population -> Nat] /\ lastCorrected' \in [Population -> Nat] /\ complete' \in BOOLEAN
    BY <1>1, <1>2 DEF TypeInv
  <2> QED BY <1>1, <1>2, <1>3, <1>4, <1>5, <2>1, <2>2 DEF TypeInv, EntryType, Population
<1>7. Decodable'
  BY <1>2, <1>3, <1>4, <1>5, ConstantTypes DEF Decodable
<1>8. Links'
  <2>1. ASSUME NEW s \in Kept
        PROVE  /\ accounting'[s].unserved_streak >= Least(unservedRun'[s], kStreakSaturation)
               /\ accounting'[s].last_correction_window = lastCorrected'[s]
               /\ accounting'[s].last_correction_window <= lastWindow'
               /\ accounting'[s].last_correction_generation <= intervention'
    <3>1. unservedRun'[s] = unservedRun[s] /\ lastCorrected'[s] = lastCorrected[s]
      BY <1>1, <1>3
    <3> QED BY <1>1, <1>2, <1>3, <1>4, <3>1 DEF Links
  <2>2. \A s \in Population \ Kept : unservedRun'[s] = 0 /\ lastCorrected'[s] = 0
    BY <1>1, <1>2 DEF Links
  <2> QED BY <1>4, <2>1, <2>2 DEF Links, Population
<1>9. complete' => Cancels(accounting')
  <2> SUFFICES ASSUME complete' PROVE Cancels(accounting')
    OBVIOUS
  <2>1. complete /\ Kept = D
    BY <1>1
  <2>2. /\ [s \in DOMAIN accounting' |-> accounting'[s].cumulative_deficit + accounting'[s].discarded_deficit]
           = [s \in D |-> accounting[s].cumulative_deficit + accounting[s].discarded_deficit]
        /\ [s \in DOMAIN accounting' |-> accounting'[s].cumulative_surplus + accounting'[s].discarded_surplus]
           = [s \in D |-> accounting[s].cumulative_surplus + accounting[s].discarded_surplus]
    BY <1>4, <2>1
  <2>3. Cancels(accounting)
    BY <1>2, <2>1
  <2> QED BY <2>2, <2>3, Zenon DEF Cancels
<1>10. PolicyOrder' /\ ~Planned'
  BY <1>1 DEF PolicyOrder, Planned
<1> QED BY <1>6, <1>7, <1>8, <1>9, <1>10 DEF IInv, Cancels

LEMMA CommitWindowIInv == IInv /\ CommitWindow => IInv'
<1> SUFFICES ASSUME IInv, CommitWindow PROVE IInv'
  OBVIOUS
<1> DEFINE d == decision
           A == d.authority
           D == DOMAIN accounting
           corrected(s) == IntentsFor(d, s) # {}
<1>1. /\ d # NoDecision /\ d.policy = installed /\ Cardinality(D \cup A) <= MaxRecords
      /\ accounting' = Touched(d) /\ intervention' = Newest(d) /\ lastWindow' = d.window
      /\ decision' = NoDecision /\ installed' = installed
      /\ unservedRun' = [s \in Population |->
            IF s \notin A THEN unservedRun[s] ELSE IF d.served[s] = 0 THEN unservedRun[s] + 1 ELSE 0]
      /\ lastCorrected' = [s \in Population |-> IF corrected(s) THEN d.window ELSE lastCorrected[s]]
      /\ complete' = (complete /\ A = Subjects)
  BY DEF CommitWindow, Recorded, Newest
<1>2. TypeInv /\ Decodable /\ Links /\ (complete => Cancels(accounting))
  BY DEF IInv
<1>3. SoundPlan(d)
  BY <1>1 DEF IInv, Planned, GoodPlan
<1>4. /\ DOMAIN accounting' = D \cup A /\ IsFiniteSet(D \cup A)
      /\ \A s \in A : FoldedWell(d, s, accounting'[s])
      /\ \A s \in D \ A : accounting'[s] = accounting[s]
      /\ \A s \in D \cup A : EntryType(accounting'[s])
  BY <1>1, <1>2, <1>3, TouchedEntries
<1>5. Newest(d) \in Nat /\ Newest(d) >= intervention /\ intervention \in Nat
  BY <1>2, <1>3, NewestFacts DEF TypeInv
<1>6. /\ A \subseteq Subjects /\ Subjects \subseteq Population /\ D \subseteq Population
      /\ d.window \in Nat /\ d.window > lastWindow /\ lastWindow \in Nat
      /\ \A s \in A : /\ d.unserved_streak[s] \in 0..kStreakSaturation
                      /\ d.below_floor_streak[s] \in 0..kStreakSaturation
                      /\ d.served[s] = 0 => d.unserved_streak[s] >= BumpStreak(Entry(s).unserved_streak)
      /\ \A s : corrected(s) => s \in A
  BY <1>2, <1>3, PolicyFacts DEF TypeInv, SoundPlan, IntentsFor
<1>7. unservedRun \in [Population -> Nat] /\ lastCorrected \in [Population -> Nat] /\ complete \in BOOLEAN
  BY <1>2 DEF TypeInv
<1> HIDE DEF d, corrected
<1>8. TypeInv'
  <2>1. unservedRun' \in [Population -> Nat]
    BY <1>1, <1>7
  <2>2. lastCorrected' \in [Population -> Nat]
    BY <1>1, <1>6, <1>7
  <2>3. complete' \in BOOLEAN
    BY <1>1, <1>7
  <2>4. DOMAIN accounting' \subseteq Population /\ IsFiniteSet(DOMAIN accounting')
    BY <1>4, <1>6
  <2>5. installed' \in DOMAIN Policies /\ intervention' \in Nat /\ lastWindow' \in Nat
    BY <1>1, <1>2, <1>5, <1>6 DEF TypeInv
  <2>6. \A s \in DOMAIN accounting' : EntryType(accounting'[s])
    BY <1>4
  <2> QED BY <2>1, <2>2, <2>3, <2>4, <2>5, <2>6 DEF TypeInv, EntryType, Population
<1>9. Decodable'
  <2>1. ASSUME NEW s \in A
        PROVE  /\ accounting'[s].cumulative_deficit <= kMaxCarryUnits
               /\ accounting'[s].cumulative_surplus <= kMaxCarryUnits
               /\ accounting'[s].unserved_streak <= kStreakSaturation
               /\ accounting'[s].below_floor_streak <= kStreakSaturation
    BY <1>4, <1>6, ConstantTypes DEF FoldedWell
  <2>2. ASSUME NEW s \in D \ A
        PROVE  /\ accounting'[s].cumulative_deficit <= kMaxCarryUnits
               /\ accounting'[s].cumulative_surplus <= kMaxCarryUnits
               /\ accounting'[s].unserved_streak <= kStreakSaturation
               /\ accounting'[s].below_floor_streak <= kStreakSaturation
    BY <1>2, <1>4 DEF Decodable
  <2>3. Cardinality(DOMAIN accounting') <= MaxRecords
    BY <1>1, <1>4
  <2> QED BY <1>4, <2>1, <2>2, <2>3 DEF Decodable
<1>10. Links'
  <2> DEFINE Linked(s) == /\ accounting'[s].unserved_streak >= Least(unservedRun'[s], kStreakSaturation)
                          /\ accounting'[s].last_correction_window = lastCorrected'[s]
                          /\ accounting'[s].last_correction_window <= lastWindow'
                          /\ accounting'[s].last_correction_generation <= intervention'
  <2>1. ASSUME NEW s \in A PROVE Linked(s)
    <3>1. s \in Population /\ s \in D \cup A /\ lastCorrected'[s] = IF corrected(s) THEN d.window ELSE lastCorrected[s]
      BY <1>1, <1>6
    <3>2. /\ accounting'[s].unserved_streak = d.unserved_streak[s]
          /\ accounting'[s].last_correction_window = IF corrected(s) THEN d.window ELSE lastCorrected[s]
          /\ accounting'[s].last_correction_window <= d.window
          /\ accounting'[s].last_correction_generation <= Newest(d)
      BY <1>4 DEF FoldedWell, corrected
    <3>3. d.unserved_streak[s] >= Least(unservedRun'[s], kStreakSaturation)
      <4>1. unservedRun'[s] = IF d.served[s] = 0 THEN unservedRun[s] + 1 ELSE 0
        BY <1>1, <3>1
      <4>2. /\ Entry(s).unserved_streak >= Least(unservedRun[s], kStreakSaturation)
            /\ Entry(s).unserved_streak \in Nat
        BY <1>2, <3>1, EntryLinks, EntryTyped DEF EntryType
      <4>3. unservedRun[s] \in Nat /\ kStreakSaturation \in Nat /\ d.unserved_streak[s] \in Nat
        BY <1>6, <1>7, <3>1, ConstantTypes
      <4>4. CASE d.served[s] = 0
        <5>1. d.unserved_streak[s] >= BumpStreak(Entry(s).unserved_streak)
          BY <1>6, <4>4
        <5> DEFINE u == Entry(s).unserved_streak
        <5> HIDE DEF u
        <5>2. u \in Nat /\ u >= Least(unservedRun[s], kStreakSaturation)
              /\ d.unserved_streak[s] >= Least(u + 1, kStreakSaturation)
          BY <4>2, <5>1 DEF u, BumpStreak
        <5> QED BY <4>1, <4>3, <4>4, <5>2 DEF Least
      <4>5. CASE d.served[s] # 0
        BY <4>1, <4>3, <4>5 DEF Least
      <4> QED BY <4>4, <4>5
    <3> QED BY <1>1, <3>1, <3>2, <3>3
  <2>2. ASSUME NEW s \in D \ A PROVE Linked(s)
    <3>1. s \in Population /\ accounting'[s] = accounting[s] /\ ~corrected(s) /\ EntryType(accounting[s])
      BY <1>2, <1>4, <1>6 DEF TypeInv
    <3>2. unservedRun'[s] = unservedRun[s] /\ lastCorrected'[s] = lastCorrected[s]
      BY <1>1, <3>1
    <3>3. /\ accounting[s].unserved_streak >= Least(unservedRun[s], kStreakSaturation)
          /\ accounting[s].last_correction_window = lastCorrected[s]
          /\ accounting[s].last_correction_window <= lastWindow
          /\ accounting[s].last_correction_generation <= intervention
      BY <1>2 DEF Links
    <3>4. accounting[s].last_correction_window <= d.window /\ accounting[s].last_correction_generation <= Newest(d)
      BY <1>5, <1>6, <3>1, <3>3 DEF EntryType
    <3> QED BY <1>1, <3>1, <3>2, <3>3, <3>4
  <2>3. \A s \in Population \ (D \cup A) : unservedRun'[s] = 0 /\ lastCorrected'[s] = 0
    BY <1>1, <1>2, <1>6 DEF Links
  <2> QED BY <1>4, <2>1, <2>2, <2>3 DEF Links, Population
<1>11. complete' => Cancels(accounting')
  <2> SUFFICES ASSUME complete' PROVE Cancels(accounting')
    OBVIOUS
  <2>1. Cancels(accounting) /\ A = Subjects
    BY <1>1, <1>2
  <2> QED BY <1>1, <1>2, <1>3, <2>1, TouchedCancels
<1>12. PolicyOrder' /\ ~Planned'
  BY <1>1 DEF PolicyOrder, Planned
<1> QED BY <1>8, <1>9, <1>10, <1>11, <1>12 DEF IInv, Cancels

LEMMA InductiveIInv == IInv /\ [Next]_vars => IInv'
<1> SUFFICES ASSUME IInv, [Next]_vars PROVE IInv'
  OBVIOUS
<1>1. CASE Evaluate
  BY <1>1, EvaluateIInv
<1>2. CASE Discard
  BY <1>2, DiscardIInv
<1>3. CASE CommitWindow
  BY <1>3, CommitWindowIInv
<1>4. CASE InstallPolicy
  BY <1>4, InstallPolicyIInv
<1>5. CASE Reopen
  BY <1>5, ReopenIInv
<1>6. CASE UNCHANGED vars
  <2>1. UNCHANGED <<installed, durable, decision, history>>
    BY <1>6 DEF vars
  <2>2. TypeInv' /\ Decodable' /\ Links' /\ (complete' => Cancels(accounting)') /\ PolicyOrder'
    BY <2>1 DEF IInv, TypeInv, Decodable, Links, Cancels, PolicyOrder, durable, history, EntryType
  <2>3. Planned' => GoodPlan(decision)'
    <3>1. Planned' => Planned /\ decision' = decision
      BY <2>1 DEF Planned
    <3>2. Planned' => GoodPlan(decision')
      BY <3>1 DEF IInv
    <3> QED BY <2>1, <3>2, GoodPlanKept
  <2> QED BY <2>2, <2>3 DEF IInv
<1> QED BY <1>1, <1>2, <1>3, <1>4, <1>5, <1>6 DEF Next

LEMMA Invariant == Spec => []IInv
BY InitIInv, InductiveIInv, PTL DEF Spec

-------------------------------------------------------------------------------
(* The theorems.                                                           *)

\* evaluate_fairness never reaches its internal errors "did not consume" and
\* "did not cover", and commit's conservation check never refuses a plan: both
\* halves of every plan total the authorized budget, whatever the history.
THEOREM PlansBalance == Spec => []PlanBalances
<1>1. IInv => PlanBalances
  BY DEF IInv, PlanBalances, GoodPlan
<1> QED BY <1>1, Invariant, PTL

\* No plan pushes a protected obligation below its floor, for any policy that
\* validate_policy accepts and any evidence.
THEOREM ProtectedFloorsAreHeld == Spec => []ProtectedFloorHeld
<1>1. IInv => ProtectedFloorHeld
  BY DEF IInv, ProtectedFloorHeld, GoodPlan
<1> QED BY <1>1, Invariant, PTL

\* While the demand of a starving subject is unmet, nobody who is not starving
\* is granted a unit.
THEOREM StarvationGoesFirst == Spec => []StarvationFirst
<1>1. IInv => StarvationFirst
  BY DEF IInv, StarvationFirst, GoodPlan
<1> QED BY <1>1, Invariant, PTL

\* A subject unserved for its threshold of observed windows is reported, over any
\* number of commits, skipped windows, installations and reopenings: its durable
\* streak never falls behind what was observed, up to the saturation.
THEOREM StarvationIsReported == Spec => []StarvationReported
<1>1. IInv => StarvationReported
  <2> SUFFICES ASSUME IInv, Planned, NEW s \in decision.authority,
                      Policy.subjects[s].starvation_windows > 0, decision.served[s] = 0,
                      unservedRun[s] + 1 >= Policy.subjects[s].starvation_windows
               PROVE  /\ decision.outcomes[s] \in {"STARVATION_RISK", "BLOCKED_BY_STRONGER_OBLIGATION"}
                      /\ OutcomeRank[decision.outcome] >= OutcomeRank["STARVATION_RISK"]
    BY DEF StarvationReported
  <2> DEFINE limit == Policy.subjects[s].starvation_windows
             u == Entry(s).unserved_streak
             run == unservedRun[s]
  <2>1. TypeInv /\ Links /\ GoodPlan(decision) /\ SoundPlan(decision)
    BY DEF IInv, GoodPlan
  <2>2. s \in Subjects /\ s \in Population
    BY <2>1, PolicyFacts DEF SoundPlan
  <2>3. limit \in 0..kStreakSaturation /\ kStreakSaturation \in Nat
    BY <2>1, <2>2, PolicyFacts, ConstantTypes
  <2>4. u \in Nat /\ run \in Nat /\ u >= Least(run, kStreakSaturation)
    BY <2>1, <2>2, EntryTyped, EntryLinks DEF EntryType, TypeInv
  <2>5. decision.unserved_streak[s] >= Least(u + 1, kStreakSaturation) /\ decision.unserved_streak[s] \in Nat
    BY <2>1, ConstantTypes DEF SoundPlan, BumpStreak
  <2>6. run + 1 >= limit
    OBVIOUS
  <2>7. decision.unserved_streak[s] >= limit
    <3> HIDE DEF limit, u, run
    <3> QED BY <2>3, <2>4, <2>5, <2>6 DEF Least
  <2> QED BY <2>1, <2>7 DEF GoodPlan
<1> QED BY <1>1, Invariant, PTL

\* Within the cooldown of a committed correction only starvation gets a subject an
\* augmentation: the window remembered in the durable entry is always that of the
\* last intent committed for the subject.
THEOREM CooldownIsKept == Spec => []CooldownHolds
<1>1. IInv => CooldownHolds
  <2> SUFFICES ASSUME IInv, Planned, NEW s \in Subjects, lastCorrected[s] # 0,
                      decision.window - lastCorrected[s] < Policy.cooldown_windows,
                      decision.augment[s] > 0
               PROVE  s \in decision.starving
    BY DEF CooldownHolds
  <2>1. TypeInv /\ Links /\ GoodPlan(decision) /\ SoundPlan(decision)
    BY DEF IInv, GoodPlan
  <2>2. s \in Population /\ Policy.cooldown_windows \in Nat
    BY <2>1, PolicyFacts
  <2>3. /\ Entry(s).last_correction_window = lastCorrected[s] /\ lastCorrected[s] \in Nat
        /\ lastCorrected[s] <= lastWindow /\ lastWindow \in Nat
        /\ decision.window \in Nat /\ decision.window > lastWindow
    BY <2>1, <2>2, EntryLinks DEF TypeInv, SoundPlan
  <2>4. s \notin Cooling(decision.window, decision.starving)
    BY <2>1 DEF GoodPlan
  <2>5. Policy.cooldown_windows > 0 /\ decision.window >= lastCorrected[s]
    BY <2>2, <2>3
  <2> QED BY <2>3, <2>4, <2>5 DEF Cooling
<1> QED BY <1>1, Invariant, PTL

\* As long as every subject was observed in every committed window, what the
\* population is owed and what it is in credit cancel.
THEOREM PopulationAlwaysCancels == Spec => []PopulationCancels
<1>1. IInv => PopulationCancels
  BY DEF IInv, PopulationCancels, Cancels
<1> QED BY <1>1, Invariant, PTL

\* Whatever was committed is read back: decode_accounting refuses no record that
\* commit wrote, under any later policy.
THEOREM AlwaysReopenable == Spec => []Reopenable
<1>1. IInv => Reopenable
  BY DEF IInv, Reopenable
<1> QED BY <1>1, Invariant, PTL

\* The service reported for the groups adds up level by level, and the root groups
\* share out, and were entitled to, exactly the whole.
THEOREM GroupsAlwaysAddUp == Spec => []GroupsAddUp
<1>1. IInv => GroupsAddUp
  BY DEF IInv, GroupsAddUp, GoodPlan
<1> QED BY <1>1, Invariant, PTL

-------------------------------------------------------------------------------
(* The carry of one subject: module Carry.                                 *)

CarryInv == CarryTypeOK /\ Closes /\ OneSided /\ WithinBound

Balance(e) ==
  e.cumulative_deficit - e.cumulative_surplus + e.discarded_deficit - e.discarded_surplus

Unchecked == [cumulative_deficit : Nat, cumulative_surplus : Nat,
              discarded_deficit : Nat, discarded_surplus : Nat]

\* apply_window_carry, first half: netting a window against a one-sided carry
\* moves the balance by exactly the net and leaves the carry one-sided.
LEMMA RecognizeExact ==
  ASSUME NEW e \in Unchecked, NEW net \in Int,
         e.cumulative_deficit = 0 \/ e.cumulative_surplus = 0
  PROVE  LET r == Recognize(e, net)
         IN /\ r \in Unchecked
            /\ Balance(r) = Balance(e) + net
            /\ r.cumulative_deficit = 0 \/ r.cumulative_surplus = 0
<1>1. CASE net >= 0
  BY <1>1 DEF Recognize, Least, Unchecked, Balance
<1>2. CASE net < 0
  BY <1>2 DEF Recognize, Least, Unchecked, Balance
<1> QED BY <1>1, <1>2

\* apply_window_carry, second half: saturation moves units between fields,
\* never out of the balance, keeps the carry one-sided and within the bound.
LEMMA SaturateExact ==
  ASSUME NEW e \in Unchecked, NEW bound \in Nat,
         e.cumulative_deficit = 0 \/ e.cumulative_surplus = 0
  PROVE  LET s == Saturate(e, bound)
         IN /\ s \in Unchecked
            /\ Balance(s) = Balance(e)
            /\ s.cumulative_deficit = 0 \/ s.cumulative_surplus = 0
            /\ s.cumulative_deficit <= bound
            /\ s.cumulative_surplus <= bound
BY DEF Saturate, Least, Excess, Unchecked, Balance

LEMMA CarryInvInit == CarryInit => CarryInv
<1> SUFFICES ASSUME CarryInit PROVE CarryInv
  OBVIOUS
<1>1. CarryTypeOK
  <2>1. entry \in CarryEntry /\ netSum \in Int
    BY WordAssumption, CarryAssumption DEF CarryInit, CarryEntry, Word
  <2>2. maxCarry \in Bounds /\ settled \in BOOLEAN
    BY Zenon DEF CarryInit
  <2> QED BY <2>1, <2>2 DEF CarryTypeOK
<1>2. Closes /\ OneSided
  BY DEF CarryInit, Closes, OneSided
<1>3. WithinBound
  BY DEF CarryInit, WithinBound
<1> QED BY <1>1, <1>2, <1>3 DEF CarryInv

LEMMA ApplyWindowKeeps ==
  ASSUME CarryInv, NEW net \in Nets, ApplyWindow(net)
  PROVE  CarryInv'
<1> DEFINE r == Recognize(entry, net)
           s == Saturate(r, maxCarry)
<1>1. net \in Int /\ maxCarry \in Nat
  BY CarryAssumption DEF CarryInv, CarryTypeOK
<1>2. entry \in Unchecked
  BY WordAssumption DEF CarryInv, CarryTypeOK, CarryEntry, Word, Unchecked
<1>3. /\ r \in Unchecked
      /\ Balance(r) = Balance(entry) + net
      /\ r.cumulative_deficit = 0 \/ r.cumulative_surplus = 0
  BY <1>1, <1>2, RecognizeExact DEF CarryInv, OneSided
<1>4. /\ s \in Unchecked
      /\ Balance(s) = Balance(r)
      /\ s.cumulative_deficit = 0 \/ s.cumulative_surplus = 0
      /\ s.cumulative_deficit <= maxCarry
      /\ s.cumulative_surplus <= maxCarry
  <2> HIDE DEF r
  <2> QED BY <1>1, <1>3, SaturateExact
<1>5. entry' = s /\ InRange(s) /\ netSum' = netSum + net /\ maxCarry' = maxCarry /\ settled' = TRUE
  BY DEF ApplyWindow, CarryFits
<1> HIDE DEF r, s
<1>6. CarryTypeOK'
  BY <1>1, <1>4, <1>5, WordAssumption DEF CarryInv, CarryTypeOK, CarryEntry, Word, Unchecked, InRange
<1>7. Closes'
  <2>1. Balance(entry) = netSum
    BY DEF CarryInv, Closes, Balance
  <2>2. Balance(s) = netSum + net
    BY <1>3, <1>4, <2>1
  <2> QED BY <1>5, <2>2 DEF Closes, Balance
<1>8. OneSided' /\ WithinBound'
  BY <1>4, <1>5 DEF OneSided, WithinBound
<1> QED BY <1>6, <1>7, <1>8 DEF CarryInv

LEMMA CarryInvStep == CarryInv /\ [CarryNext]_carryVars => CarryInv'
<1> SUFFICES ASSUME CarryInv, [CarryNext]_carryVars PROVE CarryInv'
  OBVIOUS
<1>1. CASE \E net \in Nets : ApplyWindow(net)
  BY <1>1, ApplyWindowKeeps
<1>2. CASE \E net \in Nets : RefuseWindow(net)
  BY <1>2 DEF RefuseWindow, carryVars, CarryInv, CarryTypeOK, Closes, OneSided, WithinBound
<1>3. CASE \E bound \in Bounds : InstallBound(bound)
  BY <1>3 DEF InstallBound, CarryInv, CarryTypeOK, Closes, OneSided, WithinBound
<1>4. CASE UNCHANGED carryVars
  BY <1>4 DEF carryVars, CarryInv, CarryTypeOK, Closes, OneSided, WithinBound
<1> QED BY <1>1, <1>2, <1>3, <1>4 DEF CarryNext

LEMMA CarryInvariant == CarrySpec => []CarryInv
BY CarryInvInit, CarryInvStep, PTL DEF CarrySpec

\* apply_window_carry never stores a field outside its word: every sum that
\* could wrap is refused first.
THEOREM CarryTypeCorrect == CarrySpec => []CarryTypeOK
BY CarryInvariant, PTL DEF CarryInv

\* accounting_closes holds after any history of windows and of changing carry
\* bounds: saturation discards visibly, never silently.
THEOREM CarryCloses == CarrySpec => []Closes
BY CarryInvariant, PTL DEF CarryInv

\* A subject never holds a deficit and a credit together, and the first
\* committed window under a bound brings the carry within it.
THEOREM CarryIsBounded == CarrySpec => []Bounded
BY CarryInvariant, PTL DEF CarryInv, Bounded
===============================================================================
