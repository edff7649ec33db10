------------------------------- MODULE Windows -------------------------------
(***************************************************************************)
(* Window after window, policy after policy: evaluate_fairness             *)
(* (src/src/eval/engine.cpp) plans a bounded correction from the evidence  *)
(* of a window and the durable accounting, commit (governor.cpp) folds the *)
(* decision into that accounting, install_policy changes the population    *)
(* under it, and open reads it back through the codec.  Epochs, staging    *)
(* and durability are those of module Governor; here every decision is     *)
(* taken on live evidence, and a subject whose observation is absent or    *)
(* does not match the policy has none.                                     *)
(***************************************************************************)
EXTENDS GroupForest, CarryRules

CONSTANTS Policies,           \* the policies by generation, each with its bounds
          Observations,       \* subject -> observations the evidence may hold
          Missing,            \* no (matching) observation of a subject
          kStreakSaturation,  \* largest streak (1000000 in engine, evidence, codec)
          kMaxCarryUnits,     \* largest carry a policy may allow
          MaxRecords,         \* entries that fit in kMaxDurablePayloadBytes
          MaxService,         \* bound on the service observed in a window
          MaxWindow,          \* bound on window numbers
          MaxSkip,            \* bound on windows left out between two commits
          NoDecision

\* The bounds of a policy and of its subjects, as validate_policy lets them
\* through.
PolicyBounds(p) ==
  /\ {p.fair_band_units, p.correction_threshold_units, p.cooldown_windows,
      p.max_correction_units, p.max_correction_bps, p.max_carry_units} \subseteq Nat
  /\ p.fair_band_units <= p.correction_threshold_units
  /\ p.max_carry_units <= kMaxCarryUnits
  /\ \A s \in DOMAIN p.subjects :
       /\ {p.subjects[s].max_reduce_units, p.subjects[s].max_augment_units} \subseteq Nat
       /\ {p.subjects[s].starvation_windows, p.subjects[s].guarantee_starvation_windows}
             \subseteq 0..kStreakSaturation

ASSUME WindowsAssumption ==
  /\ {kStreakSaturation, kMaxCarryUnits, MaxRecords, MaxService, MaxWindow, MaxSkip} \subseteq Nat
  /\ 1 \in DOMAIN Policies /\ DOMAIN Policies \subseteq Nat
  /\ \A g \in DOMAIN Policies :
       /\ PolicyType(Policies[g]) /\ ValidPolicy(Policies[g]) /\ PolicyBounds(Policies[g])
       /\ DOMAIN Policies[g].subjects \subseteq DOMAIN Observations
  /\ \A s \in DOMAIN Observations : \A o \in Observations[s] \ {Missing} :
       o.served \in Nat /\ {o.unserved_streak, o.below_floor_streak} \subseteq 0..kStreakSaturation

VARIABLES installed,        \* generation of the installed policy
          accounting,       \* the SubjectAccounting entries, by subject
          intervention,     \* accounting.intervention_generation
          lastWindow,       \* accounting.last_window, 0 when none
          decision,         \* a decision evaluated and not yet committed
          unservedRun,      \* history: observed windows since the last service
          lastCorrected,    \* history: last window with an intent for the subject
          complete          \* history: no committed window missed a subject

durable == <<accounting, intervention, lastWindow>>
history == <<unservedRun, lastCorrected, complete>>
vars == <<installed, durable, decision, history>>

Population == DOMAIN Observations
Policy == Policies[installed]
Subjects == DOMAIN Policy.subjects

\* The evidence that may be staged under each policy.
EvidenceUnder ==
  [g \in DOMAIN Policies |->
     LET members == DOMAIN Policies[g].subjects
     IN {e \in [members -> UNION {Observations[s] : s \in members}] :
           \A s \in members : e[s] \in Observations[s]}]

\* The authoritative entitlements for every whole the evidence can add up to.
Entitlements ==
  [g \in DOMAIN Policies |->
     [whole \in 0..MaxService |-> Evaluated(Policies[g], whole).effective]]

\* The fields of f, and those that only g has.
Joined(f, g) == [x \in DOMAIN f \cup DOMAIN g |-> IF x \in DOMAIN f THEN f[x] ELSE g[x]]

Greater(a, b) == IF a > b THEN a ELSE b
Sum(f) == SumFunctionOnSet(f, DOMAIN f)

\* Mutant of BumpStreak: the streak is not held at its limit.
BumpStreakUnheld(n) == n + 1

BumpStreak(n) == Least(n + 1, kStreakSaturation)

\* A subject the accounting has no entry for is evaluated on an empty one.
NewEntry(s) ==
  [generation |-> Policy.subjects[s].generation,
   cumulative_deficit |-> 0, cumulative_surplus |-> 0, discarded_deficit |-> 0,
   discarded_surplus |-> 0, unserved_streak |-> 0, below_floor_streak |-> 0,
   last_correction_window |-> 0, last_correction_generation |-> 0]

Entry(s) == IF s \in DOMAIN accounting THEN accounting[s] ELSE NewEntry(s)

Init ==
  /\ installed = 1
  /\ accounting = <<>>
  /\ intervention = 0
  /\ lastWindow = 0
  /\ decision = NoDecision
  /\ unservedRun = [s \in Population |-> 0]
  /\ lastCorrected = [s \in Population |-> 0]
  /\ complete = TRUE

-------------------------------------------------------------------------------
(* The pure evaluation.  e is the evidence, w the window.                  *)

\* Observed, but the entry is still that of the subject's former generation.
Superseded(e) == {s \in Subjects : e[s] # Missing /\ Entry(s).generation # Policy.subjects[s].generation}

HasAuthority(e) == {s \in Subjects : e[s] # Missing} \ Superseded(e)

Served(e, authority) == [s \in Subjects |-> IF s \in authority THEN e[s].served ELSE 0]

\* The larger of the durable streak, taken one window on, and the reported one.
UnservedStreak(e, authority) ==
  [s \in authority |->
     Greater(IF e[s].served = 0 THEN BumpStreak(Entry(s).unserved_streak) ELSE 0,
             e[s].unserved_streak)]

BelowFloorStreak(e, authority) ==
  [s \in authority |->
     LET floor == Policy.subjects[s].floor
     IN Greater(IF e[s].served < floor THEN BumpStreak(Entry(s).below_floor_streak) ELSE 0,
                e[s].below_floor_streak)]

\* A threshold of 0 disables its rule.
Starving(unserved, below) ==
  {s \in DOMAIN unserved :
     LET p == Policy.subjects[s]
     IN \/ p.starvation_windows > 0 /\ unserved[s] >= p.starvation_windows
        \/ /\ p.guarantee_starvation_windows > 0 /\ p.floor > 0
           /\ below[s] >= p.guarantee_starvation_windows}

\* Corrected less than cooldown_windows ago, and not starving.
Cooling(w, starving) ==
  {s \in Subjects \ starving :
     /\ Policy.cooldown_windows > 0
     /\ Entry(s).last_correction_window # 0
     /\ w >= Entry(s).last_correction_window
     /\ w - Entry(s).last_correction_window < Policy.cooldown_windows}

EffectiveDeficit(served, authority, entitlement) ==
  [s \in Subjects |->
     IF s \in authority
     THEN Excess(entitlement[s], served[s])
            + Least(Entry(s).cumulative_deficit, Policy.max_carry_units)
     ELSE 0]

\* What a subject asks for: its recognized deficit, if outside the band and not
\* cooling, up to its own cap.
Demand(deficit, cooling) ==
  [s \in Subjects |->
     IF deficit[s] > Policy.fair_band_units /\ s \notin cooling
     THEN Least(deficit[s], Policy.subjects[s].max_augment_units) ELSE 0]

\* What the caps let the plan take of a subject's surplus in this window.
ReduceCap(served, entitlement) ==
  [s \in Subjects |->
     Least(Excess(served[s], entitlement[s]), Policy.subjects[s].max_reduce_units)]

\* Mutant of Reducible: the protected floor is not looked at.
ReducibleUnprotected(served, cap) == cap

\* A protected obligation is only reduced down to its floor.
Reducible(served, cap) ==
  [s \in Subjects |->
     IF Policy.subjects[s].protected
     THEN Least(cap[s], Excess(served[s], Policy.subjects[s].floor)) ELSE cap[s]]

BpsBudget(whole, otherwise) ==
  IF Policy.max_correction_bps < 100000
  THEN (whole * Policy.max_correction_bps) \div BasisPointScale ELSE otherwise

\* Mutant of Authorized: the plan is not limited to what can be taken.
AuthorizedUnfunded(pool, demand, whole) ==
  Least(demand, Least(Policy.max_correction_units, BpsBudget(whole, demand)))

Authorized(pool, demand, whole) ==
  Least(pool, Least(demand, Least(Policy.max_correction_units, BpsBudget(whole, demand))))

\* Mutant of GrantedBefore: starvation does not come first.
GrantedBeforeNoStarving(demand, starving, a, b) ==
  \/ demand[a] > demand[b]
  \/ demand[a] = demand[b] /\ a < b

\* Starvation first, then the larger demand, the stronger obligation, identity.
GrantedBefore(demand, starving, a, b) ==
  LET rank(s) == Policy.subjects[s].rank
  IN \/ a \in starving /\ b \notin starving
     \/ /\ a \in starving <=> b \in starving
        /\ \/ demand[a] > demand[b]
           \/ demand[a] = demand[b] /\ rank(a) > rank(b)
           \/ demand[a] = demand[b] /\ rank(a) = rank(b) /\ a < b

TakenBefore(reducible, a, b) ==
  LET rank(s) == Policy.subjects[s].rank
  IN \/ reducible[a] > reducible[b]
     \/ reducible[a] = reducible[b] /\ rank(a) < rank(b)
     \/ reducible[a] = reducible[b] /\ rank(a) = rank(b) /\ a < b

\* Outcome assignment for one subject.
OutcomeOf(s, d) ==
  CASE s \in d.superseded -> "STALE"
    [] s \notin d.authority \cup d.superseded -> "UNKNOWN"
    [] s \in d.blocked -> "BLOCKED_BY_STRONGER_OBLIGATION"
    [] s \in d.starving /\ s \notin d.blocked -> "STARVATION_RISK"
    [] OTHER ->
         IF d.deficit[s] > Policy.fair_band_units
         THEN IF d.augment[s] > 0 /\ d.deficit[s] >= Policy.correction_threshold_units
              THEN "CORRECTION_REQUIRED" ELSE "UNDER_SERVED"
         ELSE IF d.surplus[s] > Policy.fair_band_units THEN "OVER_SERVED" ELSE "FAIR"

\* outcome_rank
OutcomeRank ==
  [FAIR |-> 0, OVER_SERVED |-> 1, UNDER_SERVED |-> 2, STARVATION_RISK |-> 3,
   CORRECTION_REQUIRED |-> 4, BLOCKED_BY_STRONGER_OBLIGATION |-> 5, UNKNOWN |-> 6, STALE |-> 7]

\* The outcome of the population: that of the subject worst off.
Aggregate(outcomes) ==
  CHOOSE o \in Range(outcomes) : \A p \in Range(outcomes) : OutcomeRank[p] <= OutcomeRank[o]

\* The numbers of every subject: what it is owed, asks for and may lose.
Assessed(served, authority, entitlement, starving, cooling) ==
  LET deficit == EffectiveDeficit(served, authority, entitlement)
      cap     == ReduceCap(served, entitlement)
  IN [entitlement |-> [s \in Subjects |-> entitlement[s]], starving |-> starving,
      cooling |-> cooling, deficit |-> deficit, demand |-> Demand(deficit, cooling),
      reducible |-> Reducible(served, cap), withheld |-> Sum(cap) - Sum(Reducible(served, cap)),
      authority |-> authority, served |-> served]

\* The budget is granted and taken in order.
Distributed(a, authorized) ==
  LET granting == {o \in Subjects \X Subjects : GrantedBefore(a.demand, a.starving, o[1], o[2])}
      taking   == {o \in Subjects \X Subjects : TakenBefore(a.reducible, o[1], o[2])}
  IN [augment |-> Greedy(a.demand, granting, authorized),
      reduce |-> Greedy(a.reducible, taking, authorized), authorized |-> authorized]

\* Subjects left short although only stronger obligations kept units back.
Blocked(a, x) ==
  LET unmet(s) == a.deficit[s] - x.augment[s]
      short    == {s \in a.authority \ a.cooling :
                     a.deficit[s] > Policy.fair_band_units /\ unmet(s) > 0}
  IN {s \in Subjects :
        /\ short # {} /\ a.withheld > 0 /\ x.authorized < Sum(a.demand)
        /\ a.demand[s] > 0
        /\ unmet(s) > Excess(a.deficit[s], Policy.subjects[s].max_augment_units)}

Corrections(a) == Distributed(a, Authorized(Sum(a.reducible), Sum(a.demand), Sum(a.served)))

\* Mutant of RollUp: a subject counts in its own group only.
RollUpDirect(numbers) ==
  [g \in DOMAIN Policy.groups |->
     SumFunctionOnSet(numbers, {s \in Subjects : Policy.subjects[s].group = g})]

\* Every subject counts in its group and in every group above.
RollUp(numbers) ==
  [g \in DOMAIN Policy.groups |->
     SumFunctionOnSet(numbers, {s \in Subjects : g \in Chain(Policy, Policy.subjects[s].group)})]

\* The corrective intents, numbered in the order they are proposed in: the
\* augmentations as granted, then the reductions as taken.
Intents(a, x) ==
  LET up   == {s \in Subjects : x.augment[s] > 0}
      down == {s \in Subjects : x.reduce[s] > 0}
      before(s) == {t \in up : GrantedBefore(a.demand, a.starving, t, s)}
      ahead(s)  == {t \in down : TakenBefore(a.reducible, t, s)}
  IN {[subject |-> s, direction |-> "augment",
       generation |-> intervention + Cardinality(before(s)) + 1] : s \in up}
     \cup
     {[subject |-> s, direction |-> "reduce",
       generation |-> intervention + Cardinality(up) + Cardinality(ahead(s)) + 1] : s \in down}

Decided(w, a, x, group_entitlement) ==
  [policy |-> installed, window |-> w, authority |-> a.authority,
   served |-> a.served, entitlement |-> a.entitlement, starving |-> a.starving,
   deficit |-> a.deficit, surplus |-> [s \in Subjects |-> Excess(a.served[s], a.entitlement[s])],
   demand |-> a.demand, authorized |-> x.authorized,
   augment |-> x.augment, reduce |-> x.reduce, blocked |-> Blocked(a, x),
   group_entitlement |-> group_entitlement, group_served |-> RollUp(a.served),
   intents |-> Intents(a, x)]

WithOutcomes(d) ==
  LET outcomes == [s \in Subjects |-> OutcomeOf(s, d)]
  IN Joined(d, [outcomes |-> outcomes, outcome |-> Aggregate(outcomes)])

\* What the evidence says of each subject, before anything is planned.
Reading(e, authority) ==
  [authority |-> authority, superseded |-> Superseded(e), served |-> Served(e, authority),
   unserved_streak |-> UnservedStreak(e, authority),
   below_floor_streak |-> BelowFloorStreak(e, authority)]

\* evaluate_fairness on eligible evidence.
Plan(r, w, entitlement) ==
  LET starving == Starving(r.unserved_streak, r.below_floor_streak)
      a == Assessed(r.served, r.authority, entitlement, starving, Cooling(w, starving))
      d == Decided(w, a, Corrections(a), [g \in DOMAIN Policy.groups |-> entitlement[g]])
  IN WithOutcomes(Joined(r, d))

PlanFrom(r, w) == Plan(r, w, Entitlements[installed][Sum(r.served)])

Carried(d, s) == Recognize(Entry(s), d.entitlement[s] - d.served[s])

\* The arithmetic of the plan is refused as a whole when a carry overflows.
Fits(d) ==
  \A s \in d.authority :
    /\ InRange(Carried(d, s))
    /\ InRange(Saturate(Carried(d, s), Policy.max_carry_units))

\* Evidence of a window after the last committed one is evaluated; more service
\* than a word holds is refused.
Evaluate ==
  /\ decision = NoDecision
  /\ \E e \in EvidenceUnder[installed] :
       \E w \in (lastWindow + 1)..Least(lastWindow + 1 + MaxSkip, MaxWindow) :
         /\ Sum(Served(e, HasAuthority(e))) <= MaxService
         /\ decision' = PlanFrom(Reading(e, HasAuthority(e)), w)
  /\ Fits(decision')
  /\ UNCHANGED <<installed, durable, history>>

\* The caller drops the decision.
Discard ==
  /\ decision # NoDecision
  /\ decision' = NoDecision
  /\ UNCHANGED <<installed, durable, history>>

IntentsFor(d, s) == {i \in d.intents : i.subject = s}

\* The newest of the entry's last correction and the intents for the subject.
Correction(d, s) ==
  LET last  == Entry(s).last_correction_generation
      newer == {i.generation : i \in {j \in IntentsFor(d, s) : j.generation > last}}
  IN IF newer = {}
     THEN [last_correction_window |-> Entry(s).last_correction_window,
           last_correction_generation |-> last]
     ELSE [last_correction_window |-> d.window, last_correction_generation |-> Max(newer)]

\* A subject's durable entry after the decision.
Folded(d, s) ==
  LET carry == Saturate(Carried(d, s), Policy.max_carry_units)
      rest  == [generation |-> Entry(s).generation, unserved_streak |-> d.unserved_streak[s],
                below_floor_streak |-> d.below_floor_streak[s]]
  IN Joined(carry, Joined(Correction(d, s), rest))

\* The history of what was observed and corrected.
Recorded(d) ==
  /\ unservedRun' = [s \in Population |->
        IF s \notin d.authority THEN unservedRun[s]
        ELSE IF d.served[s] = 0 THEN unservedRun[s] + 1 ELSE 0]
  /\ lastCorrected' = [s \in Population |->
        IF IntentsFor(d, s) # {} THEN d.window ELSE lastCorrected[s]]
  /\ complete' = (complete /\ d.authority = Subjects)

\* Mutant of Touched: a subject that was not observed starts afresh.
TouchedForgets(d) ==
  [s \in DOMAIN accounting \cup d.authority |->
     IF s \in d.authority THEN Folded(d, s) ELSE [accounting[s] EXCEPT !.unserved_streak = 0]]

\* Only subjects with authority are touched; one seen for the first time gets
\* an entry, and no entry is ever removed here.
Touched(d) ==
  [s \in DOMAIN accounting \cup d.authority |->
     IF s \in d.authority THEN Folded(d, s) ELSE accounting[s]]

\* commit: refused for a decision of another policy, and by the store when the
\* record has grown past its bound; nothing changes then.
CommitWindow ==
  /\ decision # NoDecision
  /\ decision.policy = installed
  /\ Cardinality(DOMAIN accounting \cup decision.authority) <= MaxRecords
  /\ accounting' = Touched(decision)
  /\ intervention' = Max({intervention} \cup {i.generation : i \in decision.intents})
  /\ lastWindow' = decision.window
  /\ decision' = NoDecision
  /\ Recorded(decision)
  /\ UNCHANGED installed

\* install_policy: the entries stay as they are, those of subjects that left
\* or were renewed included.
InstallPolicy ==
  /\ installed + 1 \in DOMAIN Policies
  /\ installed' = installed + 1
  /\ UNCHANGED <<durable, decision, history>>

\* decode_accounting: what is refused when it is read back.
Decodable ==
  /\ Cardinality(DOMAIN accounting) <= MaxRecords
  /\ \A s \in DOMAIN accounting :
       /\ accounting[s].cumulative_deficit <= kMaxCarryUnits
       /\ accounting[s].cumulative_surplus <= kMaxCarryUnits
       /\ accounting[s].unserved_streak <= kStreakSaturation
       /\ accounting[s].below_floor_streak <= kStreakSaturation

\* Entries whose subject generation no longer exists in the policy are dropped.
Kept ==
  {s \in DOMAIN accounting \cap Subjects :
     accounting[s].generation = Policy.subjects[s].generation}

\* What follows a reopening: the dropped subjects start a new history.
Forgotten ==
  /\ unservedRun' = [s \in Population |-> IF s \in DOMAIN accounting \ Kept THEN 0 ELSE unservedRun[s]]
  /\ lastCorrected' = [s \in Population |-> IF s \in DOMAIN accounting \ Kept THEN 0 ELSE lastCorrected[s]]
  /\ complete' = (complete /\ Kept = DOMAIN accounting)

\* Mutant of Reopen: the intervention generation starts again.
ReopenRenumbers ==
  /\ Decodable
  /\ accounting' = [s \in Kept |-> accounting[s]]
  /\ intervention' = 0
  /\ decision' = NoDecision
  /\ Forgotten
  /\ UNCHANGED <<installed, lastWindow>>

\* open after a crash or a shutdown; the decision is of another incarnation.
Reopen ==
  /\ Decodable
  /\ accounting' = [s \in Kept |-> accounting[s]]
  /\ decision' = NoDecision
  /\ Forgotten
  /\ UNCHANGED <<installed, intervention, lastWindow>>

Next ==
  \/ Evaluate
  \/ Discard
  \/ CommitWindow
  \/ InstallPolicy
  \/ Reopen

Spec == Init /\ [][Next]_vars

-------------------------------------------------------------------------------
(* Properties.                                                             *)

\* A decision commit would look at; one of a former policy can only be dropped.
Planned == decision # NoDecision /\ decision.policy = installed

\* Augmentations and reductions both total the authorized budget: the internal
\* errors "did not consume" and "did not cover" are unreachable, and commit()'s
\* conservation check never refuses a plan of the evaluator.
PlanBalances ==
  Planned => Sum(decision.augment) = decision.authorized /\ Sum(decision.reduce) = decision.authorized

\* BOUNDARY.md: a protected obligation is never pushed below its floor, however
\* large the demand, the caps and the carried deficits of the others.
ProtectedFloorHeld ==
  Planned => \A s \in Subjects :
    Policy.subjects[s].protected /\ decision.reduce[s] > 0
      => decision.served[s] - decision.reduce[s] >= Policy.subjects[s].floor

\* Nobody else is granted a unit while a starving subject's demand is unmet.
StarvationFirst ==
  Planned => \A s \in decision.starving : \A t \in Subjects \ decision.starving :
    decision.augment[s] < decision.demand[s] => decision.augment[t] = 0

\* policy.hpp:53: a subject left unserved for its threshold of observed windows
\* is reported, whatever streak the producer claims and however many windows in
\* between were skipped, dropped or missed the subject.
StarvationReported ==
  Planned => \A s \in decision.authority :
    /\ Policy.subjects[s].starvation_windows > 0
    /\ decision.served[s] = 0
    /\ unservedRun[s] + 1 >= Policy.subjects[s].starvation_windows
    => /\ decision.outcomes[s] \in {"STARVATION_RISK", "BLOCKED_BY_STRONGER_OBLIGATION"}
       /\ OutcomeRank[decision.outcome] >= OutcomeRank["STARVATION_RISK"]

\* Within cooldown_windows of a committed correction of a subject, of either
\* direction, only starvation gets it an augmentation.
CooldownHolds ==
  Planned => \A s \in Subjects :
    /\ lastCorrected[s] # 0
    /\ decision.window - lastCorrected[s] < Policy.cooldown_windows
    /\ decision.augment[s] > 0
    => s \in decision.starving

\* governor.hpp:253: as long as every subject was observed in every committed
\* window, what the population is owed and what it is in credit cancel, the
\* discarded carry included.
PopulationCancels ==
  complete =>
    Sum([s \in DOMAIN accounting |-> accounting[s].cumulative_deficit + accounting[s].discarded_deficit])
      = Sum([s \in DOMAIN accounting |-> accounting[s].cumulative_surplus + accounting[s].discarded_surplus])

\* accounting.hpp:6: the record that was committed last is always one open()
\* accepts, however long the streaks run, whatever streaks the producers claim
\* and however the population and the carry bound change under it.
Reopenable == Decodable

\* What a group is reported to have received is what its own subjects and its
\* subgroups received, and the root groups together received, and were entitled
\* to, all the service observed.
GroupsAddUp ==
  Planned =>
    LET children(g) == {h \in DOMAIN Policy.groups : Policy.groups[h].parent = g}
        direct(g)   == {s \in Subjects : Policy.subjects[s].group = g}
    IN /\ \A g \in DOMAIN Policy.groups :
            decision.group_served[g] = SumFunctionOnSet(decision.served, direct(g))
                                         + SumFunctionOnSet(decision.group_served, children(g))
       /\ SumFunctionOnSet(decision.group_served, children(NoParent)) = Sum(decision.served)
       /\ SumFunctionOnSet(decision.group_entitlement, children(NoParent)) = Sum(decision.served)

\* policy.hpp:35: "the governor will refuse a corrective intent that would push
\* the group below" its protected obligation.  Only direct members count here.
GroupObligationHeld ==
  Planned => \A g \in {h \in DOMAIN Policy.groups : Policy.groups[h].protected} :
    LET members == {s \in Subjects : Policy.subjects[s].group = g}
        before  == SumFunctionOnSet(decision.served, members)
        after   == before + SumFunctionOnSet(decision.augment, members)
                          - SumFunctionOnSet(decision.reduce, members)
    IN before >= Policy.groups[g].floor => after >= Policy.groups[g].floor
===============================================================================
