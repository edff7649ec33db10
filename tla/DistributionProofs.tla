-------------------------- MODULE DistributionProofs --------------------------
(***************************************************************************)
(* The promises of the Distributor, for every policy, every whole and      *)
(* every sequence of weights: what Allocates and the forest lemmas say of  *)
(* one evaluation holds of the entitlements in every reachable state.      *)
(***************************************************************************)
EXTENDS Distribution, AllocationProofs

\* Raising a weight changes no group, so every walk to the root stays.
LEMMA SameDepth ==
  ASSUME NEW p, NEW q, p.groups = q.groups, NEW g
  PROVE  Depth(p, g) = Depth(q, g)
BY Zenon DEF Depth

LEMMA RaisedForest ==
  ASSUME NEW p, PolicyRecord(p), Forest(p), NEW s \in DOMAIN p.subjects
  PROVE  LET q == [p EXCEPT !.subjects[s].weight = @ + 1]
         IN PolicyRecord(q) /\ Forest(q)
<1> DEFINE q == [p EXCEPT !.subjects[s].weight = @ + 1]
           GroupRecord == [parent : Nat, weight : Nat, floor : Nat, rank : Nat, protected : BOOLEAN]
           SubjectRecord == [group : Nat, weight : Nat, floor : Nat, rank : Nat, bps : Int,
                             protected : BOOLEAN]
<1>1. p \in [groups : [DOMAIN p.groups -> GroupRecord], subjects : [DOMAIN p.subjects -> SubjectRecord]]
  BY DEF PolicyRecord
<1>2. q.groups = p.groups /\ q.subjects = [p.subjects EXCEPT ![s].weight = @ + 1]
      /\ q = [groups |-> q.groups, subjects |-> q.subjects]
  BY <1>1
<1>3. \A t \in DOMAIN p.subjects : p.subjects[t] \in SubjectRecord
  BY <1>1
<1>4. DOMAIN q.subjects = DOMAIN p.subjects /\
      \A t \in DOMAIN p.subjects :
        /\ q.subjects[t] \in SubjectRecord
        /\ q.subjects[t].group = p.subjects[t].group
        /\ q.subjects[t].floor = p.subjects[t].floor
        /\ q.subjects[t].rank = p.subjects[t].rank
        /\ q.subjects[t].bps = p.subjects[t].bps
        /\ q.subjects[t].weight >= p.subjects[t].weight
  BY <1>2, <1>3
<1>5. q.subjects \in [DOMAIN q.subjects -> SubjectRecord] /\ q.groups \in [DOMAIN q.groups -> GroupRecord]
  BY <1>1, <1>2, <1>4
<1>6. q \in [groups : [DOMAIN q.groups -> GroupRecord], subjects : [DOMAIN q.subjects -> SubjectRecord]]
  <2> HIDE DEF q
  <2> QED BY <1>2, <1>5
<1> HIDE DEF q
<1>7. Nodes(q) = Nodes(p) /\ Levels(q) = Levels(p)
  BY <1>2, <1>4 DEF Nodes, Levels
<1>8. \A n \in Nodes(p) : /\ Declared(q, n).weight \in Nat /\ Declared(q, n).weight >= 1
                          /\ Declared(q, n).floor \in Nat /\ Declared(q, n).rank \in Nat
  <2>1. \A n \in Nodes(p) : /\ Declared(p, n).weight \in Nat /\ Declared(p, n).weight >= 1
                            /\ Declared(p, n).floor \in Nat /\ Declared(p, n).rank \in Nat
    BY DEF Forest, PolicyType
  <2>2. \A n \in DOMAIN p.groups : Declared(q, n) = Declared(p, n)
    BY <1>2 DEF Declared
  <2>3. \A n \in Nodes(p) \ DOMAIN p.groups :
          /\ n \in DOMAIN p.subjects /\ Declared(p, n) = p.subjects[n] /\ Declared(q, n) = q.subjects[n]
    BY <1>2 DEF Declared, Nodes
  <2>4. \A t \in DOMAIN p.subjects : q.subjects[t].weight \in Nat
    BY <1>4
  <2>5. ASSUME NEW n \in Nodes(p) \ DOMAIN p.groups
        PROVE  /\ Declared(q, n).weight \in Nat /\ Declared(q, n).weight >= 1
               /\ Declared(q, n).floor \in Nat /\ Declared(q, n).rank \in Nat
    BY <1>4, <2>1, <2>3, <2>4
  <2> QED BY <2>1, <2>2, <2>5
<1>9. PolicyType(q)
  BY <1>2, <1>4, <1>7, <1>8 DEF PolicyType, Forest
<1>10. \A g \in DOMAIN q.groups : Depth(q, g) <= MaxGroupDepth
  <2>1. \A g \in DOMAIN p.groups : Depth(p, g) <= MaxGroupDepth /\ Depth(q, g) = Depth(p, g)
    BY <1>2, SameDepth DEF Forest
  <2> QED BY <1>2, <2>1
<1>11. Forest(q)
  BY <1>2, <1>4, <1>7, <1>8, <1>9, <1>10, SMTT(30) DEF Forest
<1> QED BY <1>6, <1>9, <1>11 DEF PolicyRecord, q

-------------------------------------------------------------------------------
(* The entitlements in every state are those of the current policy and     *)
(* whole; the policy stays a forest.                                       *)

IInv ==
  /\ PolicyRecord(policy)
  /\ Forest(policy)
  /\ whole \in Nat
  /\ result = Evaluated(policy, whole)

LEMMA Invariance == Spec => []IInv
<1>1. Init => IInv
  <2> SUFFICES ASSUME Init PROVE IInv
    OBVIOUS
  <2>1. policy \in Policies /\ ValidPolicy(policy)
    BY DEF Init
  <2>2. PolicyRecord(policy)
    BY <2>1, PoliciesAssumption
  <2>3. Forest(policy)
    BY <2>1, <2>2, ValidIsForest DEF PolicyRecord
  <2> QED BY <2>2, <2>3 DEF Init, IInv
<1>2. IInv /\ [Next]_vars => IInv'
  <2> SUFFICES ASSUME IInv, [Next]_vars PROVE IInv'
    OBVIOUS
  <2>1. CASE Deliver
    BY <2>1 DEF Deliver, IInv
  <2>2. CASE \E s \in DOMAIN policy.subjects : Raise(s)
    <3>1. PICK s \in DOMAIN policy.subjects : Raise(s)
      BY <2>2
    <3>2. PolicyRecord(policy') /\ Forest(policy')
      BY <3>1, RaisedForest DEF Raise, IInv
    <3> QED BY <3>1, <3>2 DEF Raise, IInv
  <2>3. CASE UNCHANGED vars
    BY <2>3 DEF vars, IInv
  <2> QED BY <2>1, <2>2, <2>3 DEF Next
<1> QED BY <1>1, <1>2, PTL DEF Spec

\* What the two passes leave behind, in terms of the forest lemmas.
LEMMA ResultFields ==
  ASSUME IInv
  PROVE  /\ result.base = Pass(policy, Scatter(policy, whole, FALSE))
         /\ result.effective = Pass(policy, Scatter(policy, whole, TRUE))
         /\ result.overcommit = {g \in Levels(policy) : Scatter(policy, whole, TRUE)[g].overcommit}
BY DEF IInv, Evaluated, Outcome, Pass

\* Every level of the effective pass splits the part it was given.
LEMMA EffectiveLevels ==
  ASSUME IInv, NEW g \in Levels(policy)
  PROVE  LET c == Competitors(policy, g, TRUE)
             r == Scatter(policy, whole, TRUE)[g]
         IN /\ DOMAIN c = Children(policy, g)
            /\ \A n \in Children(policy, g) :
                 /\ c[n].floor = Declared(policy, n).floor
                 /\ c[n].rank = Declared(policy, n).rank
                 /\ result.effective[n] = r.allocations[n]
            /\ Splits(c, LevelWhole(result.effective, g), r)
<1> DEFINE level == Scatter(policy, whole, TRUE)
           part == Part(policy, whole, level, g)
           c == Competitors(policy, g, TRUE)
<1>1. Forest(policy) /\ whole \in Nat /\ TRUE \in BOOLEAN
  BY DEF IInv
<1>2. /\ DOMAIN c = Children(policy, g)
      /\ \A n \in Children(policy, g) :
           c[n].floor = Declared(policy, n).floor /\ c[n].rank = Declared(policy, n).rank
  BY <1>1, LevelsCompete
<1>3. Splits(c, part, level[g])
  BY <1>1, ScatterSplits
<1>4. /\ part = IF g = NoParent THEN whole ELSE Pass(policy, level)[g]
      /\ \A n \in Children(policy, g) : Pass(policy, level)[n] = level[g].allocations[n]
  BY <1>1, PassLevels
<1>5. result.effective = Pass(policy, level)
  BY ResultFields
<1> HIDE DEF level, part, c
<1>6. LevelWhole(result.effective, g) = part
  BY <1>4, <1>5 DEF LevelWhole
<1> QED BY <1>2, <1>3, <1>4, <1>5, <1>6 DEF level, c

LEMMA PassConserves ==
  ASSUME IInv, NEW modified \in BOOLEAN
  PROVE  LET pass == Pass(policy, Scatter(policy, whole, modified))
         IN /\ SumFunctionOnSet(pass, DOMAIN policy.subjects) = whole
            /\ \A g \in Levels(policy) :
                 SumFunctionOnSet(pass, Children(policy, g)) = LevelWhole(pass, g)
<1> DEFINE level == Scatter(policy, whole, modified)
           pass == Pass(policy, level)
<1>1. Forest(policy) /\ whole \in Nat
  BY DEF IInv
<1>2. /\ pass \in [Nodes(policy) -> Nat]
      /\ \A g \in Levels(policy) :
           /\ Part(policy, whole, level, g) = IF g = NoParent THEN whole ELSE pass[g]
           /\ SumFunctionOnSet(pass, Children(policy, g)) = Part(policy, whole, level, g)
  BY <1>1, PassLevels
<1> HIDE DEF level, pass
<1>3. \A g \in Levels(policy) :
        SumFunctionOnSet(pass, Children(policy, g)) = IF g = NoParent THEN whole ELSE pass[g]
  BY <1>2
<1>4. SumFunctionOnSet(pass, DOMAIN policy.subjects) = whole
  BY <1>1, <1>2, <1>3, SubjectsGetAll
<1> QED BY <1>3, <1>4 DEF LevelWhole, level, pass

\* Through any forest of groups, whatever the weights, floors, ranks and
\* modifiers, both passes of the Distributor hand out exactly the whole, at
\* every level and to the subjects altogether.
THEOREM WholeIsConserved == Spec => []Conserves
<1>1. IInv => Conserves
  <2> SUFFICES ASSUME IInv PROVE Conserves
    OBVIOUS
  <2>1. /\ result.base = Pass(policy, Scatter(policy, whole, FALSE))
        /\ result.effective = Pass(policy, Scatter(policy, whole, TRUE))
    BY ResultFields
  <2>2. /\ SumFunctionOnSet(result.base, DOMAIN policy.subjects) = whole
        /\ \A g \in Levels(policy) :
             SumFunctionOnSet(result.base, Children(policy, g)) = LevelWhole(result.base, g)
    BY <2>1, PassConserves
  <2>3. /\ SumFunctionOnSet(result.effective, DOMAIN policy.subjects) = whole
        /\ \A g \in Levels(policy) :
             SumFunctionOnSet(result.effective, Children(policy, g)) = LevelWhole(result.effective, g)
    BY <2>1, PassConserves
  <2> QED BY <2>2, <2>3 DEF Conserves
<1> QED BY <1>1, Invariance, PTL

\* Wherever allocate_whole reports no overcommit, every subject and group of
\* the level is entitled to its guarantee floor: the donations that raise one
\* never take another below its own.
THEOREM FloorsAreMet == Spec => []FloorsMet
<1>1. IInv => FloorsMet
  <2> SUFFICES ASSUME IInv, NEW n \in Nodes(policy), Parent(policy, n) \notin result.overcommit
               PROVE  result.effective[n] >= Declared(policy, n).floor
    BY DEF FloorsMet
  <2> DEFINE g == Parent(policy, n)
             c == Competitors(policy, g, TRUE)
             r == Scatter(policy, whole, TRUE)[g]
  <2>1. g \in Levels(policy) /\ n \in Children(policy, g)
    BY ForestShape DEF IInv, Children
  <2>2. ~r.overcommit
    BY <2>1, ResultFields
  <2>3. /\ DOMAIN c = Children(policy, g)
        /\ c[n].floor = Declared(policy, n).floor
        /\ result.effective[n] = r.allocations[n]
        /\ Splits(c, LevelWhole(result.effective, g), r)
    BY <2>1, EffectiveLevels
  <2> HIDE DEF g, c, r
  <2> QED BY <2>1, <2>2, <2>3 DEF Splits
<1> QED BY <1>1, Invariance, PTL

\* Where floors cannot all be met, the obligation order decides: as long as a
\* stronger obligation is short of its floor, its weaker siblings get nothing.
THEOREM StrongestIsFirst == Spec => []StrongestFirst
<1>1. IInv => StrongestFirst
  <2> SUFFICES ASSUME IInv, NEW g \in result.overcommit,
                      NEW a \in Children(policy, g), NEW b \in Children(policy, g),
                      Declared(policy, a).rank > Declared(policy, b).rank,
                      result.effective[a] < Declared(policy, a).floor
               PROVE  result.effective[b] = 0
    BY DEF StrongestFirst
  <2> DEFINE c == Competitors(policy, g, TRUE)
             r == Scatter(policy, whole, TRUE)[g]
  <2>1. g \in Levels(policy) /\ r.overcommit
    BY ResultFields
  <2>2. /\ DOMAIN c = Children(policy, g)
        /\ c[a].floor = Declared(policy, a).floor
        /\ c[a].rank = Declared(policy, a).rank /\ c[b].rank = Declared(policy, b).rank
        /\ result.effective[a] = r.allocations[a] /\ result.effective[b] = r.allocations[b]
        /\ Splits(c, LevelWhole(result.effective, g), r)
    BY <2>1, EffectiveLevels
  <2> HIDE DEF c, r
  <2> QED BY <2>1, <2>2 DEF Splits
<1> QED BY <1>1, Invariance, PTL

\* Where no share is below a floor, everybody's entitlement is the exact
\* rational share of its level's part, rounded down or up.
THEOREM SharesAreWithinQuota == Spec => []WithinQuota
<1>1. IInv => WithinQuota
  <2> SUFFICES ASSUME IInv, NEW g \in Levels(policy) PROVE
        LET c == Competitors(policy, g, TRUE)
            amount == LevelWhole(result.effective, g)
        IN Total(Need(c, Shares(c, amount))) = 0 =>
             \A n \in DOMAIN c :
               LET error == result.effective[n] * WeightSum(c) - amount * c[n].weight
               IN -WeightSum(c) < error /\ error < WeightSum(c)
    BY DEF WithinQuota
  <2> DEFINE c == Competitors(policy, g, TRUE)
             r == Scatter(policy, whole, TRUE)[g]
             amount == LevelWhole(result.effective, g)
  <2>1. /\ DOMAIN c = Children(policy, g)
        /\ \A n \in Children(policy, g) : result.effective[n] = r.allocations[n]
        /\ Splits(c, amount, r)
    BY EffectiveLevels
  <2> HIDE DEF c, r, amount
  <2>2. Total(Need(c, Shares(c, amount))) = 0 =>
          \A n \in DOMAIN c :
            /\ -WeightSum(c) < r.allocations[n] * WeightSum(c) - amount * c[n].weight
            /\ r.allocations[n] * WeightSum(c) - amount * c[n].weight < WeightSum(c)
    BY <2>1, Zenon DEF Splits
  <2>3. Total(Need(c, Shares(c, amount))) = 0 =>
          \A n \in DOMAIN c :
            LET error == result.effective[n] * WeightSum(c) - amount * c[n].weight
            IN -WeightSum(c) < error /\ error < WeightSum(c)
    BY <2>1, <2>2
  <2> QED BY <2>3 DEF c, amount
<1> QED BY <1>1, Invariance, PTL

-------------------------------------------------------------------------------
(* Raising a weight.  One competitor's weight grows from u to v, the sum   *)
(* from W to V; the others keep theirs.                                    *)

\* Its own share does not fall, and at an equal share its residue does not.
LEMMA RaisedShare ==
  ASSUME NEW A \in Nat, NEW u \in Nat, NEW W \in Nat \ {0}, NEW d \in Nat, u <= W,
         NEW f \in Nat, NEW r \in 0..(W - 1), A * u = W * f + r,
         NEW g \in Nat, NEW t \in 0..(W + d - 1), A * (u + d) = (W + d) * g + t
  PROVE  g >= f /\ (g = f => t >= r)
<1>1. f <= A
  <2>1. W * f <= A * W
    <3>1. A * u <= A * W
      OBVIOUS
    <3>2. W * f \in Int /\ A * u \in Int /\ A * W \in Int
      OBVIOUS
    <3> QED BY <3>1, <3>2
  <2>2. W * f < (A + 1) * W
    BY <2>1
  <2>3. f < A + 1
    BY <2>2, LessFactor
  <2> QED BY <2>3
<1>2. d * f <= A * d
  BY <1>1
<1>3. A * (u + d) = A * u + A * d /\ (W + d) * g = W * g + d * g /\ (W + d) * f = W * f + d * f
  OBVIOUS
<1>4. (W + d) * f < (g + 1) * (W + d)
  <2>1. (W + d) * f <= (W + d) * g + t
    BY <1>2, <1>3
  <2>2. (g + 1) * (W + d) = (W + d) * g + (W + d)
    OBVIOUS
  <2> QED BY <2>1, <2>2
<1>5. f < g + 1
  BY <1>4, LessFactor
<1>6. ASSUME g = f PROVE t >= r
  <2>1. (W + d) * g = (W + d) * f
    BY <1>6
  <2>2. t = r + (A * d - d * f)
    BY <1>3, <2>1
  <2> QED BY <1>2, <2>2
<1> QED BY <1>5, <1>6

\* The share of another does not grow, and at an equal share its residue does not.
LEMMA OtherShare ==
  ASSUME NEW a \in Nat, NEW W \in Nat \ {0}, NEW d \in Nat,
         NEW f \in Nat, NEW r \in 0..(W - 1), a = W * f + r,
         NEW g \in Nat, NEW t \in 0..(W + d - 1), a = (W + d) * g + t
  PROVE  g <= f /\ (g = f => t <= r)
<1>1. (W + d) * g = W * g + d * g /\ d * g \in Nat /\ d * f \in Nat
  OBVIOUS
<1>2. W * g < (f + 1) * W
  <2>1. (f + 1) * W = W * f + W
    OBVIOUS
  <2> QED BY <1>1, <2>1
<1>3. g < f + 1
  BY <1>2, LessFactor
<1>4. ASSUME g = f PROVE t <= r
  <2>1. (W + d) * g = W * f + d * f
    BY <1>4
  <2> QED BY <1>1, <2>1
<1> QED BY <1>3, <1>4

\* The units lost by those whose share falls are at least as many as they are.
LEMMA Losers ==
  ASSUME NEW D, IsFiniteSet(D), NEW f \in [D -> Nat], NEW g \in [D -> Nat],
         \A i \in D : g[i] <= f[i]
  PROVE  Cardinality({i \in D : g[i] < f[i]}) <= Total(f) - Total(g)
<1> DEFINE L == {i \in D : g[i] < f[i]}
           lost == [i \in D |-> f[i] - g[i]]
           one == [i \in D |-> 1]
<1>1. /\ IsFiniteSet(L) /\ L \in SUBSET D
      /\ DOMAIN f = D /\ DOMAIN g = D
  BY FS_Subset
<1>2. \A i \in D : /\ lost[i] \in Nat /\ lost[i] \in Int /\ g[i] \in Int /\ f[i] = lost[i] + g[i]
                   /\ one[i] = 1 /\ one[i] \in Int
  OBVIOUS
<1>3. \A i \in L : one[i] <= lost[i]
  OBVIOUS
<1> HIDE DEF L, lost, one
<1>4. SumFunctionOnSet(f, D) = SumFunctionOnSet(lost, D) + SumFunctionOnSet(g, D)
  BY <1>2, SumPointwise
<1>5. SumFunctionOnSet(one, L) = Cardinality(L)
  BY <1>1, <1>2, SumOnes
<1>6. SumFunctionOnSet(one, L) <= SumFunctionOnSet(lost, L)
  BY <1>1, <1>2, <1>3, SumOrdered
<1>7. SumFunctionOnSet(lost, L) <= SumFunctionOnSet(lost, D)
  BY <1>1, <1>2, SumSubset
<1>8. /\ SumFunctionOnSet(lost, D) \in Int /\ SumFunctionOnSet(g, D) \in Int
      /\ SumFunctionOnSet(one, L) \in Int /\ SumFunctionOnSet(lost, L) \in Int
  BY <1>1, <1>2, SumInt
<1> QED BY <1>1, <1>4, <1>5, <1>6, <1>7, <1>8 DEF Total, L

\* s competes with a weight larger by d, everybody else with the same.
Heavier(c, e, s, d) ==
  /\ Competing(c) /\ Competing(e) /\ DOMAIN e = DOMAIN c
  /\ s \in DOMAIN c /\ d \in Nat /\ e[s].weight = c[s].weight + d
  /\ \A j \in DOMAIN c \ {s} : e[j].weight = c[j].weight

LEMMA HeavierSum ==
  ASSUME NEW c, NEW e, NEW s, NEW d, Heavier(c, e, s, d)
  PROVE  WeightSum(e) = WeightSum(c) + d /\ c[s].weight <= WeightSum(c)
<1> DEFINE D == DOMAIN c
           w == [i \in D |-> c[i].weight]
           v == [i \in D |-> e[i].weight]
           rest == D \ {s}
<1>1. IsFiniteSet(D) /\ IsFiniteSet(rest) /\ s \in D
  BY FS_Subset DEF Heavier, Competing
<1>2. \A i \in D : c[i].weight \in Nat /\ e[i].weight \in Nat
  BY DEF Heavier, Competing
<1>3. \A i \in D : w[i] \in Nat /\ w[i] \in Int /\ v[i] \in Int
  BY <1>2
<1>4. w[s] = c[s].weight /\ v[s] = c[s].weight + d /\ \A i \in rest : v[i] = w[i]
  BY <1>1 DEF Heavier
<1>5. WeightSum(c) = SumFunctionOnSet(w, D) /\ WeightSum(e) = SumFunctionOnSet(v, D)
  BY DEF WeightSum, Total, Heavier
<1> HIDE DEF w, v
<1>6. SumFunctionOnSet(w, D) = w[s] + SumFunctionOnSet(w, rest)
  BY <1>1, <1>3, SumRemove
<1>7. SumFunctionOnSet(v, D) = v[s] + SumFunctionOnSet(v, rest)
  BY <1>1, <1>3, SumRemove
<1>8. SumFunctionOnSet(w, rest) = SumFunctionOnSet(v, rest)
  BY <1>1, <1>3, <1>4, SumSame
<1>9. SumFunctionOnSet(w, rest) \in Nat
  BY <1>1, <1>3, SumNat
<1> QED BY <1>1, <1>2, <1>4, <1>5, <1>6, <1>7, <1>8, <1>9 DEF Heavier

\* A heavier competitor gets no less.  When its share stays the same, whoever is
\* now ahead of it in the order of the residues was ahead before, or lost a unit
\* of its own share, which is one unit more to hand out.
LEMMA HeavierGetsNoLess ==
  ASSUME NEW c, NEW e, NEW s, NEW d, Heavier(c, e, s, d), NEW amount \in Nat
  PROVE  Shares(e, amount)[s] + LargestRemainder(e, amount)[s]
           >= Shares(c, amount)[s] + LargestRemainder(c, amount)[s]
<1> DEFINE D == DOMAIN c
           W == WeightSum(c)
           f == Shares(c, amount)
           g == Shares(e, amount)
           r == Residues(c, amount)
           t == Residues(e, amount)
           left == amount - Total(f)
           leftAfter == amount - Total(g)
           ahead == LargerResidues(r, s)
           aheadAfter == LargerResidues(t, s)
           fallen == {i \in D : g[i] < f[i]}
<1>1. Competing(c) /\ Competing(e) /\ DOMAIN e = D /\ IsFiniteSet(D) /\ D \subseteq Int /\ s \in D /\ d \in Nat
  BY DEF Heavier, Competing
<1>2. W \in Nat \ {0} /\ WeightSum(e) = W + d /\ c[s].weight <= W
  BY <1>1, HeavierSum, WeightSumPositive
<1>3. \A i \in D : /\ f[i] \in Nat /\ r[i] \in 0..(W - 1)
                   /\ amount * c[i].weight = W * f[i] + r[i]
  BY <1>1, ExactShare
<1>4. \A i \in D : /\ g[i] \in Nat /\ t[i] \in 0..(W + d - 1)
                   /\ amount * e[i].weight = (W + d) * g[i] + t[i]
  BY <1>1, <1>2, ExactShare
<1>5. f \in [D -> Nat] /\ g \in [D -> Nat] /\ DOMAIN r = D /\ DOMAIN t = D
  <2>1. f = [i \in D |-> f[i]] /\ g = [i \in D |-> g[i]] /\ DOMAIN r = D /\ DOMAIN t = D
    BY <1>1 DEF Shares, Residues
  <2> HIDE DEF f, g, r, t
  <2> QED BY <1>3, <1>4, <2>1
<1>6. /\ LargestRemainder(c, amount)[s] = IF Cardinality(ahead) < left THEN 1 ELSE 0
      /\ LargestRemainder(e, amount)[s] = IF Cardinality(aheadAfter) < leftAfter THEN 1 ELSE 0
  BY <1>1 DEF LargestRemainder
<1>7. left \in Int /\ leftAfter \in Int /\ Total(f) \in Int /\ Total(g) \in Int
  <2>1. Total(f) \in Nat
    BY <1>1, Rounding
  <2>2. Total(g) \in Nat
    BY <1>1, Rounding
  <2> HIDE DEF f, g
  <2> QED BY <2>1, <2>2
<1>8. /\ c[s].weight \in Nat /\ e[s].weight = c[s].weight + d
      /\ \A i \in D \ {s} : e[i].weight = c[i].weight /\ c[i].weight \in Nat
  BY DEF Heavier, Competing
<1> DEFINE x == LargestRemainder(c, amount)[s]
           y == LargestRemainder(e, amount)[s]
<1> SUFFICES g[s] + y >= f[s] + x
  OBVIOUS
<1>a. x \in {0, 1} /\ y \in {0, 1} /\ (x = 1 => Cardinality(ahead) < left)
      /\ (Cardinality(aheadAfter) < leftAfter => y = 1)
  BY <1>6
<1> HIDE DEF W, f, g, r, t, x, y
<1>9. g[s] >= f[s] /\ (g[s] = f[s] => t[s] >= r[s])
  <2>1. /\ f[s] \in Nat /\ r[s] \in 0..(W - 1) /\ amount * c[s].weight = W * f[s] + r[s]
        /\ g[s] \in Nat /\ t[s] \in 0..(W + d - 1)
        /\ amount * (c[s].weight + d) = (W + d) * g[s] + t[s]
    BY <1>1, <1>3, <1>4, <1>8
  <2> DEFINE u == c[s].weight
             own == f[s]
             residue == r[s]
  <2>2. own \in Nat /\ residue \in 0..(W - 1) /\ amount * u = W * own + residue /\ u \in Nat /\ u <= W
    BY <1>2, <1>8, <2>1
  <2>3. amount * (u + d) = (W + d) * g[s] + t[s]
    BY <2>1
  <2>a. W \in Nat \ {0} /\ d \in Nat /\ g[s] \in Nat /\ t[s] \in 0..(W + d - 1)
    BY <1>1, <1>2, <2>1
  <2> HIDE DEF u, own, residue
  <2>4. g[s] >= own /\ (g[s] = own => t[s] >= residue)
    BY <2>2, <2>3, <2>a, RaisedShare, ZenonT(40)
  <2> QED BY <2>4 DEF own, residue
<1>10. ASSUME NEW i \in D \ {s} PROVE g[i] <= f[i] /\ (g[i] = f[i] => t[i] <= r[i])
  <2> DEFINE a == amount * c[i].weight
  <2>1. /\ f[i] \in Nat /\ r[i] \in 0..(W - 1) /\ a = W * f[i] + r[i]
        /\ g[i] \in Nat /\ t[i] \in 0..(W + d - 1) /\ a = (W + d) * g[i] + t[i]
    BY <1>3, <1>4, <1>8
  <2>2. a \in Nat
    BY <1>8
  <2> HIDE DEF a
  <2> QED BY <1>1, <1>2, <2>1, <2>2, OtherShare
<1>11. CASE g[s] > f[s]
  <2>1. f[s] \in Nat /\ g[s] \in Nat
    BY <1>1, <1>3, <1>4
  <2> QED BY <1>a, <1>11, <2>1
<1>12. CASE g[s] = f[s] /\ Cardinality(ahead) < left
  <2>1. \A i \in D : g[i] <= f[i]
    BY <1>3, <1>10, <1>12
  <2>2. Cardinality(fallen) <= Total(f) - Total(g)
    BY <1>1, <1>5, <2>1, Losers
  <2>3. aheadAfter \subseteq ahead \cup fallen
    <3> SUFFICES ASSUME NEW i \in aheadAfter, i \notin fallen PROVE i \in ahead
      OBVIOUS
    <3>1. i \in D /\ (t[i] > t[s] \/ (t[i] = t[s] /\ i < s))
      BY <1>5 DEF LargerResidues
    <3>2. i # s
      BY <1>1, <1>4, <3>1
    <3>3. g[i] = f[i]
      BY <1>3, <1>4, <2>1, <3>1
    <3>4. t[i] <= r[i] /\ t[s] >= r[s]
      BY <1>9, <1>10, <1>12, <3>1, <3>2, <3>3
    <3>5. r[i] \in Int /\ r[s] \in Int /\ t[i] \in Int /\ t[s] \in Int
      BY <1>1, <1>3, <1>4, <3>1
    <3>6. r[i] > r[s] \/ (r[i] = r[s] /\ i < s)
      BY <3>1, <3>4, <3>5
    <3> QED BY <1>5, <3>1, <3>6 DEF LargerResidues
  <2>4. IsFiniteSet(ahead) /\ IsFiniteSet(fallen) /\ IsFiniteSet(ahead \cup fallen)
    <3>1. ahead \subseteq D /\ fallen \subseteq D
      BY <1>5 DEF LargerResidues
    <3> HIDE DEF ahead, fallen
    <3>2. ahead \cup fallen \subseteq D
      BY <3>1
    <3> QED BY <1>1, <3>1, <3>2, FS_Subset
  <2> HIDE DEF ahead, aheadAfter, fallen
  <2>5. /\ Cardinality(aheadAfter) <= Cardinality(ahead \cup fallen) /\ IsFiniteSet(aheadAfter)
        /\ Cardinality(ahead \cup fallen)
             = Cardinality(ahead) + Cardinality(fallen) - Cardinality(ahead \cap fallen)
    BY <2>3, <2>4, FS_Subset, FS_Union
  <2>6. /\ Cardinality(ahead) \in Nat /\ Cardinality(fallen) \in Nat
        /\ Cardinality(aheadAfter) \in Nat /\ Cardinality(ahead \cap fallen) \in Nat
    BY <2>4, <2>5, FS_CardinalityType, FS_Intersection
  <2>7. Cardinality(aheadAfter) < leftAfter
    BY <1>7, <1>12, <2>2, <2>5, <2>6
  <2>8. f[s] \in Nat /\ y = 1
    BY <1>1, <1>3, <1>a, <2>7
  <2> QED BY <1>a, <1>12, <2>8
<1>13. CASE g[s] = f[s] /\ ~(Cardinality(ahead) < left)
  <2>1. f[s] \in Nat /\ x = 0
    BY <1>1, <1>3, <1>a, <1>13
  <2> QED BY <1>a, <1>13, <2>1
<1>14. g[s] > f[s] \/ g[s] = f[s]
  <2>1. f[s] \in Nat /\ g[s] \in Nat
    BY <1>1, <1>3, <1>4
  <2> QED BY <1>9, <2>1
<1> QED BY <1>11, <1>12, <1>13, <1>14

\* Without floors nothing is donated: the allocation is the share and its unit of
\* the remainder.
LEMMA WithoutFloors ==
  ASSUME NEW c, Competing(c), \A i \in DOMAIN c : c[i].floor = 0, NEW amount \in Nat, NEW i \in DOMAIN c
  PROVE  allocate_whole(c, amount).allocations[i] = Shares(c, amount)[i] + LargestRemainder(c, amount)[i]
<1> DEFINE D == DOMAIN c
           share == Shares(c, amount)
           need == Need(c, share)
           slack == Slack(c, share)
<1>1. IsFiniteSet(D) /\ \A j \in D : share[j] \in Nat
  BY ExactShare DEF Competing
<1>2. share = [j \in D |-> share[j]]
  BY DEF Shares
<1> HIDE DEF share
<1>3. share \in [D -> Nat]
  BY <1>1, <1>2
<1>4. DOMAIN need = D /\ DOMAIN slack = D /\ \A j \in D : need[j] = 0 /\ slack[j] \in Nat
  BY <1>1 DEF Need, Slack, Excess
<1> HIDE DEF need, slack
<1>5. Total(need) = 0
  <2> DEFINE zero == [j \in D |-> 0]
  <2>1. \A j \in D : zero[j] \in Int /\ need[j] \in Int /\ need[j] = zero[j] /\ need[j] = 0 * zero[j]
    BY <1>4
  <2> HIDE DEF zero
  <2>2. SumFunctionOnSet(need, D) = 0 * SumFunctionOnSet(zero, D)
    BY <1>1, <2>1, SumScaled
  <2>3. SumFunctionOnSet(zero, D) \in Int
    BY <1>1, <2>1, SumInt
  <2> QED BY <1>4, <2>2, <2>3 DEF Total
<1>6. Total(slack) \in Nat
  BY <1>1, <1>4, SumNat DEF Total
<1>7. FloorsFit(c, share)
  BY <1>5, <1>6 DEF FloorsFit, need, slack
<1>8. Reallocated(c, share) = share
  BY <1>3, <1>5, <1>7, Moved DEF need
<1> QED BY <1>7, <1>8 DEF allocate_whole, AllocationResult, share

LEMMA ScatterLevel ==
  ASSUME NEW p, Forest(p), NEW amount, NEW modified, NEW g \in Levels(p)
  PROVE  LET level == Scatter(p, amount, modified)
         IN level[g] = allocate_whole(Competitors(p, g, modified), Part(p, amount, level, g))
<1> DEFINE level == Scatter(p, amount, modified)
<1>1. level = CHOOSE l : IsScatter(p, amount, modified, Levels(p), l)
  BY DEF Scatter, IsScatter, Part
<1>2. \E l : IsScatter(p, amount, modified, Levels(p), l)
  BY ScatterExists
<1> HIDE DEF level
<1>3. IsScatter(p, amount, modified, Levels(p), level)
  BY <1>1, <1>2
<1>4. level[g] = allocate_whole(Competitors(p, g, modified), Part(p, amount, level, g))
  BY <1>3 DEF IsScatter
<1> QED BY <1>4 DEF level

\* q is p with a larger weight for s.
Raised(p, q, s) ==
  /\ PolicyRecord(p) /\ Forest(p) /\ s \in DOMAIN p.subjects
  /\ q = [p EXCEPT !.subjects[s].weight = @ + 1]

\* The raised weight is seen at the level of the subject's group and nowhere else.
LEMMA RaisedNodes ==
  ASSUME NEW p, NEW q, NEW s, Raised(p, q, s)
  PROVE  /\ Forest(p) /\ Forest(q) /\ Levels(q) = Levels(p)
         /\ \A g : Children(q, g) = Children(p, g)
         /\ \A n \in Nodes(p) : Parent(q, n) = Parent(p, n)
         /\ \A n \in Nodes(p) \ {s} : Declared(q, n) = Declared(p, n)
         /\ s \in Nodes(p) /\ s \in DOMAIN p.subjects /\ Parent(p, s) = p.subjects[s].group
         /\ Declared(q, s).weight = Declared(p, s).weight + 1
         /\ Declared(q, s).floor = Declared(p, s).floor /\ Declared(q, s).rank = Declared(p, s).rank
         /\ DOMAIN q.subjects = DOMAIN p.subjects
         /\ \A n \in DOMAIN p.subjects : q.subjects[n].bps = p.subjects[n].bps
<1> DEFINE GroupRecord == [parent : Nat, weight : Nat, floor : Nat, rank : Nat, protected : BOOLEAN]
           SubjectRecord == [group : Nat, weight : Nat, floor : Nat, rank : Nat, bps : Int,
                             protected : BOOLEAN]
<1>1. p \in [groups : [DOMAIN p.groups -> GroupRecord], subjects : [DOMAIN p.subjects -> SubjectRecord]]
  BY DEF Raised, PolicyRecord
<1>2. q.groups = p.groups /\ q.subjects = [p.subjects EXCEPT ![s].weight = @ + 1]
  BY <1>1 DEF Raised
<1>3. s \in DOMAIN p.subjects /\ s \notin DOMAIN p.groups /\ \A t \in DOMAIN p.subjects : p.subjects[t] \in SubjectRecord
  BY <1>1 DEF Raised, Forest, PolicyType
<1>4. /\ DOMAIN q.subjects = DOMAIN p.subjects
      /\ \A t \in DOMAIN p.subjects \ {s} : q.subjects[t] = p.subjects[t]
      /\ q.subjects[s] = [p.subjects[s] EXCEPT !.weight = @ + 1]
  BY <1>2, <1>3
<1>5. /\ q.subjects[s].weight = p.subjects[s].weight + 1
      /\ q.subjects[s].floor = p.subjects[s].floor /\ q.subjects[s].rank = p.subjects[s].rank
      /\ q.subjects[s].bps = p.subjects[s].bps /\ q.subjects[s].group = p.subjects[s].group
  BY <1>3, <1>4
<1> HIDE DEF GroupRecord, SubjectRecord
<1>6. Nodes(q) = Nodes(p) /\ Levels(q) = Levels(p) /\ s \in Nodes(p)
  BY <1>2, <1>3, <1>4 DEF Nodes, Levels
<1>7. \A n \in Nodes(p) : Parent(q, n) = Parent(p, n)
  BY <1>2, <1>4, <1>5 DEF Parent, Nodes
<1>8. \A g : Children(q, g) = Children(p, g)
  BY <1>6, <1>7 DEF Children
<1>9. \A n \in Nodes(p) \ {s} : Declared(q, n) = Declared(p, n)
  BY <1>2, <1>4 DEF Declared, Nodes
<1>10. /\ Declared(q, s) = q.subjects[s] /\ Declared(p, s) = p.subjects[s]
       /\ Parent(p, s) = p.subjects[s].group
  BY <1>2, <1>3 DEF Declared, Parent
<1>11. Forest(p) /\ Forest(q)
  BY RaisedForest DEF Raised
<1>12. \A n \in DOMAIN p.subjects : q.subjects[n].bps = p.subjects[n].bps
  BY <1>4, <1>5
<1> QED BY <1>3, <1>4, <1>5, <1>6, <1>7, <1>8, <1>9, <1>10, <1>11, <1>12

LEMMA OtherLevels ==
  ASSUME NEW p, NEW q, NEW s, Raised(p, q, s), NEW g, g # Parent(p, s), NEW modified
  PROVE  Competitors(q, g, modified) = Competitors(p, g, modified)
<1>1. Children(q, g) = Children(p, g) /\ DOMAIN q.subjects = DOMAIN p.subjects
  BY RaisedNodes
<1>2. \A n \in Children(p, g) : n \in Nodes(p) /\ n # s
  BY DEF Children
<1>3. \A n \in Children(p, g) : Declared(q, n) = Declared(p, n)
  BY <1>2, RaisedNodes
<1>4. \A n \in DOMAIN p.subjects : q.subjects[n].bps = p.subjects[n].bps
  BY RaisedNodes
<1> QED BY <1>1, <1>3, <1>4 DEF Competitors

\* At its own level the subject is heavier by its modifier, which is never 0.
LEMMA OwnLevel ==
  ASSUME NEW p, NEW q, NEW s, Raised(p, q, s)
  PROVE  \E d : Heavier(Competitors(p, Parent(p, s), TRUE), Competitors(q, Parent(p, s), TRUE), s, d)
<1> DEFINE g == Parent(p, s)
           c == Competitors(p, g, TRUE)
           e == Competitors(q, g, TRUE)
           bps == p.subjects[s].bps
           factor == IF BasisPointScale + bps <= 0 THEN 1 ELSE BasisPointScale + bps
           w == Declared(p, s).weight
<1>1. Forest(p) /\ Forest(q) /\ s \in DOMAIN p.subjects /\ s \in Nodes(p) /\ DOMAIN q.subjects = DOMAIN p.subjects
  BY RaisedNodes
<1>2. g \in Levels(p) /\ g \in Levels(q) /\ s \in Children(p, g)
  BY <1>1, ForestShape, RaisedNodes DEF Children
<1>3. Competing(c) /\ Competing(e) /\ DOMAIN c = Children(p, g) /\ DOMAIN e = Children(p, g)
  <2>1. Competing(c) /\ DOMAIN c = Children(p, g)
    BY <1>1, <1>2, LevelsCompete
  <2>2. Competing(e) /\ DOMAIN e = Children(q, g)
    BY <1>1, <1>2, LevelsCompete
  <2>3. Children(q, g) = Children(p, g)
    BY RaisedNodes
  <2> QED BY <2>1, <2>2, <2>3
<1>4. ASSUME NEW n \in Children(p, g), n # s PROVE e[n].weight = c[n].weight
  <2>1. Declared(q, n) = Declared(p, n) /\ Children(q, g) = Children(p, g)
    BY <1>4, RaisedNodes DEF Children
  <2>2. \A k \in DOMAIN p.subjects : q.subjects[k].bps = p.subjects[k].bps
    BY RaisedNodes
  <2> QED BY <1>1, <2>1, <2>2 DEF Competitors
<1>5. bps \in Int /\ w \in Nat
  BY <1>1 DEF Forest, PolicyType
<1>6. factor \in Nat
  <2> HIDE DEF bps
  <2> QED BY <1>5 DEF BasisPointScale
<1>7. /\ q.subjects[s].bps = bps /\ Declared(q, s).weight = w + 1
      /\ Children(q, g) = Children(p, g)
  BY <1>1, RaisedNodes
<1> HIDE DEF g, w
<1>8. c[s].weight = w * factor /\ e[s].weight = (w + 1) * factor
  BY <1>1, <1>2, <1>7 DEF Competitors, effective_share_weight, w
<1> HIDE DEF c, e, bps, factor
<1>9. e[s].weight = c[s].weight + factor
  <2>1. (w + 1) * factor = w * factor + factor
    BY <1>5, <1>6
  <2> QED BY <1>8, <2>1
<1>10. Heavier(c, e, s, factor)
  BY <1>2, <1>3, <1>4, <1>6, <1>9 DEF Heavier
<1> QED BY <1>10 DEF c, e, g

\* The levels above a subject do not see its weight, so its own level has the same
\* part to split as before.
LEMMA SamePart ==
  ASSUME NEW p, NEW q, NEW s, Raised(p, q, s), NEW amount, NEW modified
  PROVE  Part(q, amount, Scatter(q, amount, modified), Parent(p, s))
           = Part(p, amount, Scatter(p, amount, modified), Parent(p, s))
<1> DEFINE g == Parent(p, s)
           was(h) == Part(p, amount, Scatter(p, amount, modified), h)
           is(h) == Part(q, amount, Scatter(q, amount, modified), h)
           B == {h \in Chain(p, g) : is(h) # was(h)}
<1>1. Forest(p) /\ Forest(q) /\ Levels(q) = Levels(p) /\ g \in DOMAIN p.groups
  <2>1. Forest(p) /\ Forest(q) /\ Levels(q) = Levels(p) /\ s \in DOMAIN p.subjects /\ g = p.subjects[s].group
    BY RaisedNodes
  <2> QED BY <2>1 DEF Forest
<1>2. /\ Chain(p, g) \subseteq DOMAIN p.groups /\ g \in Chain(p, g)
      /\ \A h \in Chain(p, g) : p.groups[h].parent # g
      /\ \A h \in Chain(p, g) : p.groups[h].parent \in DOMAIN p.groups => p.groups[h].parent \in Chain(p, g)
  <2>1. Chain(p, g) \subseteq DOMAIN p.groups /\ g \in Chain(p, g)
    BY <1>1, ChainBelow
  <2>2. \A h \in Chain(p, g) : p.groups[h].parent # g
    BY <1>1, ChainLinear
  <2>3. \A i \in DOMAIN p.groups :
          i \in Chain(p, g) <=> g = i \/ \E h \in DOMAIN p.groups : p.groups[h].parent = i /\ h \in Chain(p, g)
    BY <1>1, ChainBelow
  <2> HIDE DEF g
  <2> QED BY <2>1, <2>2, <2>3
<1>3. B = {}
  <2> SUFFICES ASSUME B # {} PROVE FALSE
    OBVIOUS
  <2>1. PICK h \in B : h = NoParent \/ Parent(p, h) \notin B
    <3>1. B \in SUBSET Levels(p)
      BY <1>2 DEF Levels
    <3> HIDE DEF B
    <3> QED BY <1>1, <3>1, RootReached
  <2>2. h \in Chain(p, g) /\ h \in DOMAIN p.groups /\ is(h) # was(h)
    BY <1>2, <2>1
  <2> DEFINE k == Parent(p, h)
  <2>3. /\ h # NoParent /\ h \in Nodes(p) /\ k \in Levels(p) /\ k = p.groups[h].parent
        /\ Parent(q, h) = k
    BY <1>1, <2>2, ForestShape, RaisedNodes DEF Parent
  <2>4. is(h) = Scatter(q, amount, modified)[k].allocations[h]
        /\ was(h) = Scatter(p, amount, modified)[k].allocations[h]
    BY <2>3 DEF Part
  <2>5. k # g
    BY <1>2, <2>2, <2>3
  <2>6. is(k) = was(k)
    <3>1. CASE k = NoParent
      BY <3>1 DEF Part
    <3>2. CASE k # NoParent
      <4>1. k \in Chain(p, g)
        BY <1>2, <2>2, <2>3, <3>2 DEF Levels
      <4> QED BY <2>1, <2>3, <4>1
    <3> QED BY <3>1, <3>2
  <2>7. Competitors(q, k, modified) = Competitors(p, k, modified)
    BY <2>5, OtherLevels
  <2>8. /\ Scatter(p, amount, modified)[k] = allocate_whole(Competitors(p, k, modified), was(k))
        /\ Scatter(q, amount, modified)[k] = allocate_whole(Competitors(q, k, modified), is(k))
    BY <1>1, <2>3, ScatterLevel
  <2> HIDE DEF is, was, k, g
  <2> QED BY <2>2, <2>4, <2>6, <2>7, <2>8
<1>4. is(g) = was(g)
  <2> HIDE DEF is, was, g
  <2> QED BY <1>2, <1>3
<1> QED BY <1>4

LEMMA RaisedGetsNoLess ==
  ASSUME NEW p, NEW q, NEW s, Raised(p, q, s), NEW amount \in Nat,
         \A n \in Nodes(p) : Declared(p, n).floor = 0
  PROVE  Pass(q, Scatter(q, amount, TRUE))[s] >= Pass(p, Scatter(p, amount, TRUE))[s]
<1> DEFINE g == Parent(p, s)
           c == Competitors(p, g, TRUE)
           e == Competitors(q, g, TRUE)
           part == Part(p, amount, Scatter(p, amount, TRUE), g)
<1>1. /\ Forest(p) /\ Forest(q) /\ s \in Nodes(p) /\ g \in Levels(p) /\ g \in Levels(q)
      /\ Children(q, g) = Children(p, g) /\ Parent(q, s) = g
  <2>1. /\ Forest(p) /\ Forest(q) /\ s \in Nodes(p) /\ Levels(q) = Levels(p)
        /\ Children(q, g) = Children(p, g) /\ Parent(q, s) = g
    BY RaisedNodes
  <2> QED BY <2>1, ForestShape
<1>2. PICK d : Heavier(c, e, s, d)
  BY OwnLevel
<1>3. part \in Nat
  BY <1>1, ScatterSplits
<1>4. /\ Scatter(p, amount, TRUE)[g] = allocate_whole(c, part)
      /\ Scatter(q, amount, TRUE)[g] = allocate_whole(e, part)
  <2>1. Scatter(p, amount, TRUE)[g] = allocate_whole(c, part)
    BY <1>1, ScatterLevel
  <2>2. Scatter(q, amount, TRUE)[g] = allocate_whole(e, Part(q, amount, Scatter(q, amount, TRUE), g))
    BY <1>1, ScatterLevel
  <2>3. Part(q, amount, Scatter(q, amount, TRUE), g) = part
    BY SamePart
  <2> QED BY <2>1, <2>2, <2>3
<1>5. /\ Competing(c) /\ Competing(e) /\ s \in DOMAIN c /\ s \in DOMAIN e
  BY <1>2 DEF Heavier
<1>6. (\A i \in DOMAIN c : c[i].floor = 0) /\ (\A i \in DOMAIN e : e[i].floor = 0)
  <2>1. \A n \in Children(p, g) : n \in Nodes(p)
    BY DEF Children
  <2>2. \A n \in Nodes(p) : Declared(q, n).floor = 0
    <3>1. \A n \in Nodes(p) \ {s} : Declared(q, n) = Declared(p, n)
      BY RaisedNodes
    <3>2. Declared(q, s).floor = Declared(p, s).floor
      BY RaisedNodes
    <3> QED BY <3>1, <3>2
  <2>3. DOMAIN c = Children(p, g) /\ \A n \in Children(p, g) : c[n].floor = Declared(p, n).floor
    BY <1>1, LevelsCompete
  <2>4. DOMAIN e = Children(p, g) /\ \A n \in Children(p, g) : e[n].floor = Declared(q, n).floor
    BY <1>1, LevelsCompete
  <2> HIDE DEF c, e, g
  <2> QED BY <2>1, <2>2, <2>3, <2>4
<1>7. s \in Nodes(q)
  BY <1>1 DEF Children
<1> HIDE DEF c, e, part
<1>8. /\ Pass(p, Scatter(p, amount, TRUE))[s] = allocate_whole(c, part).allocations[s]
      /\ Pass(q, Scatter(q, amount, TRUE))[s] = allocate_whole(e, part).allocations[s]
  BY <1>1, <1>4, <1>7 DEF Pass
<1> HIDE DEF g
<1>9. /\ allocate_whole(c, part).allocations[s] = Shares(c, part)[s] + LargestRemainder(c, part)[s]
      /\ allocate_whole(e, part).allocations[s] = Shares(e, part)[s] + LargestRemainder(e, part)[s]
  BY <1>3, <1>5, <1>6, WithoutFloors
<1>10. Shares(e, part)[s] + LargestRemainder(e, part)[s] >= Shares(c, part)[s] + LargestRemainder(c, part)[s]
  BY <1>2, <1>3, HeavierGetsNoLess
<1> QED BY <1>8, <1>9, <1>10

\* Where no floor is declared, raising a subject's weight never lowers its
\* entitlement, through any forest and although the raise moves every residue of
\* the level.
THEOREM WeightIsMonotone == Spec => WeightMonotone
<1>1. IInv /\ IInv' /\ [Next]_vars => [RaiseKeeps]_vars
  <2> SUFFICES ASSUME IInv, IInv', Next, \A n \in Nodes(policy) : Declared(policy, n).floor = 0,
                      NEW s \in DOMAIN policy.subjects,
                      policy'.subjects[s].weight > policy.subjects[s].weight
               PROVE  result'.effective[s] >= result.effective[s]
    BY DEF RaiseKeeps
  <2>1. policy.subjects[s].weight \in Nat
    BY DEF IInv, PolicyRecord
  <2>2. CASE Deliver
    BY <2>1, <2>2 DEF Deliver
  <2>3. CASE \E t \in DOMAIN policy.subjects : Raise(t)
    <3>1. PICK t \in DOMAIN policy.subjects : Raise(t)
      BY <2>3
    <3>2. policy' = [policy EXCEPT !.subjects[t].weight = @ + 1] /\ whole' = whole
      BY <3>1 DEF Raise
    <3>3. Raised(policy, policy', t)
      BY <3>2 DEF Raised, IInv
    <3>4. t = s
      <4> SUFFICES ASSUME t # s PROVE FALSE
        OBVIOUS
      <4>1. s \in Nodes(policy) \ {t} /\ s \notin DOMAIN policy.groups
        BY DEF Nodes, IInv, Forest, PolicyType
      <4>2. policy'.groups = policy.groups
        BY <3>2 DEF IInv, PolicyRecord
      <4>3. policy'.subjects[s] = policy.subjects[s]
        <5>1. Declared(policy', s) = Declared(policy, s)
          BY <3>3, <4>1, RaisedNodes
        <5> QED BY <4>1, <4>2, <5>1 DEF Declared
      <4> QED BY <2>1, <4>3
    <3>5. /\ result.effective = Pass(policy, Scatter(policy, whole, TRUE))
          /\ result'.effective = Pass(policy', Scatter(policy', whole, TRUE))
      BY <3>2 DEF IInv, Evaluated, Outcome, Pass
    <3>6. whole \in Nat
      BY DEF IInv
    <3> QED BY <3>3, <3>4, <3>5, <3>6, RaisedGetsNoLess
  <2> QED BY <2>2, <2>3 DEF Next
<1> QED BY <1>1, Invariance, PTL DEF Spec, WeightMonotone

===============================================================================
