----------------------------- MODULE GroupForest -----------------------------
(***************************************************************************)
(* Policies and the Distributor (src/src/model/policy.cpp and              *)
(* src/src/eval/engine.cpp): the whole observed in a window is split       *)
(* top-down through the group forest of a policy, once with the declared   *)
(* weights (base) and once with the weights modified by the subjects'      *)
(* value modifiers (effective).                                            *)
(***************************************************************************)
EXTENDS Allocation

NoParent == 0          \* the invalid group id: "root group"
MaxGroupDepth == 8     \* kMaxGroupDepth

\* A policy is [groups |-> function from group ids, subjects |-> function from
\* subject ids].  composite_key puts every group id below every subject id.
Nodes(p)  == DOMAIN p.groups \cup DOMAIN p.subjects
Parent(p, n) == IF n \in DOMAIN p.groups THEN p.groups[n].parent ELSE p.subjects[n].group
Children(p, g) == {n \in Nodes(p) : Parent(p, n) = g}
Declared(p, n) == IF n \in DOMAIN p.groups THEN p.groups[n] ELSE p.subjects[n]

\* The fields a policy declares for its groups and subjects: ids of the two kinds
\* are apart, numbers are unsigned except for the modifier.
PolicyType(p) ==
  /\ IsFiniteSet(DOMAIN p.groups) /\ DOMAIN p.groups \subseteq Nat \ {NoParent}
  /\ IsFiniteSet(DOMAIN p.subjects) /\ DOMAIN p.subjects \subseteq Nat \ DOMAIN p.groups
  /\ \A n \in Nodes(p) :
       Declared(p, n).weight \in Nat /\ Declared(p, n).floor \in Nat /\ Declared(p, n).rank \in Nat
  /\ \A s \in DOMAIN p.subjects : p.subjects[s].bps \in Int

\* The walk to the root, cut off at the depth bound as the code cuts it.
Depth(p, g) ==
  LET up[k \in 0..MaxGroupDepth] ==
        IF k = 0 THEN g
        ELSE IF up[k - 1] = NoParent THEN NoParent ELSE p.groups[up[k - 1]].parent
  IN Cardinality({k \in 0..MaxGroupDepth : up[k] # NoParent})

\* A group of a valid policy and the groups above it.
Chain(p, g) ==
  LET chain[h \in DOMAIN p.groups] ==
        {h} \cup (IF p.groups[h].parent = NoParent THEN {} ELSE chain[p.groups[h].parent])
  IN chain[g]

\* validate_policy: the forest is well-founded and bounded, every group holds
\* a subject, a protected obligation has a rank, and a group with a floor can
\* honour the floors of its direct children.
ValidPolicy(p) ==
  /\ DOMAIN p.subjects # {}
  /\ \A g \in DOMAIN p.groups : p.groups[g].parent \in (DOMAIN p.groups \ {g}) \cup {NoParent}
  /\ \A s \in DOMAIN p.subjects : p.subjects[s].group \in DOMAIN p.groups
  /\ \A g \in DOMAIN p.groups : Depth(p, g) <= MaxGroupDepth
  /\ \A n \in Nodes(p) : Declared(p, n).weight >= 1
  /\ \A n \in Nodes(p) : Declared(p, n).protected => Declared(p, n).rank > 0
  /\ \A g \in DOMAIN p.groups : \E s \in DOMAIN p.subjects : p.subjects[s].group = g
  /\ \A g \in DOMAIN p.groups :
        p.groups[g].floor > 0 =>
          MapThenSumSet(LAMBDA n : Declared(p, n).floor, Children(p, g)) <= p.groups[g].floor

\* inputs_for: only subjects have a modifier, and only the second pass uses it.
\* Floors always take part: the engine never reads the policy's
\* enforce_guarantee_floors, so policies here have no such field (policy.hpp:118
\* says that false leaves the pure weighted share).
Competitors(p, g, modified) ==
  [n \in Children(p, g) |->
     LET bps == IF modified /\ n \in DOMAIN p.subjects THEN p.subjects[n].bps ELSE 0
     IN [weight |-> effective_share_weight(Declared(p, n).weight, bps),
         floor |-> Declared(p, n).floor, rank |-> Declared(p, n).rank]]

Levels(p) == DOMAIN p.groups \cup {NoParent}

\* Mutant of Scatter: a nested level is handed the whole, not its group's part.
ScatterWhole(p, amount, modified) ==
  [g \in Levels(p) |-> allocate_whole(Competitors(p, g, modified), amount)]

\* distribute and scatter: every level of the forest splits what its group was
\* given by the level above.
Scatter(p, amount, modified) ==
  LET level[g \in Levels(p)] ==
        allocate_whole(Competitors(p, g, modified),
                       IF g = NoParent THEN amount ELSE level[Parent(p, g)].allocations[g])
  IN level

\* What the two passes leave behind; overcommit and floors are those of the
\* second.
Outcome(p, base, effective) ==
  [base |-> [n \in Nodes(p) |-> base[Parent(p, n)].allocations[n]],
   effective |-> [n \in Nodes(p) |-> effective[Parent(p, n)].allocations[n]],
   floor_binding |-> {s \in DOMAIN p.subjects : s \in effective[Parent(p, s)].floor_binding},
   overcommit |-> {g \in Levels(p) : effective[g].overcommit},
   overcommit_shortfall |->
     MapThenSumSet(LAMBDA g : effective[g].overcommit_shortfall, Levels(p))]

Evaluated(p, amount) == Outcome(p, Scatter(p, amount, FALSE), Scatter(p, amount, TRUE))
===============================================================================
