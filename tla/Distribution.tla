----------------------------- MODULE Distribution -----------------------------
(***************************************************************************)
(* The Distributor on its own: a behaviour watches the entitlements of one *)
(* valid policy while the whole observed in a window grows and the         *)
(* operator raises weights.                                                *)
(***************************************************************************)
EXTENDS GroupForest

CONSTANTS Policies,    \* the policies explored
          MaxWhole,    \* bound on the whole
          MaxWeight    \* bound on a raised weight

\* A policy as it is declared: every field is there, with its type.
PolicyRecord(p) ==
  /\ PolicyType(p)
  /\ p \in [groups : [DOMAIN p.groups -> [parent : Nat, weight : Nat, floor : Nat, rank : Nat,
                                          protected : BOOLEAN]],
            subjects : [DOMAIN p.subjects -> [group : Nat, weight : Nat, floor : Nat, rank : Nat,
                                              bps : Int, protected : BOOLEAN]]]

ASSUME PoliciesAssumption == \A p \in Policies : PolicyRecord(p)

VARIABLES policy, whole,
          result       \* subject and group entitlements of both passes

vars == <<policy, whole, result>>

Init ==
  /\ policy \in {p \in Policies : ValidPolicy(p)}
  /\ whole = 0
  /\ result = Evaluated(policy, 0)

\* The next window delivers one unit more.
Deliver ==
  /\ whole < MaxWhole
  /\ whole' = whole + 1
  /\ result' = Evaluated(policy, whole + 1)
  /\ UNCHANGED policy

\* The operator raises one subject's weight.
Raise(s) ==
  /\ policy.subjects[s].weight < MaxWeight
  /\ policy' = [policy EXCEPT !.subjects[s].weight = @ + 1]
  /\ result' = Evaluated(policy', whole)
  /\ UNCHANGED whole

Next == Deliver \/ \E s \in DOMAIN policy.subjects : Raise(s)

Spec == Init /\ [][Next]_vars

-------------------------------------------------------------------------------
(* Properties.                                                             *)

\* What the level of group g was asked to split.
LevelWhole(pass, g) == IF g = NoParent THEN whole ELSE pass[g]

\* Both passes give every unit of the whole to exactly one subject, through
\* any forest: no rounding, floor or donation creates or loses a unit.
Conserves ==
  \A pass \in {result.base, result.effective} :
    /\ SumFunctionOnSet(pass, DOMAIN policy.subjects) = whole
    /\ \A g \in Levels(policy) :
         SumFunctionOnSet(pass, Children(policy, g)) = LevelWhole(pass, g)

\* Where no overcommit is reported, every floor is met: a donor is never taken
\* below its own floor to raise another, and no modifier waives a floor.  This
\* is what the engine does for every policy.  For one with
\* enforce_guarantee_floors = false it is not what policy.hpp:118-121 describes:
\* the flag is stored and parsed, and the engine never reads it.
FloorsMet ==
  \A n \in Nodes(policy) :
    Parent(policy, n) \notin result.overcommit =>
      result.effective[n] >= Declared(policy, n).floor

\* Where floors cannot all be met, none is short while a sibling of weaker
\* obligation gets anything, whatever enforce_guarantee_floors says.
StrongestFirst ==
  \A g \in result.overcommit : \A a, b \in Children(policy, g) :
    /\ Declared(policy, a).rank > Declared(policy, b).rank
    /\ result.effective[a] < Declared(policy, a).floor
    => result.effective[b] = 0

\* Reference definition of a fair split: without floors in play, everybody gets
\* the exact rational share rounded down or up, at every level of the forest.
WithinQuota ==
  \A g \in Levels(policy) :
    LET c == Competitors(policy, g, TRUE)
        amount == LevelWhole(result.effective, g)
    IN Total(Need(c, Shares(c, amount))) = 0 =>
         \A n \in DOMAIN c :
           LET error == result.effective[n] * WeightSum(c) - amount * c[n].weight
           IN -WeightSum(c) < error /\ error < WeightSum(c)

\* Without floors, a subject whose weight grows keeps what it is entitled to.
RaiseKeeps ==
  (\A n \in Nodes(policy) : Declared(policy, n).floor = 0) =>
    \A s \in DOMAIN policy.subjects :
      policy'.subjects[s].weight > policy.subjects[s].weight
        => result'.effective[s] >= result.effective[s]

\* tests/property/test_property_allocation.cpp, monotone_in_weight, through any
\* forest: where no floor is declared, raising a subject's weight never lowers
\* its entitlement, although it changes every residue.
WeightMonotone == [][RaiseKeeps]_vars
===============================================================================
