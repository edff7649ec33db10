---------------------------- MODULE MCDistribution ----------------------------
(* Distribution for TLC: one group with three subjects, two roots, and a    *)
(* root with a nested group, over small weights, floors, ranks, modifiers.  *)
EXTENDS Distribution, TLC

G(parent, floor) == [parent |-> parent, weight |-> 1, floor |-> floor, rank |-> 0,
                      protected |-> FALSE]

S(group, weight, floor, rank, bps) ==
  [group |-> group, weight |-> weight, floor |-> floor, rank |-> rank,
   bps |-> bps, protected |-> FALSE]

\* One group, three subjects that differ in everything.
Flat ==
  {[groups |-> 1 :> G(NoParent, 0),
    subjects |-> 11 :> S(1, w, f1, r, b) @@ 12 :> S(1, 1, f2, 1, 0) @@ 13 :> S(1, 1, f3, 0, 0)] :
     w \in 1..2, f1 \in 0..2, f2 \in {0, 2}, f3 \in 0..1, r \in {0, 2}, b \in {-10000, 5000}}

\* A nested group competes with its parent's own subject; the parent may have
\* a floor that must cover theirs.
Nested ==
  {[groups |-> 1 :> G(NoParent, f) @@ 2 :> G(1, f2),
    subjects |-> 11 :> S(1, 2, f1, 1, 5000) @@ 12 :> S(2, 1, f2 \div 2, 0, 0) @@ 13 :> S(2, w, 0, r, -10000)] :
     f \in {0, 3}, f1 \in 0..2, f2 \in {0, 2}, w \in 1..2, r \in 0..1}

\* Two root groups.
Forest ==
  {[groups |-> 1 :> G(NoParent, f1) @@ 2 :> G(NoParent, f2),
    subjects |-> 11 :> S(1, 1, 0, 0, 0) @@ 12 :> S(1, w, 1, 1, 0) @@ 13 :> S(2, 1, f3, 0, 0)] :
     f1 \in {0, 2}, f2 \in {0, 2}, w \in 1..2, f3 \in 0..2}

MCPolicies == Flat \cup Nested \cup Forest
===============================================================================
