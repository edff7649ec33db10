------------------------------ MODULE MCWindows ------------------------------
(* Windows for TLC: a protected subject, one that starves after two windows *)
(* and one that is over-served; the evidence may miss the second.  The      *)
(* second policy drops that subject, renews the third and adds another.     *)
EXTENDS Windows, TLC

Subject(group, floor, rank, protected, starvation, guarantee) ==
  [group |-> group, generation |-> 1, weight |-> 1, floor |-> floor, rank |-> rank, bps |-> 0,
   protected |-> protected, starvation_windows |-> starvation,
   guarantee_starvation_windows |-> guarantee,
   max_reduce_units |-> 3, max_augment_units |-> 2]

Bounds(groups, subjects) ==
  [groups |-> groups, subjects |-> subjects,
   fair_band_units |-> 0, correction_threshold_units |-> 2, cooldown_windows |-> 2,
   max_correction_units |-> 3, max_correction_bps |-> 8000, max_carry_units |-> 3]

Group == [parent |-> NoParent, weight |-> 1, floor |-> 0, rank |-> 0, protected |-> FALSE]

Nested == 1 :> Group @@ 2 :> [Group EXCEPT !.parent = 1, !.floor = 3, !.rank = 2]

Guaranteed == Subject(1, 2, 1, TRUE, 0, 2)
Starvable  == Subject(1, 0, 0, FALSE, 2, 0)
Large      == Subject(2, 3, 2, FALSE, 0, 0)

TwoPolicies ==
  << Bounds(Nested, 11 :> Guaranteed @@ 12 :> Starvable @@ 13 :> Large),
     [Bounds(Nested, 11 :> Guaranteed @@ 13 :> [Large EXCEPT !.generation = 2] @@ 14 :> Starvable)
        EXCEPT !.max_carry_units = 2] >>

ProtectedGroup ==
  << Bounds(1 :> [Group EXCEPT !.floor = 3, !.rank = 1, !.protected = TRUE] @@ 2 :> Group,
            11 :> Subject(1, 0, 0, FALSE, 0, 0) @@ 12 :> Subject(1, 0, 0, FALSE, 0, 0)
              @@ 13 :> Subject(2, 0, 0, FALSE, 2, 0)) >>

Observed(n) == [served |-> n, unserved_streak |-> 0, below_floor_streak |-> 0]

Claimed(n) == [served |-> 0, unserved_streak |-> n, below_floor_streak |-> 0]

MCObservations ==
  11 :> {Observed(1), Observed(3)} @@ 12 :> {Missing, Observed(0), Claimed(3), Observed(2)}
    @@ 13 :> {Observed(0), Observed(4)} @@ 14 :> {Observed(0), Observed(2)}

GroupObserved ==
  11 :> {Observed(3), Observed(4)} @@ 12 :> {Observed(0), Observed(1)} @@ 13 :> {Observed(0)}
===============================================================================
