------------------------------ MODULE CarryRules ------------------------------
(***************************************************************************)
(* The arithmetic of apply_window_carry (src/src/model/accounting.cpp): a  *)
(* window's net is taken against the carry, then the carry is cut to the   *)
(* policy's bound.  Both halves are pure.                                  *)
(***************************************************************************)
EXTENDS Integers, Arithmetic

CONSTANT WordMax     \* largest value of an unsigned field (2^64 - 1 in the code)

ASSUME WordAssumption == WordMax \in Nat

\* A deficit first uses up the surplus carried, a surplus the deficit carried;
\* only the rest is carried on.
Recognize(cur, net) ==
  LET credit == Least(net, cur.cumulative_surplus)
      debit  == Least(-net, cur.cumulative_deficit)
  IN IF net >= 0
     THEN [cumulative_deficit |-> cur.cumulative_deficit + (net - credit),
           cumulative_surplus |-> cur.cumulative_surplus - credit,
           discarded_deficit |-> cur.discarded_deficit,
           discarded_surplus |-> cur.discarded_surplus]
     ELSE [cumulative_deficit |-> cur.cumulative_deficit - debit,
           cumulative_surplus |-> cur.cumulative_surplus + (-net - debit),
           discarded_deficit |-> cur.discarded_deficit,
           discarded_surplus |-> cur.discarded_surplus]

\* Mutant of Saturate: what is cut off is not recorded.
SaturateSilently(cur, bound) ==
  [cur EXCEPT !.cumulative_deficit = Least(@, bound), !.cumulative_surplus = Least(@, bound)]

\* Mutant of Saturate: only the deficit is bounded.
SaturateDeficitOnly(cur, bound) ==
  [cur EXCEPT !.cumulative_deficit = Least(@, bound),
              !.discarded_deficit = @ + Excess(cur.cumulative_deficit, bound)]

\* What exceeds the bound is moved to the discarded totals.
Saturate(cur, bound) ==
  [cumulative_deficit |-> Least(cur.cumulative_deficit, bound),
   cumulative_surplus |-> Least(cur.cumulative_surplus, bound),
   discarded_deficit |-> cur.discarded_deficit + Excess(cur.cumulative_deficit, bound),
   discarded_surplus |-> cur.discarded_surplus + Excess(cur.cumulative_surplus, bound)]

InRange(e) ==
  /\ e.cumulative_deficit <= WordMax
  /\ e.cumulative_surplus <= WordMax
  /\ e.discarded_deficit <= WordMax
  /\ e.discarded_surplus <= WordMax
===============================================================================
