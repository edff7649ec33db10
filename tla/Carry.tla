-------------------------------- MODULE Carry --------------------------------
(***************************************************************************)
(* The deficit/credit carry of one subject (src/src/model/accounting.cpp)  *)
(* over a sequence of committed windows, under a carry bound that policies *)
(* may change in between.  commit() applies net = entitlement - served; an *)
(* application that would overflow a 64-bit field is refused as a whole.   *)
(***************************************************************************)
EXTENDS CarryRules

CONSTANTS Nets,      \* window nets explored
          Bounds     \* values of policy.max_carry_units

ASSUME CarryAssumption ==
  /\ Nets \subseteq Int
  /\ Bounds \subseteq Nat

VARIABLES entry,     \* the durable fields of SubjectAccounting
          maxCarry,  \* the bound of the policy in force
          netSum,    \* history: sum of the nets applied
          settled    \* history: a window was applied under the present bound

carryVars == <<entry, maxCarry, netSum, settled>>

Word == 0..WordMax

CarryEntry == [cumulative_deficit : Word, cumulative_surplus : Word,
               discarded_deficit : Word, discarded_surplus : Word]

CarryTypeOK ==
  /\ entry \in CarryEntry
  /\ maxCarry \in Bounds
  /\ netSum \in Int
  /\ settled \in BOOLEAN

CarryInit ==
  /\ entry = [cumulative_deficit |-> 0, cumulative_surplus |-> 0,
              discarded_deficit |-> 0, discarded_surplus |-> 0]
  /\ maxCarry \in Bounds
  /\ netSum = 0
  /\ settled = FALSE

\* Mutant of CarryFits: the discarded totals are added without a check.
CarryFitsUnchecked(net) == InRange(Recognize(entry, net))

\* Every addition is a checked_add, before and after the bound is applied.
CarryFits(net) ==
  /\ InRange(Recognize(entry, net))
  /\ InRange(Saturate(Recognize(entry, net), maxCarry))

\* apply_window_carry succeeds and commit() stores what it returns.
ApplyWindow(net) ==
  /\ CarryFits(net)
  /\ entry' = Saturate(Recognize(entry, net), maxCarry)
  /\ netSum' = netSum + net
  /\ settled' = TRUE
  /\ UNCHANGED maxCarry

\* It reports overflow: commit() refuses the decision, nothing changes.
RefuseWindow(net) ==
  /\ ~CarryFits(net)
  /\ UNCHANGED carryVars

\* A policy with another bound is installed; the carry is not touched.
InstallBound(bound) ==
  /\ maxCarry' = bound
  /\ settled' = FALSE
  /\ UNCHANGED <<entry, netSum>>

CarryNext ==
  \/ \E net \in Nets : ApplyWindow(net) \/ RefuseWindow(net)
  \/ \E bound \in Bounds : InstallBound(bound)

CarrySpec == CarryInit /\ [][CarryNext]_carryVars

-------------------------------------------------------------------------------
(* Properties.                                                             *)

\* accounting_closes: after any sequence of windows and bounds, what is carried
\* and what was discarded add up to the nets applied, to the unit.
Closes ==
  entry.cumulative_deficit - entry.cumulative_surplus
    + entry.discarded_deficit - entry.discarded_surplus = netSum

\* A subject never carries a deficit and a surplus at once, so neither hides
\* the other from the planner.
OneSided == entry.cumulative_deficit = 0 \/ entry.cumulative_surplus = 0

\* Once a window was applied under a bound, the carry is within it, even when
\* a policy had lowered the bound below what was carried.
WithinBound ==
  settled => entry.cumulative_deficit <= maxCarry /\ entry.cumulative_surplus <= maxCarry

\* What a subject carries is one number, deficit or credit, and it is bounded
\* by the policy in force as soon as a window was counted under it.
Bounded == OneSided /\ WithinBound
===============================================================================
