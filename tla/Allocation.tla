------------------------------ MODULE Allocation ------------------------------
(***************************************************************************)
(* allocate_whole (src/src/eval/engine.cpp): a whole is split among        *)
(* competitors by weight, floors are met out of what others have above     *)
(* theirs, and rounding residue is handed out a unit at a time.            *)
(*                                                                         *)
(* Competitors are a function from keys to [weight, floor, rank]; the key  *)
(* is the tie-break of the code and the only trace of input order.         *)
(***************************************************************************)
EXTENDS Integers, FiniteSets, FiniteSetsExt, Functions, Arithmetic

BasisPointScale == 10000

\* effective_share_weight: never 0, so no subject loses all of its share.
effective_share_weight(weight, bps) ==
  weight * (IF BasisPointScale + bps <= 0 THEN 1 ELSE BasisPointScale + bps)

Total(f) == SumFunctionOnSet(f, DOMAIN f)

WeightSum(c) == Total([i \in DOMAIN c |-> c[i].weight])

\* The loop "for index in order: take min(want, remaining)": each member gets
\* what it wants of the amount left by those the order, a strict total order
\* given as its pairs, puts before it.
Greedy(want, order, amount) ==
  [i \in DOMAIN want |->
     LET before == {j \in DOMAIN want : <<j, i>> \in order}
     IN Least(want[i], Excess(amount, SumFunctionOnSet(want, before)))]

\* Step 1: floor(amount * weight / sum of weights), and its remainder.
Shares(c, amount) ==
  LET sum == WeightSum(c) IN [i \in DOMAIN c |-> (amount * c[i].weight) \div sum]
Residues(c, amount) ==
  LET sum == WeightSum(c) IN [i \in DOMAIN c |-> (amount * c[i].weight) % sum]

\* Mutant of LargestRemainder: the first key takes all that rounding left.
LargestRemainderToFirst(c, amount) ==
  LET left == amount - Total(Shares(c, amount))
  IN [i \in DOMAIN c |-> IF i = Min(DOMAIN c) THEN left ELSE 0]

\* Mutant of LargestRemainder: the comparison of residues is reversed.
LargestRemainderReversed(c, amount) ==
  LET left == amount - Total(Shares(c, amount))
      r    == Residues(c, amount)
      Ahead(i) == {j \in DOMAIN c : r[j] < r[i] \/ (r[j] = r[i] /\ j < i)}
  IN [i \in DOMAIN c |-> IF Cardinality(Ahead(i)) < left THEN 1 ELSE 0]

\* Those that come before i when a unit each goes to the largest residues, the
\* smaller key first among equals.
LargerResidues(residue, i) ==
  {j \in DOMAIN residue : residue[j] > residue[i] \/ (residue[j] = residue[i] /\ j < i)}

\* Step 3: what rounding down left of the amount, handed out by residue.
LargestRemainder(c, amount) ==
  LET left    == amount - Total(Shares(c, amount))
      residue == Residues(c, amount)
  IN [i \in DOMAIN c |-> IF Cardinality(LargerResidues(residue, i)) < left THEN 1 ELSE 0]

\* Step 2: what the shares lack of the floors, and have above them.
Need(c, share)  == [i \in DOMAIN c |-> Excess(c[i].floor, share[i])]
Slack(c, share) == [i \in DOMAIN c |-> Excess(share[i], c[i].floor)]

\* Largest slack first, then weaker obligation, then smaller key.
DonatesBefore(c, slack, a, b) ==
  \/ slack[a] > slack[b]
  \/ slack[a] = slack[b] /\ c[a].rank < c[b].rank
  \/ slack[a] = slack[b] /\ c[a].rank = c[b].rank /\ a < b

\* Mutant of Reallocated: the needy are not raised to their floor.
ReallocatedNotRaised(c, share) ==
  LET slack == Slack(c, share)
      order == {o \in (DOMAIN c) \X (DOMAIN c) : DonatesBefore(c, slack, o[1], o[2])}
      given == Greedy(slack, order, Total(Need(c, share)))
  IN [i \in DOMAIN c |-> share[i] - given[i]]

\* The shortfall is covered by the slack: donors give in order, and the needy
\* get exactly their floor.
Reallocated(c, share) ==
  LET need  == Need(c, share)
      slack == Slack(c, share)
      order == {o \in (DOMAIN c) \X (DOMAIN c) : DonatesBefore(c, slack, o[1], o[2])}
      given == Greedy(slack, order, Total(need))
  IN [i \in DOMAIN c |-> share[i] + need[i] - given[i]]

\* Mutant of ServedBefore: the weaker obligation is served first.
ServedBeforeWeakest(c, a, b) ==
  \/ c[a].rank < c[b].rank
  \/ c[a].rank = c[b].rank /\ c[a].floor > c[b].floor
  \/ c[a].rank = c[b].rank /\ c[a].floor = c[b].floor /\ a < b

\* The order in which floors are served when the slack does not cover them.
ServedBefore(c, a, b) ==
  \/ c[a].rank > c[b].rank
  \/ c[a].rank = c[b].rank /\ c[a].floor > c[b].floor
  \/ c[a].rank = c[b].rank /\ c[a].floor = c[b].floor /\ a < b

\* What is left after the grants is split by weight with its own residues.
Topped(c, granted, rest) ==
  LET share == Shares(c, rest)
      extra == LargestRemainder(c, rest)
  IN [i \in DOMAIN c |-> granted[i] + share[i] + extra[i]]

\* The slack does not cover it: floors are granted in obligation order.
Overcommitted(c, amount) ==
  LET floors  == [i \in DOMAIN c |-> c[i].floor]
      order   == {o \in (DOMAIN c) \X (DOMAIN c) : ServedBefore(c, o[1], o[2])}
      granted == Greedy(floors, order, amount)
  IN Topped(c, granted, amount - Total(granted))

\* need <= slack, which includes need = 0.
FloorsFit(c, share) == Total(Need(c, share)) <= Total(Slack(c, share))

\* AllocationResult; the shortfall is that of the floors when they did not fit.
AllocationResult(c, share, allocations, overcommit) ==
  LET short == Need(c, allocations)
  IN [allocations |-> allocations,
      floor_binding |-> {i \in DOMAIN c : c[i].floor > share[i] /\ short[i] = 0},
      overcommit |-> overcommit,
      overcommit_shortfall |-> IF overcommit THEN Total(short) ELSE 0]

allocate_whole(c, amount) ==
  LET share == Shares(c, amount)
      moved == Reallocated(c, share)
      extra == LargestRemainder(c, amount)
  IN IF FloorsFit(c, share)
     THEN AllocationResult(c, share, [i \in DOMAIN c |-> moved[i] + extra[i]], FALSE)
     ELSE AllocationResult(c, share, Overcommitted(c, amount), TRUE)
===============================================================================
