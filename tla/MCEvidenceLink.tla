---------------------------- MODULE MCEvidenceLink ----------------------------
(* EvidenceLink for TLC: two snapshots of different windows and one that   *)
(* repeats an identity with other content.                                 *)
EXTENDS EvidenceLink, TLC

P(g, e) == [gen |-> g, epoch |-> e, sgen |-> 1]
Ev(i, w, n, x) ==
  [id |-> i, gen |-> 1, win |-> w, epoch |-> 1, pub |-> 1, seq |-> n, sgen |-> 1, data |-> x]

MCPolicies == {P(1, 1)}
MCEvidence == {Ev(1, 1, 1, 1), Ev(1, 1, 1, 2), Ev(2, 2, 2, 1)}

\* One publisher that submits twice, or two that submit once.
MCLoads == {<<2, 0>>, <<1, 1>>}
===============================================================================
