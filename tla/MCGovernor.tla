------------------------------ MODULE MCGovernor ------------------------------
(* Governor for TLC: policies that renew the subject, with a later and,    *)
(* for open() only, an earlier epoch; evidence for two windows.            *)
EXTENDS Governor

P(g, e, s) == [gen |-> g, epoch |-> e, sgen |-> s]
Ev(i, g, w, e, n, s) ==
  [id |-> i, gen |-> g, win |-> w, epoch |-> e, pub |-> 1, seq |-> n, sgen |-> s, data |-> i]

MCPolicies == {P(1, 1, 1), P(2, 2, 2), P(3, 1, 2)}
MCEvidence == {Ev(1, 1, 1, 1, 1, 1), Ev(1, 2, 1, 1, 2, 1), Ev(2, 1, 2, 1, 2, 1), Ev(3, 1, 2, 2, 1, 2)}
===============================================================================
