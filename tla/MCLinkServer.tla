----------------------------- MODULE MCLinkServer -----------------------------
(* LinkServer for TLC: more peers than the connection budget.  No symmetry, *)
(* because the runs check liveness.                                         *)
EXTENDS LinkServer
===============================================================================
