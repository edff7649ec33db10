---------------------------- MODULE MCDurableStore ----------------------------
(* DurableStore for TLC: two payloads, a few generations, chosen faults.   *)
EXTENDS DurableStore

TornOnly == {"torn_replace"}
TornAndRestore == {"torn_replace", "restore"}
===============================================================================
