------------------------------- MODULE MCCarry -------------------------------
(* Carry for TLC: a word of 0..7 stands for the 64-bit fields, so that     *)
(* every checked addition is reached from both sides.                      *)
EXTENDS Carry

MCNets == -4..4
===============================================================================
