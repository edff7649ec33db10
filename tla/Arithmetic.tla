------------------------------ MODULE Arithmetic ------------------------------
(* The two saturating forms that the unsigned arithmetic of the code is     *)
(* written with: std::min, and "a > b ? a - b : 0".                         *)
EXTENDS Integers

Least(a, b) == IF a < b THEN a ELSE b
Excess(a, bound) == IF a > bound THEN a - bound ELSE 0
===============================================================================
