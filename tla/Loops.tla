------------------------------- MODULE Loops -------------------------------
(***************************************************************************)
(* The loops of the code over data, whose steps are functions: unlike a    *)
(* fold over a sequence, whose step is an operator, theorems can be cited  *)
(* about them.                                                             *)
(***************************************************************************)
EXTENDS Integers

\* The values of a variable before the first and after each of n turns: turn
\* k makes step[k][v] of v.
Turns(n, step, first) ==
  LET value[k \in 0 .. n] == IF k = 0 THEN first ELSE step[k][value[k - 1]]
  IN  value

Loop(n, step, first) == Turns(n, step, first)[n]

\* pow(2, n).
PowerOfTwo(n) == Loop(n, [k \in 1 .. n |-> [v \in Nat |-> 2 * v]], 1)
=============================================================================
