------------------------------- MODULE Loops -------------------------------
(***************************************************************************)
(* The loops of the pure algorithms: a body is an operator on the values   *)
(* of the variables of its loop, and leaves them alone when it has ended.  *)
(* A loop over a sequence takes its elements in turn.                      *)
(***************************************************************************)
EXTENDS Naturals, Sequences

\* What n rounds of Body make of start.
Repeated(Body(_), start, n) ==
  LET after[k \in Nat] == IF k = 0 THEN start ELSE Body(after[k - 1])
  IN after[n]

\* What Body makes of start and the elements of s, one after the other.
Folded(Body(_, _), start, s) ==
  LET after[k \in 0..Len(s)] == IF k = 0 THEN start ELSE Body(after[k - 1], s[k])
  IN after[Len(s)]

Power2(n) == Repeated(LAMBDA p : 2 * p, 1, n)
===========================================================================
