----------------------------- MODULE Backoffs -----------------------------
(***************************************************************************)
(* updater.go: the arithmetic of retryDelay, on signed machine integers.   *)
(***************************************************************************)
EXTENDS Integers, Loops

CONSTANT MaxInt  \* 2^63 - 1 in the code

ASSUME MaxIntAssumption == MaxInt \in Nat

\* Two's complement.
Wrapped(n) == ((n + MaxInt + 1) % (2 * (MaxInt + 1))) - (MaxInt + 1)

\* The delay for the failure after one that was delayed by delay.
DoubledThenCapped(delay, max) ==
  IF delay >= max THEN delay
  ELSE IF Wrapped(2 * delay) > max THEN max ELSE Wrapped(2 * delay)
Doubled(delay, max) ==
  IF delay >= max THEN delay
  ELSE IF delay > max \div 2 THEN max ELSE Wrapped(2 * delay)

RetryDelay(initial, max, failures) ==
  Repeated(LAMBDA delay : Doubled(delay, max), initial, failures - 1)
===========================================================================
