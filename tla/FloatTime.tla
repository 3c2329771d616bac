------------------------------ MODULE FloatTime ------------------------------
(***************************************************************************)
(* Simulated time is a double: sums and differences of times are rounded,  *)
(* so that now + (t - now) need not be t (Sim.schedule takes a delay, and  *)
(* who knows the time t has to subtract first).                            *)
(***************************************************************************)
EXTENDS Integers

CONSTANTS
  Infinity,   \* the float infinity: peek() of an empty heap
  Round(_)    \* rounding of an exact result to the nearest float

\* The representable times and delays.
Times == {t \in 0 .. Infinity : Round(t) = t}

ASSUME TimeAssumption == Infinity \in Nat \ {0}

\* Rounding is monotone, idempotent, and leaves 0 and infinity alone.
ASSUME RoundAssumption ==
  /\ \A x \in 0 .. 2 * Infinity : Round(x) \in Nat
  /\ \A x, y \in 0 .. 2 * Infinity : x <= y => Round(x) <= Round(y)
  /\ \A x \in 0 .. Infinity : Round(Round(x)) = Round(x)
  /\ Round(0) = 0
  /\ Round(Infinity) = Infinity

\* Mutant: no infinity, so that a bound can exceed it.
PlusUnbounded(t, d) == Round(t + d)

Plus(t, d) == IF Round(t + d) <= Infinity THEN Round(t + d) ELSE Infinity

Minus(t, u) == IF t = Infinity THEN Infinity ELSE Round(t - u)

-----------------------------------------------------------------------------
(* What some theorems need of the arithmetic beyond RoundAssumption.  Both *)
(* hold of exact arithmetic; doubles break the first now and then.         *)

\* An event scheduled for t by its delay is not due before t.
NoEarlyArrival ==
  \A t, u \in Times : u <= t => Plus(u, Minus(t, u)) >= t

\* ... and no later than the first representable time after t: the two
\* roundings together are off by one unit in the last place.
NoOvershoot ==
  \A t, u, v \in Times : u <= t /\ t < v => Plus(u, Minus(t, u)) <= v
=============================================================================
