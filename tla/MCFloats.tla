------------------------------ MODULE MCFloats ------------------------------
(***************************************************************************)
(* Two kinds of arithmetic for the instances.                              *)
(***************************************************************************)
EXTENDS Integers

\* Exact arithmetic: every time that occurs is representable.
Exact(x) == x

\* A float of three binary digits, rounding half to even: from 8 on only even
\* times are representable, from 16 on multiples of 4, from 32 on of 8.
Ulp(x) == IF x < 8 THEN 1 ELSE IF x < 16 THEN 2 ELSE IF x < 32 THEN 4 ELSE 8

Coarse(x) ==
  LET u == Ulp(x)
      q == x \div u
      up == 2 * (x % u) > u \/ (2 * (x % u) = u /\ q % 2 = 1)
  IN  u * (IF up THEN q + 1 ELSE q)
=============================================================================
