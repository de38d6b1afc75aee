------------------------------- MODULE Money -------------------------------
(* Arithmetic on paise that more than one component needs.                  *)
EXTENDS Integers

(* Python's round() of n / d: to the nearest, halves to even.               *)
RoundHalfEven(n, d) ==
  LET q == n \div d
      twice == 2 * (n % d)
  IN IF twice < d \/ (twice = d /\ q % 2 = 0) THEN q ELSE q + 1

Distance(x, y) == IF x >= y THEN x - y ELSE y - x

(* A percentage is a fraction p.n / p.d of a hundred.                       *)
Percent(n) == [n |-> n, d |-> 1]

PercentAtMost(p, q) == p.n * q.d <= q.n * p.d

(* p percent of an amount, rounded as the code rounds it.                   *)
PercentOf(p, amount) == RoundHalfEven(amount * p.n, 100 * p.d)
=============================================================================
