------------------------------- MODULE InsaneInt -------------------------------
(***************************************************************************)
(* The numbers scores are kept in, below the first tower (startingECount   *)
(* is 0).  A number of value num / den is stored as a coefficient and an   *)
(* exponent, coefficient = (num / den) / Base^exp; the pair is what the    *)
(* comparisons look at, so it is kept beside the value.  In the code Base  *)
(* is 10 and Limit is 10000000.                                            *)
(***************************************************************************)
EXTENDS Naturals, FiniteSets

CONSTANTS Base, Limit

ASSUME InsaneIntAssumption == Base \in Nat \ {0, 1} /\ Limit \in Nat /\ Limit > Base

Plain(n) == [num |-> n, den |-> 1, exp |-> 0]
Zero == Plain(0)

\* what the exponent of x stands for
Scale(x) == IF x.exp = 0 THEN 1 ELSE Base^x.exp

\* coefficient(x) >= c, coefficient(x) < 1
CoefficientAtLeast(x, c) == x.num >= c * x.den * Scale(x)
CoefficientBelowOne(x) == x.num < x.den * Scale(x)

IsBalanced(x) ==
  /\ x.num = 0 => x.exp = 0
  /\ ~(x.exp > 0 /\ CoefficientAtLeast(x, Base))
  /\ ~CoefficientAtLeast(x, Limit)
  /\ ~(x.exp > 0 /\ CoefficientBelowOne(x))

\* the length of the whole part of the coefficient, less one
ExtraDigits(x) == Cardinality({k \in 1 .. x.num : CoefficientAtLeast(x, Base^k)})

\* the places the coefficient lacks to reach one, but never the last exponent
MissingDigits(x) ==
  LET short == Cardinality({k \in 0 .. x.exp - 1 : x.num * Base^k < x.den * Scale(x)})
  IN  IF short >= x.exp THEN x.exp - 1 ELSE short

\* one pass of the loop of balance(): its two corrections, one after the other
BalanceOnce(x) ==
  LET up == IF (x.exp > 0 /\ CoefficientAtLeast(x, Base)) \/ CoefficientAtLeast(x, Limit)
            THEN [x EXCEPT !.exp = @ + ExtraDigits(x)] ELSE x
  IN  IF up.num = 0 THEN [up EXCEPT !.exp = 0]
      ELSE IF up.exp > 0 /\ CoefficientBelowOne(up)
      THEN [up EXCEPT !.exp = @ - MissingDigits(up)]
      ELSE up

\* a second pass has nothing left to do below the first tower
Balance(x) == IF IsBalanced(x) THEN x ELSE BalanceOnce(x)

GreaterThan(x, y) ==
  IF x.exp # y.exp THEN x.exp > y.exp ELSE x.num * y.den > y.num * x.den

EqualTo(x, y) == x.exp = y.exp /\ x.num * y.den = y.num * x.den

LessThan(x, y) == ~EqualTo(x, y) /\ ~GreaterThan(x, y)

Larger(m, n) == IF m > n THEN m ELSE n

Add(x, y) ==
  LET a == Balance(x)
      b == Balance(y)
  IN  Balance([num |-> a.num * b.den + b.num * a.den, den |-> a.den * b.den,
               exp |-> Larger(a.exp, b.exp)])

\* divided by a plain number
Div(x, n) ==
  IF n = 0 THEN Zero
  ELSE LET a == Balance(x) IN Balance([a EXCEPT !.den = @ * n])
=============================================================================
