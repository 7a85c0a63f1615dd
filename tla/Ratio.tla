------------------------------- MODULE Ratio -------------------------------
(* Exact non-negative rationals as numerator/denominator pairs, enough to *)
(* compare the means, ratios and thresholds the statistics compute in     *)
(* floating point.  The float rounding itself is not modelled.            *)
EXTENDS Integers

Ratio(n, d) == [num |-> n, den |-> d]
RLt(x, y) == x.num * y.den < y.num * x.den
RLe(x, y) == x.num * y.den <= y.num * x.den
REq(x, y) == x.num * y.den = y.num * x.den
RPos(x) == x.num > 0
RAdd(x, y) == Ratio(x.num * y.den + y.num * x.den, x.den * y.den)
=============================================================================
