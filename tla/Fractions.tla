------------------------------ MODULE Fractions ------------------------------
(***************************************************************************)
(* Decimal arithmetic without its rounding: a fraction is a pair of a      *)
(* numerator and a positive denominator, and fractions are compared by     *)
(* cross-multiplication.  decimal.Decimal keeps 28 digits and rounds       *)
(* monotonically, so values that compare as at most here compare so there. *)
(***************************************************************************)
EXTENDS Integers

Fraction(n, d) == IF d < 0 THEN <<-n, -d>> ELSE <<n, d>>

Whole(n) == <<n, 1>>

Zero == Whole(0)

Percent(n) == Fraction(n, 100)

Plus(f, g) == <<f[1] * g[2] + g[1] * f[2], f[2] * g[2]>>

Minus(f, g) == Plus(f, <<-g[1], g[2]>>)

Times(f, n, d) == Fraction(f[1] * n, f[2] * d)

Below(f, g) == f[1] * g[2] < g[1] * f[2]

AtMost(f, g) == f[1] * g[2] <= g[1] * f[2]

\* int(): towards zero, as Python truncates.
Truncated(f) == IF f[1] < 0 THEN -((-f[1]) \div f[2]) ELSE f[1] \div f[2]
=============================================================================
