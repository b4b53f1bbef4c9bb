----------------------------- MODULE Rounding -----------------------------
(***************************************************************************)
(* The arithmetic the evaluation programs under src/evals share.  A rate   *)
(* is an integer in ten-thousandths: round(x, 4).  Python rounds halves to *)
(* even, on floats; the exact quotient is used here, which differs only    *)
(* where a float is not the half it stands for.                            *)
(***************************************************************************)
EXTENDS Integers

CONSTANT None   \* nothing to report

\* round(n / d) for n >= 0, d > 0.
RoundQuotient(n, d) ==
    LET twice == 2 * n + d
        up    == twice \div (2 * d)
    IN IF twice % (2 * d) = 0 /\ up % 2 = 1 THEN up - 1 ELSE up

\* round(n / d, 4), and the programs' value where there is nothing to divide by.
Rate(n, d) == IF n >= 0 THEN RoundQuotient(10000 * n, d) ELSE -RoundQuotient(-10000 * n, d)
RateOr(n, d, default) == IF d = 0 THEN default ELSE Rate(n, d)

\* The relative gain of ours over a baseline; None without a baseline.
RelativeLift(ours, base) ==
    IF None \in {ours, base} \/ base = 0 THEN None ELSE Rate(ours - base, base)

\* Sums of fractions <<n, d>>.
Plus(x, y) == IF x[2] = y[2] THEN <<x[1] + y[1], x[2]>>
              ELSE <<x[1] * y[2] + y[1] * x[2], x[2] * y[2]>>
=============================================================================
