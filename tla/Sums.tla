-------------------------------- MODULE Sums --------------------------------
(* Totals over numbered rows: SUM and COUNT in the store's statements.      *)
EXTENDS Integers

\* The sum of f[1], ..., f[n].
SumTo(f, n) ==
    LET F[i \in 0 .. n] == IF i = 0 THEN 0 ELSE F[i - 1] + f[i]
    IN  F[n]
=============================================================================
