-------------------------------- MODULE Sums --------------------------------
(* Sums of functions over finite sets.                                       *)
EXTENDS Integers, FiniteSetsExt

\* The sum of f[x] for x in S.
SumOver(S, f) == MapThenSumSet(LAMBDA x : f[x], S)

\* The sum of all values of f.
Total(f) == SumOver(DOMAIN f, f)

=============================================================================
