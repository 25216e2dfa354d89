-------------------------------- MODULE Sums --------------------------------
(* The sum of a number per member of a set, as the properties about money  *)
(* and about the rate limiter use it.                                      *)
EXTENDS Integers, FiniteSetsExt

\* The sum of f[x] over the members x of the finite set S.
Total(f, S) == MapThenSumSet(LAMBDA x : f[x], S)
=============================================================================
