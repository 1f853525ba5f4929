--------------------------------- MODULE Sums ---------------------------------
EXTENDS Integers, FiniteSetsExt

\* The sum of f over the finite set S.
Total(f, S) == FoldSet(LAMBDA x, sum : f[x] + sum, 0, S)
===============================================================================
