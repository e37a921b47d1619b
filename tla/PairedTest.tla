------------------------------ MODULE PairedTest ------------------------------
(***************************************************************************)
(* McNemar's two-sided exact test, as viz.py and autoresearch.py compute   *)
(* it: p = min(1, 2 * BinomialCDF(min(b, c); b + c, 1/2)) for b and c      *)
(* discordant pairs.  The normal approximation viz.py switches to above 50 *)
(* disagreements is left out: no log here gets that long.                  *)
(***************************************************************************)
EXTENDS Integers

\* AtMost[n, k] is the number of subsets of n elements with at most k elements,
\* the sum of comb(n, i) over i in 0 .. k.
AtMost[n \in Nat, k \in Int] ==
    IF k < 0 THEN 0
    ELSE IF n = 0 THEN 1
    ELSE AtMost[n - 1, k] + AtMost[n - 1, k - 1]

Lesser(b, c) == IF b < c THEN b ELSE c

\* p < num / den, for a level below 1.  With no disagreement p is 1.
Significant(b, c, num, den) ==
    /\ b + c > 0
    /\ 2 * AtMost[b + c, Lesser(b, c)] * den < num * 2 ^ (b + c)
=============================================================================
