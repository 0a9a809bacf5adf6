-------------------------------- MODULE Sums --------------------------------
(* Sums of integers as the loops of the program build them, one value after the other. *)
EXTENDS Integers

\* The sums of the first 0, 1, ..., n integers of s.
RunningSum(s, n) ==
    LET sum[k \in 0..n] == IF k = 0 THEN 0 ELSE sum[k - 1] + s[k] IN sum

SumTo(s, n) == RunningSum(s, n)[n]

\* The sum of what f gives for the members of S up to n.
SumOver(S, f, n) == SumTo([k \in 1..n |-> IF k \in S THEN f[k] ELSE 0], n)
=============================================================================
