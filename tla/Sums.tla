-------------------------------- MODULE Sums --------------------------------
(* The sums of the first n of the numbers s[1], ..., s[m]. *)
EXTENDS Integers

Sums(s, m) == LET sum[n \in 0..m] == IF n = 0 THEN 0 ELSE sum[n - 1] + s[n] IN sum
=============================================================================
