-------------------------------- MODULE Sums --------------------------------
(* f[1] + ... + f[n], as the loops of the code add up.                     *)
EXTENDS Integers

SumTo(f, n) == LET s[k \in 0..n] == IF k = 0 THEN 0 ELSE s[k-1] + f[k] IN s[n]
=============================================================================
