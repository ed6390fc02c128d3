---------------------------- MODULE BitArithmetic ----------------------------
(* The shifts and masks of Python's unbounded integers.                      *)
EXTENDS Naturals

\* 1 << n
Pow2[n \in Nat] == IF n = 0 THEN 1 ELSE 2 * Pow2[n - 1]

\* (value >> k) & 1
Bit(value, k) == (value \div Pow2[k]) % 2
=============================================================================
