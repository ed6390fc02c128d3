---------------------------- MODULE TestPatterns ----------------------------
\* The bits the integrity tests feed (sib_overshift.py, tap_integrity.py), the
\* first one fed first.
EXTENDS Integers, Sequences

default_sentinel_pattern(bits) == [i \in 1 .. bits |-> ((i - 1) \div 2) % 2]

\* 1, 0, 1, ... from first = 1, and its complement from first = 0.
Alternating(length, first) == [i \in 1 .. length |-> (first + i - 1) % 2]
=============================================================================
