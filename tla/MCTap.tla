------------------------------- MODULE MCTap -------------------------------
\* A TAP with a 3-bit instruction register, a 2-bit IDCODE and a boundary
\* register registered under EXTEST only.
EXTENDS TapControllerHistory

MCIdcodeValue == [k \in 0 .. 1 |-> IF k = 0 THEN 1 ELSE 0]
MCDataRegisters == {"BYPASS", "IDCODE", "EXTEST"}
=============================================================================
