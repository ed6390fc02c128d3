------------------------- MODULE MCInstrumentCells -------------------------
\* A TAP with a dedicated IJTAG_ACCESS opcode, as the default 4'b1100 is, cut
\* to three bits, and a two-bit status whose bits move together.
EXTENDS InstrumentCells

MCIdcodeValue == [k \in {0} |-> 1]
MCIjtagAccessOpcode == [k \in 0 .. 2 |-> IF k = 0 THEN 0 ELSE 1]
MCWords == {<<0, 0>>, <<1, 1>>}
=============================================================================
