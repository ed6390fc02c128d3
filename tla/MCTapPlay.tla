------------------------------ MODULE MCTapPlay ------------------------------
\* cfg -> ctrl (WRITE) behind a TAP with a 3-bit instruction register and no
\* register under SAMPLE/PRELOAD; a declared pin, a functional clock and a pin
\* held by its pulses alone.
EXTENDS TapIntegrity

MCSibs == {"cfg"}
MCMuxes == {}
MCInstruments == {"ctrl"}
MCWrites == {"ctrl"}
MCOrder == <<"ctrl", "cfg">>
MCPath == [cfg |-> <<>>, ctrl |-> <<[slot |-> "cfg", value |-> 1]>>]
MCWidth == [cfg |-> 1, ctrl |-> 1]
MCCaptureValue == <<>>
MCIdcodeValue == [k \in 0 .. 1 |-> IF k = 0 THEN 1 ELSE 0]
MCDataRegisters == {"BYPASS", "IDCODE", "EXTEST"}
MCInputs == [mode |-> 0]
MCOtherPins == {"clk", "pi"}
MCPlans == {_integrity_tests(margin) : margin \in {1, 2, 4}}
MCPinOps == {SetPins([mode |-> 1]), PulsePin("clk", 2, [pi |-> 1]),
             PulsePin("clk", 1, [mode |-> 1])}
=============================================================================
