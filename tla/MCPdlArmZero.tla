---------------------------- MODULE MCPdlArmZero ----------------------------
\* A scan mux whose first arm answers to value 0, which validate_physical_graph
\* accepts: 0 -> mode (WRITE), 1 -> status (READ).
EXTENDS PdlOnNetwork

MCSibs == {}
MCMuxes == {"mux"}
MCInstruments == {"mode", "status"}
MCWrites == {"mode"}
MCOrder == <<"mode", "status", "mux">>

Step(slot, value) == [slot |-> slot, value |-> value]
MCPath ==
  [mux |-> <<>>,
   mode |-> <<Step("mux", 0)>>,
   status |-> <<Step("mux", 1)>>]
MCWidth == [mux |-> 1, mode |-> 1, status |-> 1]
MCCaptureValue == [status |-> 1]
MCFields == [mode |-> {}, status |-> {}]
MCOtherScopes == {}
=============================================================================
