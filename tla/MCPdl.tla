------------------------------- MODULE MCPdl -------------------------------
\* outer -> bist -> ctrl (WRITE, 2 bits, its upper one an Alias), then a scan
\* mux at the TDO end: 1 -> mode (WRITE), 2 -> status (READ).
EXTENDS PdlOnNetwork

MCSibs == {"outer", "bist"}
MCMuxes == {"mux"}
MCInstruments == {"ctrl", "mode", "status"}
MCWrites == {"ctrl", "mode"}
MCOrder == <<"ctrl", "bist", "outer", "mode", "status", "mux">>

Step(slot, value) == [slot |-> slot, value |-> value]
MCPath ==
  [outer |-> <<>>,
   bist |-> <<Step("outer", 1)>>,
   ctrl |-> <<Step("outer", 1), Step("bist", 1)>>,
   mux |-> <<>>,
   mode |-> <<Step("mux", 1)>>,
   status |-> <<Step("mux", 2)>>]
MCWidth == [outer |-> 1, bist |-> 1, ctrl |-> 2, mux |-> 2, mode |-> 1, status |-> 1]
MCCaptureValue == [status |-> 1]
MCFields == [ctrl |-> {[low |-> 1, high |-> 1]}, mode |-> {}, status |-> {}]
MCOtherScopes == {"chip"}

\* The conditions of SibNetworkProofs' theorems about programs.
ASSUME ConditionsOfTheProofs == MuxesLast /\ NoArmZero /\ LeafArms
=============================================================================
