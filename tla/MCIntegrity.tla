----------------------------- MODULE MCIntegrity -----------------------------
\* outer -> {cfg -> ctrl (WRITE), temp -> sense (live READ)}; then a scan mux
\* at the TDO end: 1 -> mode (WRITE), 2 -> deep -> status (READ).
EXTENDS IntegrityProbe

MCSibs == {"outer", "cfg", "temp", "deep"}
MCMuxes == {"mux"}
MCInstruments == {"ctrl", "sense", "mode", "status"}
MCWrites == {"ctrl", "mode"}
MCOrder == <<"ctrl", "cfg", "sense", "temp", "outer", "mode", "status", "deep", "mux">>

Step(slot, value) == [slot |-> slot, value |-> value]
MCPath ==
  [outer |-> <<>>,
   cfg |-> <<Step("outer", 1)>>,
   ctrl |-> <<Step("outer", 1), Step("cfg", 1)>>,
   temp |-> <<Step("outer", 1)>>,
   sense |-> <<Step("outer", 1), Step("temp", 1)>>,
   mux |-> <<>>,
   mode |-> <<Step("mux", 1)>>,
   deep |-> <<Step("mux", 2)>>,
   status |-> <<Step("mux", 2), Step("deep", 1)>>]
MCWidth ==
  [outer |-> 1, cfg |-> 1, ctrl |-> 2, temp |-> 1, sense |-> 2, mux |-> 2, mode |-> 2,
   deep |-> 1, status |-> 1]
MCCaptureValue == [sense |-> 0, status |-> 1]

\* The conditions of IntegrityProbeProofs' theorems.
ASSUME ConditionsOfTheProofs == MuxesLast /\ NoArmZero /\ Units # {} /\ SibsProbedLast
=============================================================================
