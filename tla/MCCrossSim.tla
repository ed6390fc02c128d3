----------------------------- MODULE MCCrossSim -----------------------------
\* A SIB gating a nested scan mux, then a top-level scan mux with a SIB behind
\* one arm:  outer -> inner: 1 -> ctrl (WRITE), 2 -> temp (READ);
\* mux: 1 -> mode (WRITE), 2 -> deep -> status (READ).
EXTENDS SibCrossSim

MCSibs == {"outer", "deep"}
MCMuxes == {"inner", "mux"}
MCInstruments == {"ctrl", "temp", "mode", "status"}
MCWrites == {"ctrl", "mode"}
MCOrder == <<"ctrl", "temp", "inner", "outer", "mode", "status", "deep", "mux">>

Step(slot, value) == [slot |-> slot, value |-> value]
MCPath ==
  [outer |-> <<>>,
   inner |-> <<Step("outer", 1)>>,
   ctrl |-> <<Step("outer", 1), Step("inner", 1)>>,
   temp |-> <<Step("outer", 1), Step("inner", 2)>>,
   mux |-> <<>>,
   mode |-> <<Step("mux", 1)>>,
   deep |-> <<Step("mux", 2)>>,
   status |-> <<Step("mux", 2), Step("deep", 1)>>]
MCWidth ==
  [outer |-> 1, inner |-> 2, ctrl |-> 1, temp |-> 1, mux |-> 2, mode |-> 1,
   deep |-> 1, status |-> 1]
MCCaptureValue == [temp |-> 1, status |-> 1]
=============================================================================
