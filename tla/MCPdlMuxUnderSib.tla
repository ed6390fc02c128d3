-------------------------- MODULE MCPdlMuxUnderSib --------------------------
\* The network of tests/test_scan_mux_deep_integration.py:
\* gate_outer -> mux_inner: 1 -> ctrl_write (WRITE), 2 -> gate_status ->
\* status_read (READ).
EXTENDS PdlOnNetwork

MCSibs == {"gate_outer", "gate_status"}
MCMuxes == {"mux_inner"}
MCInstruments == {"ctrl_write", "status_read"}
MCWrites == {"ctrl_write"}
MCOrder == <<"ctrl_write", "status_read", "gate_status", "mux_inner", "gate_outer">>

Step(slot, value) == [slot |-> slot, value |-> value]
MCPath ==
  [gate_outer |-> <<>>,
   mux_inner |-> <<Step("gate_outer", 1)>>,
   ctrl_write |-> <<Step("gate_outer", 1), Step("mux_inner", 1)>>,
   gate_status |-> <<Step("gate_outer", 1), Step("mux_inner", 2)>>,
   status_read |-> <<Step("gate_outer", 1), Step("mux_inner", 2), Step("gate_status", 1)>>]
MCWidth == [gate_outer |-> 1, gate_status |-> 1, mux_inner |-> 2, ctrl_write |-> 1,
            status_read |-> 1]
MCCaptureValue == [status_read |-> 1]
MCFields == [ctrl_write |-> {}, status_read |-> {}]
MCOtherScopes == {}
=============================================================================
