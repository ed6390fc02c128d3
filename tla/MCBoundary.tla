------------------------------ MODULE MCBoundary ------------------------------
\* A clock left out, an input, and one or two of each kind of driven port.
EXTENDS BoundaryScan

Port(name, direction) == [name |-> name, direction |-> direction]
MCPortLists ==
  { << Port("clk", "input"), Port("a", "input"), Port("y", "output") >>,
    << Port("io", "inout"), Port("a", "input"), Port("clk", "input") >>,
    << Port("y", "output"), Port("io", "inout") >>,
    << Port("x", "output"), Port("y", "output") >> }
MCExcluded == {"clk"}
=============================================================================
