---------------------------- MODULE BoundaryScan ----------------------------
(***************************************************************************)
(* The boundary-scan chain.  bsr_plan.py lays a cell out for every port,   *)
(* insert_bsr puts rtl/bc1_shift_only.v, bc1_full.v and bc7_bidir.v        *)
(* between the design and its pins in that order, and BoundaryScanRegister *)
(* models the chain as EXTEST's data register.  tap_core's strobes reach   *)
(* the cells under every instruction; the register moves under EXTEST only.*)
(***************************************************************************)
EXTENDS Integers, Sequences, SequencesExt

CONSTANTS
  PortLists,     \* the modules to insert into: sequences of [name, direction]
  Excluded,      \* clock and other ports left out of the chain
  Instructions   \* the instructions the test loads, EXTEST among them

ASSUME BoundaryAssumption ==
  /\ PortLists \subseteq Seq([name : STRING, direction : {"input", "output", "inout"}])
  /\ "EXTEST" \in Instructions

VARIABLES
  cells,          \* the plan
  instruction,    \* the TAP's current instruction
  phase,          \* idle, captured (from Capture-DR to Update-DR)
  func, enable,   \* what the design drives on a port, and whether (inout only)
  pad,            \* what the board drives on a pin the chip does not drive
  rtlShift, rtlPo,  \* the inserted cells
  pyShift, pyPo,    \* BoundaryScanRegister
  foreign,        \* history: the last update came under another instruction
  fed,            \* history: TDI since the capture, at most a chain's worth
  loaded          \* history: what the last update loaded, all 0 from TRST on;
                  \* <<>> when its scan was shorter than the chain

designVars == <<func, enable, pad>>
boundaryVars == <<cells, instruction, phase, designVars, rtlShift, rtlPo, pyShift, pyPo,
          foreign, fed, loaded>>

Z == 2  \* driven by nobody

----------------------------------------------------------------------------
Cell(function, port) == [function |-> function, port |-> port]

\* A control cell always sits just before the cell whose driver it enables
\* (disable_cell_index = cell_number - 1).
PortCells(p) ==
  CASE p.name \in Excluded -> <<>>
    [] p.name \notin Excluded /\ p.direction = "input" -> <<Cell("INPUT", p.name)>>
    [] p.name \notin Excluded /\ p.direction = "output" ->
         <<Cell("CONTROL", p.name), Cell("OUTPUT3", p.name)>>
    [] p.name \notin Excluded /\ p.direction = "inout" ->
         <<Cell("CONTROL", p.name), Cell("BIDIR", p.name)>>

build_bsr_plan(ports) == FlattenSeq([i \in DOMAIN ports |-> PortCells(ports[i])])

CellNumbers == DOMAIN cells
Of(functions) == {n \in CellNumbers : cells[n].function \in functions}
Driven == Of({"OUTPUT3", "BIDIR"})
Updating == Of({"CONTROL", "OUTPUT3", "BIDIR"})
PortsOf(functions) == {cells[n].port : n \in Of(functions)}
DisableCell(n) == n - 1

extest_mode == instruction = "EXTEST"

\* A seeded fault: a bidirectional port's control cell keeps the placeholder.
FuncInPlaceholder(n) == IF cells[n].function = "CONTROL" THEN 1 ELSE func[cells[n].port]

\* The operands of the $mux that drives an inout port, Y = S ? B : z; with any
\* other driver insert_bsr raises.
_find_existing_tristate_driver(port) == [drive |-> func[port], enable |-> enable[port]]

\* func_in: an output's driver is always enabled by the design, a
\* bidirectional port's by the enable of its own.
FuncIn(n) ==
  LET port == cells[n].port IN
  CASE cells[n].function = "OUTPUT3" -> func[port]
    [] cells[n].function = "BIDIR" -> _find_existing_tristate_driver(port).drive
    [] cells[n].function = "CONTROL" ->
         IF cells[n + 1].function = "BIDIR" THEN _find_existing_tristate_driver(port).enable
                                            ELSE 1

PinOut(n) == IF extest_mode THEN rtlPo[n] ELSE FuncIn(n)

\* The tri-state buffer insert_bsr puts on the pin, and the board.
Released(n) == IF cells[n].function = "BIDIR" THEN pad[cells[n].port] ELSE Z
Pin(n) == IF PinOut(DisableCell(n)) = 1 THEN PinOut(n) ELSE Released(n)

\* What Capture-DR samples: a bidirectional cell its pin, whoever drives it.
Observed(n) ==
  CASE cells[n].function = "INPUT" -> pad[cells[n].port]
    [] cells[n].function = "BIDIR" -> Pin(n)
    [] OTHER -> FuncIn(n)

\* BoundaryScanRegister has no bidirectional cell (__init__ refuses one).
Modelled == Of({"BIDIR"}) = {}

\* A seeded fault: a control cell captures what it last loaded.
ModelObservedPo(n) ==
  CASE cells[n].function = "CONTROL" -> pyPo[n]
    [] cells[n].function = "OUTPUT3" -> func[cells[n].port]
    [] cells[n].function = "INPUT" -> pad[cells[n].port]

ModelObserved(n) ==
  CASE cells[n].function = "CONTROL" -> 1
    [] cells[n].function = "OUTPUT3" -> func[cells[n].port]
    [] cells[n].function = "INPUT" -> pad[cells[n].port]

\* A seeded fault: the enable follows po outside EXTEST too.
DriveValuePo(n) ==
  LET a == IF extest_mode THEN pyPo[n] ELSE ModelObserved(n)
  IN  IF pyPo[DisableCell(n)] = 1 THEN a ELSE Z

pin_drive_value(n) ==
  LET a == IF extest_mode THEN pyPo[n] ELSE ModelObserved(n)
      en == IF extest_mode THEN pyPo[DisableCell(n)] ELSE 1
  IN  IF en = 1 THEN a ELSE Z

PoReset == [n \in Updating |-> 0]
ShiftReset == [n \in CellNumbers |-> 0]

----------------------------------------------------------------------------
BoundaryInit ==
  /\ cells \in {build_bsr_plan(ports) : ports \in PortLists}
  /\ instruction = "IDCODE" /\ phase = "idle"
  /\ func = [p \in PortsOf({"OUTPUT3", "BIDIR"}) |-> 0]
  /\ enable = [p \in PortsOf({"BIDIR"}) |-> 0]
  /\ pad = [p \in PortsOf({"INPUT", "BIDIR"}) |-> 0]
  /\ rtlShift = ShiftReset /\ rtlPo = PoReset
  /\ pyShift = ShiftReset /\ pyPo = PoReset
  /\ foreign = FALSE /\ fed = <<>> /\ loaded = ShiftReset

\* The design or the board moves a value, whatever the TAP is doing.
Move ==
  /\ \/ \E p \in DOMAIN func : func' = [func EXCEPT ![p] = 1 - @] /\ UNCHANGED <<enable, pad>>
     \/ \E p \in DOMAIN enable : enable' = [enable EXCEPT ![p] = 1 - @] /\ UNCHANGED <<func, pad>>
     \/ \E p \in DOMAIN pad : pad' = [pad EXCEPT ![p] = 1 - @] /\ UNCHANGED <<func, enable>>
  /\ UNCHANGED <<cells, instruction, phase, rtlShift, rtlPo, pyShift, pyPo, foreign, fed, loaded>>

\* An instruction scan, or a TMS reset, which reaches no cell.
LoadInstruction(i) ==
  /\ phase = "idle" /\ i # instruction
  /\ instruction' = i
  /\ UNCHANGED <<cells, phase, designVars, rtlShift, rtlPo, pyShift, pyPo, foreign, fed, loaded>>

CaptureDr ==
  /\ phase = "idle"
  /\ phase' = "captured" /\ fed' = <<>>
  /\ rtlShift' = [n \in CellNumbers |-> Observed(n)]
  /\ pyShift' = IF Modelled /\ extest_mode THEN [n \in CellNumbers |-> ModelObserved(n)]
                                           ELSE pyShift
  /\ UNCHANGED <<cells, instruction, designVars, rtlPo, pyPo, foreign, loaded>>

\* A seeded fault: the chain stitched from the last cell.
ShiftedInBackwards(shift, tdi) ==
  [n \in CellNumbers |-> IF n = Len(cells) THEN tdi ELSE shift[n + 1]]

\* The chain from TDI, cell 1 first, to external_dr_tdo.
ShiftedIn(shift, tdi) == [n \in CellNumbers |-> IF n = 1 THEN tdi ELSE shift[n - 1]]

ShiftDr(tdi) ==
  /\ phase = "captured"
  /\ rtlShift' = ShiftedIn(rtlShift, tdi)
  /\ pyShift' = IF Modelled /\ extest_mode THEN ShiftedIn(pyShift, tdi) ELSE pyShift
  /\ fed' = IF Len(fed) = Len(cells) THEN Append(Tail(fed), tdi) ELSE Append(fed, tdi)
  /\ UNCHANGED <<cells, instruction, phase, designVars, rtlPo, pyPo, foreign, loaded>>

UpdateDr ==
  /\ phase = "captured"
  /\ phase' = "idle"
  /\ rtlPo' = [n \in Updating |-> rtlShift[n]]
  /\ pyPo' = IF Modelled /\ extest_mode THEN [n \in Updating |-> pyShift[n]] ELSE pyPo
  /\ foreign' = ~extest_mode
  /\ loaded' = IF Len(fed) = Len(cells) THEN Reverse(fed) ELSE <<>>
  /\ fed' = <<>>
  /\ UNCHANGED <<cells, instruction, designVars, rtlShift, pyShift>>

\* TRST, at any point of a scan; the caller resets the register with the model.
ResetChain ==
  /\ instruction' = "IDCODE" /\ phase' = "idle"
  /\ rtlShift' = ShiftReset /\ rtlPo' = PoReset
  /\ pyShift' = ShiftReset /\ pyPo' = PoReset
  /\ foreign' = FALSE /\ fed' = <<>> /\ loaded' = ShiftReset
  /\ UNCHANGED <<cells, designVars>>

BoundaryNext ==
  \/ Move
  \/ \E i \in Instructions : LoadInstruction(i)
  \/ CaptureDr
  \/ \E tdi \in {0, 1} : ShiftDr(tdi)
  \/ UpdateDr
  \/ ResetChain

BoundarySpec == BoundaryInit /\ [][BoundaryNext]_boundaryVars

----------------------------------------------------------------------------
\* BoundaryScanRegister gives the pins the chip's levels in every state, except
\* under EXTEST after an update that came under another instruction: bsr_insert
\* gates the cells' update by no instruction, so a BYPASS or SAMPLE scan leaves
\* its own load for EXTEST to drive, and the register does not move
\* (tests/test_bsr_insert_cross_sim.py compares the two under EXTEST only).
ModelPinsAgree ==
  Modelled /\ ~(foreign /\ extest_mode) => \A n \in Driven : pin_drive_value(n) = Pin(n)

\* During EXTEST's own scans every bit on its way to TDO agrees, from any state
\* earlier scans left.
ModelScanAgrees == Modelled /\ extest_mode /\ phase = "captured" => pyShift = rtlShift

\* EXTEST drives what the last full scan fed, the first bit fed reaching the
\* last cell, whichever instruction that scan came under and however the design
\* moves (PRELOAD, then EXTEST); a port is driven exactly when its control bit
\* was 1, so from TRST on none is (bc1_full.v: "disabled/Z, before any test
\* software has preloaded anything").
ExtestDrivesLoaded ==
  extest_mode /\ Len(loaded) = Len(cells) =>
    \A n \in Driven :
      Pin(n) = IF loaded[DisableCell(n)] = 1 THEN loaded[n] ELSE Released(n)

\* Outside EXTEST every pin shows what the design alone would have driven,
\* whatever has been scanned.
NormalModePinsUnchanged ==
  ~extest_mode =>
    \A n \in Driven :
      Pin(n) = IF cells[n].function = "OUTPUT3" \/ enable[cells[n].port] = 1
                 THEN func[cells[n].port] ELSE pad[cells[n].port]

\* What the design's own readers of a port see.  They stay on the port's old
\* bits, which after detach_port only the design's own driver reaches.
CoreSees(n) ==
  IF cells[n].function = "INPUT" THEN pad[cells[n].port]
  ELSE IF enable[cells[n].port] = 1 THEN func[cells[n].port]
  ELSE Z

\* Outside EXTEST the design reads from each of its ports what the pin carries,
\* as it did before insertion ("normal-mode ... behavior is provably unchanged",
\* insert_bsr's docstring).
NormalModeInputsUnchanged ==
  ~extest_mode =>
    \A n \in Of({"INPUT", "BIDIR"}) : CoreSees(n) = Observed(n)
=============================================================================
