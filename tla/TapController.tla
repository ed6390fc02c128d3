--------------------------- MODULE TapController ---------------------------
(***************************************************************************)
(* The behavioural JTAG TAP of warptap: tap_fsm.py's transition table and  *)
(* tap_model.py's TapModel, one Tick per rising edge of TCK.  A register   *)
(* is a function from bit index (0 is the bit nearest TDO) to a bit, so an *)
(* opcode is such a function too.                                          *)
(***************************************************************************)
EXTENDS Naturals

CONSTANTS
  IrWidth,            \* bits of the instruction register
  IdcodeWidth,        \* bits of the IDCODE register (32 in the code)
  IdcodeValue,        \* what Capture-DR loads into it
  HasIdcode,          \* the TAP has an IDCODE register
  IjtagAccessOpcode,  \* the opcode of a dedicated IJTAG_ACCESS, or NoOpcode
  NoOpcode,
  DataRegisters       \* the instructions a data register is registered for

Bits == {0, 1}
Register(width) == [0 .. width - 1 -> Bits]

Instructions == {"EXTEST", "SAMPLE_PRELOAD", "IDCODE", "BYPASS", "IJTAG_ACCESS"}

OPCODE_EXTEST == [k \in 0 .. IrWidth - 1 |-> 0]
OPCODE_IDCODE == [k \in 0 .. IrWidth - 1 |-> IF k = 0 THEN 1 ELSE 0]
OPCODE_SAMPLE_PRELOAD == [k \in 0 .. IrWidth - 1 |-> IF k = 1 THEN 1 ELSE 0]
bypass_opcode == [k \in 0 .. IrWidth - 1 |-> 1]

\* A seeded fault: Capture-IR loads zeros.
CaptureZeros == OPCODE_EXTEST

CAPTURE_IR_PATTERN == OPCODE_IDCODE

\* idcode_value_error: it fits the register, and bit 0 is 1.
ValidIdcode(value) == value \in Register(IdcodeWidth) /\ value[0] = 1

\* ijtag_access_opcode_error: it fits the IR and no instruction has it.
ValidAccessOpcode(opcode) ==
  /\ opcode \in Register(IrWidth)
  /\ opcode \notin {OPCODE_EXTEST, OPCODE_SAMPLE_PRELOAD, OPCODE_IDCODE, bypass_opcode}

\* A TapModel always has the BYPASS register and, if configured, the IDCODE one.
ASSUME TapAssumption ==
  /\ IrWidth \in Nat /\ IrWidth >= 2
  /\ IdcodeWidth \in Nat \ {0}
  /\ ValidIdcode(IdcodeValue)
  /\ HasIdcode \in BOOLEAN
  /\ NoOpcode \notin Register(IrWidth)
  /\ IjtagAccessOpcode = NoOpcode \/ ValidAccessOpcode(IjtagAccessOpcode)
  /\ DataRegisters \subseteq Instructions
  /\ "BYPASS" \in DataRegisters
  /\ HasIdcode => "IDCODE" \in DataRegisters

----------------------------------------------------------------------------
TapState ==
  {"TEST_LOGIC_RESET", "RUN_TEST_IDLE",
   "SELECT_DR_SCAN", "CAPTURE_DR", "SHIFT_DR", "EXIT1_DR", "PAUSE_DR",
   "EXIT2_DR", "UPDATE_DR",
   "SELECT_IR_SCAN", "CAPTURE_IR", "SHIFT_IR", "EXIT1_IR", "PAUSE_IR",
   "EXIT2_IR", "UPDATE_IR"}

\* <<next state if TMS = 0, next state if TMS = 1>>
TRANSITIONS ==
  [TEST_LOGIC_RESET |-> <<"RUN_TEST_IDLE", "TEST_LOGIC_RESET">>,
   RUN_TEST_IDLE    |-> <<"RUN_TEST_IDLE", "SELECT_DR_SCAN">>,
   SELECT_DR_SCAN   |-> <<"CAPTURE_DR", "SELECT_IR_SCAN">>,
   CAPTURE_DR       |-> <<"SHIFT_DR", "EXIT1_DR">>,
   SHIFT_DR         |-> <<"SHIFT_DR", "EXIT1_DR">>,
   EXIT1_DR         |-> <<"PAUSE_DR", "UPDATE_DR">>,
   PAUSE_DR         |-> <<"PAUSE_DR", "EXIT2_DR">>,
   EXIT2_DR         |-> <<"SHIFT_DR", "UPDATE_DR">>,
   UPDATE_DR        |-> <<"RUN_TEST_IDLE", "SELECT_DR_SCAN">>,
   SELECT_IR_SCAN   |-> <<"CAPTURE_IR", "TEST_LOGIC_RESET">>,
   CAPTURE_IR       |-> <<"SHIFT_IR", "EXIT1_IR">>,
   SHIFT_IR         |-> <<"SHIFT_IR", "EXIT1_IR">>,
   EXIT1_IR         |-> <<"PAUSE_IR", "UPDATE_IR">>,
   PAUSE_IR         |-> <<"PAUSE_IR", "EXIT2_IR">>,
   EXIT2_IR         |-> <<"SHIFT_IR", "UPDATE_IR">>,
   UPDATE_IR        |-> <<"RUN_TEST_IDLE", "SELECT_DR_SCAN">>]

\* A seeded fault: Exit2-IR's two successors swapped.
NextStateSwapped(s, tms) ==
  IF s = "EXIT2_IR" THEN TRANSITIONS[s][2 - tms] ELSE TRANSITIONS[s][tms + 1]

next_state(s, tms) == TRANSITIONS[s][tms + 1]

\* A seeded fault: EXTEST decoded from the two low bits only.
DecodePartial(opcode) ==
  IF opcode = IjtagAccessOpcode THEN "IJTAG_ACCESS"
  ELSE IF opcode[0] = 0 /\ opcode[1] = 0 THEN "EXTEST"
  ELSE IF HasIdcode /\ opcode = OPCODE_IDCODE THEN "IDCODE"
  ELSE "BYPASS"

\* Reserved opcodes decode to BYPASS; with an IJTAG_ACCESS opcode there is no
\* boundary register, so EXTEST's and SAMPLE/PRELOAD's are reserved too.
decode_instruction(opcode) ==
  IF opcode = IjtagAccessOpcode THEN "IJTAG_ACCESS"
  ELSE IF IjtagAccessOpcode = NoOpcode /\ opcode = OPCODE_EXTEST THEN "EXTEST"
  ELSE IF IjtagAccessOpcode = NoOpcode /\ opcode = OPCODE_SAMPLE_PRELOAD
       THEN "SAMPLE_PRELOAD"
  ELSE IF HasIdcode /\ opcode = OPCODE_IDCODE THEN "IDCODE"
  ELSE "BYPASS"

reset_instruction == IF HasIdcode THEN "IDCODE" ELSE "BYPASS"
network_access_instruction ==
  IF IjtagAccessOpcode = NoOpcode THEN "EXTEST" ELSE "IJTAG_ACCESS"

\* Seeded faults: TDI enters one bit too far up; the register shifts left.
ShiftedTooFar(reg, width, tdi) ==
  [k \in 0 .. width |-> IF k = width THEN tdi ELSE IF k + 1 = width THEN 0 ELSE reg[k + 1]]
ShiftedLeft(reg, width, tdi) ==
  [k \in 0 .. width - 1 |-> IF k = 0 THEN tdi ELSE reg[k - 1]]

\* One right shift: TDI enters at the far end, bit 0 leaves.
Shifted(reg, width, tdi) ==
  [k \in 0 .. width - 1 |-> IF k = width - 1 THEN tdi ELSE reg[k + 1]]

----------------------------------------------------------------------------
VARIABLES
  state,        \* TapModel.state
  irShift,      \* TapModel._ir_shift
  instruction,  \* TapModel.instruction
  bypassBit,    \* BypassRegister._bit
  idcodeShift,  \* IdcodeRegister._shreg
  tdo           \* what the last tick returned

tapVars == <<state, irShift, instruction, bypassBit, idcodeShift, tdo>>

TapTypeOK ==
  /\ state \in TapState
  /\ irShift \in Register(IrWidth)
  /\ instruction \in Instructions
  /\ bypassBit \in Bits
  /\ idcodeShift \in Register(IdcodeWidth)
  /\ tdo \in Bits

TapInit ==
  /\ state = "TEST_LOGIC_RESET"
  /\ irShift = [k \in 0 .. IrWidth - 1 |-> 0]
  /\ instruction = reset_instruction
  /\ bypassBit = 0
  /\ idcodeShift = [k \in 0 .. IdcodeWidth - 1 |-> 0]
  /\ tdo = 0

\* TapModel.reset(), the asynchronous TRST pin.
TapReset ==
  /\ state' = "TEST_LOGIC_RESET"
  /\ irShift' = [k \in 0 .. IrWidth - 1 |-> 0]
  /\ instruction' = reset_instruction
  /\ bypassBit' = 0
  /\ idcodeShift' = [k \in 0 .. IdcodeWidth - 1 |-> 0]
  /\ tdo' = 0

\* _active_dr() raises, before the state moves.
NoActiveDr ==
  /\ state \in {"CAPTURE_DR", "SHIFT_DR", "UPDATE_DR"}
  /\ instruction \notin DataRegisters

\* Seeded faults: Test-Logic-Reset does not reload the reset instruction;
\* Capture-DR leaves the BYPASS bit as it was.
TickInResetKeeps ==
  /\ state = "TEST_LOGIC_RESET"
  /\ tdo' = 0
  /\ UNCHANGED <<irShift, instruction, bypassBit, idcodeShift>>

TickCaptureDrStale ==
  /\ state = "CAPTURE_DR"
  /\ idcodeShift' = IF instruction = "IDCODE" THEN IdcodeValue ELSE idcodeShift
  /\ tdo' = 0
  /\ UNCHANGED <<irShift, instruction, bypassBit>>

\* One disjunct per branch of tick(), dispatched on the state before the edge.
\* A plugged-in register answers externalTdo.
TickInReset ==
  /\ state = "TEST_LOGIC_RESET"
  /\ instruction' = reset_instruction
  /\ tdo' = 0
  /\ UNCHANGED <<irShift, bypassBit, idcodeShift>>

TickCaptureIr ==
  /\ state = "CAPTURE_IR"
  /\ irShift' = CAPTURE_IR_PATTERN
  /\ tdo' = 0
  /\ UNCHANGED <<instruction, bypassBit, idcodeShift>>

TickShiftIr(tdi) ==
  /\ state = "SHIFT_IR"
  /\ tdo' = irShift[0]
  /\ irShift' = Shifted(irShift, IrWidth, tdi)
  /\ UNCHANGED <<instruction, bypassBit, idcodeShift>>

TickUpdateIr ==
  /\ state = "UPDATE_IR"
  /\ instruction' = decode_instruction(irShift)
  /\ tdo' = 0
  /\ UNCHANGED <<irShift, bypassBit, idcodeShift>>

TickCaptureDr ==
  /\ state = "CAPTURE_DR"
  /\ bypassBit' = IF instruction = "BYPASS" THEN 0 ELSE bypassBit
  /\ idcodeShift' = IF instruction = "IDCODE" THEN IdcodeValue ELSE idcodeShift
  /\ tdo' = 0
  /\ UNCHANGED <<irShift, instruction>>

TickShiftDr(tdi, externalTdo) ==
  /\ state = "SHIFT_DR"
  /\ tdo' = CASE instruction = "BYPASS" -> bypassBit
              [] instruction = "IDCODE" -> idcodeShift[0]
              [] OTHER -> externalTdo
  /\ bypassBit' = IF instruction = "BYPASS" THEN tdi ELSE bypassBit
  /\ idcodeShift' = IF instruction = "IDCODE"
                      THEN Shifted(idcodeShift, IdcodeWidth, tdi)
                      ELSE idcodeShift
  /\ UNCHANGED <<irShift, instruction>>

\* UPDATE_DR only calls the active register's update(), a no-op for the
\* built-in ones; the other states only move.
TickElsewhere ==
  /\ state \notin {"TEST_LOGIC_RESET", "CAPTURE_IR", "SHIFT_IR", "UPDATE_IR",
                   "CAPTURE_DR", "SHIFT_DR"}
  /\ tdo' = 0
  /\ UNCHANGED <<irShift, instruction, bypassBit, idcodeShift>>

TickDispatch(tdi, externalTdo) ==
  \/ TickInReset
  \/ TickCaptureIr
  \/ TickShiftIr(tdi)
  \/ TickUpdateIr
  \/ TickCaptureDr
  \/ TickShiftDr(tdi, externalTdo)
  \/ TickElsewhere

Tick(tms, tdi, externalTdo) ==
  /\ ~NoActiveDr
  /\ TickDispatch(tdi, externalTdo)
  /\ state' = next_state(state, tms)

TapNext ==
  \/ \E tms \in Bits, tdi \in Bits, externalTdo \in Bits : Tick(tms, tdi, externalTdo)
  \/ TapReset

TapSpec == TapInit /\ [][TapNext]_tapVars
=============================================================================
