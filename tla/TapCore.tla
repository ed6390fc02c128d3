------------------------------ MODULE TapCore ------------------------------
(***************************************************************************)
(* rtl/tap_core.v, the synthesizable TAP.  Its instruction register holds  *)
(* an opcode, its tdo is combinational (sampled here at every edge) and    *)
(* its strobes fire under every instruction.  insert_sib_network hands it  *)
(* the IJTAG_ACCESS opcode, when there is one, as both OPCODE_EXTEST and   *)
(* OPCODE_SAMPLE_PRELOAD.  It is shown to implement TapController.         *)
(***************************************************************************)
EXTENDS Naturals

CONSTANTS IrWidth, IdcodeWidth, IdcodeValue, HasIdcode,
          IjtagAccessOpcode, NoOpcode

VARIABLES state, ir_shift, current_instruction_r, idcode_shift, bypass_bit, tdo

coreVars == <<state, ir_shift, current_instruction_r, idcode_shift, bypass_bit, tdo>>

BOARD_EXTEST == [k \in 0 .. IrWidth - 1 |-> 0]
BOARD_SAMPLE == [k \in 0 .. IrWidth - 1 |-> IF k = 1 THEN 1 ELSE 0]
OPCODE_IDCODE == [k \in 0 .. IrWidth - 1 |-> IF k = 0 THEN 1 ELSE 0]
BYPASS_OPCODE == [k \in 0 .. IrWidth - 1 |-> 1]
CAPTURE_IR_PATTERN == OPCODE_IDCODE

\* sib_insert's parameter overrides.
OPCODE_EXTEST ==
  IF IjtagAccessOpcode = NoOpcode THEN BOARD_EXTEST ELSE IjtagAccessOpcode
OPCODE_SAMPLE_PRELOAD ==
  IF IjtagAccessOpcode = NoOpcode THEN BOARD_SAMPLE ELSE IjtagAccessOpcode

\* The instruction an opcode stands for: TapModel.instruction_opcode, inverted.
InstructionOf(opcode) ==
  CASE opcode = IjtagAccessOpcode -> "IJTAG_ACCESS"
    [] opcode = BOARD_EXTEST -> "EXTEST"
    [] opcode = BOARD_SAMPLE -> "SAMPLE_PRELOAD"
    [] opcode = OPCODE_IDCODE -> "IDCODE"
    [] OTHER -> "BYPASS"

\* What insert_tap and insert_sib_network accept.
ASSUME CoreAssumption ==
  /\ IrWidth \in Nat /\ IrWidth >= 2
  /\ IdcodeWidth \in Nat \ {0} /\ HasIdcode \in BOOLEAN
  /\ NoOpcode \notin [0 .. IrWidth - 1 -> {0, 1}]
  /\ IjtagAccessOpcode = NoOpcode \/ IjtagAccessOpcode \in [0 .. IrWidth - 1 -> {0, 1}]
  /\ IjtagAccessOpcode \notin {BOARD_EXTEST, BOARD_SAMPLE, OPCODE_IDCODE, BYPASS_OPCODE}

Tap == INSTANCE TapController WITH
         irShift <- ir_shift,
         instruction <- InstructionOf(current_instruction_r),
         idcodeShift <- idcode_shift,
         bypassBit <- bypass_bit,
         DataRegisters <- {"EXTEST", "SAMPLE_PRELOAD", "IDCODE", "BYPASS",
                           "IJTAG_ACCESS"}

Bits == {0, 1}
reset_opcode == IF HasIdcode THEN OPCODE_IDCODE ELSE BYPASS_OPCODE

\* The case statement computing next_state_c.
next_state_c(tms) ==
  CASE state = "TEST_LOGIC_RESET" -> IF tms = 1 THEN "TEST_LOGIC_RESET" ELSE "RUN_TEST_IDLE"
    [] state = "SELECT_DR_SCAN" -> IF tms = 1 THEN "SELECT_IR_SCAN" ELSE "CAPTURE_DR"
    [] state \in {"CAPTURE_DR", "SHIFT_DR"} -> IF tms = 1 THEN "EXIT1_DR" ELSE "SHIFT_DR"
    [] state = "EXIT1_DR" -> IF tms = 1 THEN "UPDATE_DR" ELSE "PAUSE_DR"
    [] state = "PAUSE_DR" -> IF tms = 1 THEN "EXIT2_DR" ELSE "PAUSE_DR"
    [] state = "EXIT2_DR" -> IF tms = 1 THEN "UPDATE_DR" ELSE "SHIFT_DR"
    [] state = "SELECT_IR_SCAN" -> IF tms = 1 THEN "TEST_LOGIC_RESET" ELSE "CAPTURE_IR"
    [] state \in {"CAPTURE_IR", "SHIFT_IR"} -> IF tms = 1 THEN "EXIT1_IR" ELSE "SHIFT_IR"
    [] state = "EXIT1_IR" -> IF tms = 1 THEN "UPDATE_IR" ELSE "PAUSE_IR"
    [] state = "PAUSE_IR" -> IF tms = 1 THEN "EXIT2_IR" ELSE "PAUSE_IR"
    [] state = "EXIT2_IR" -> IF tms = 1 THEN "UPDATE_IR" ELSE "SHIFT_IR"
    [] state \in {"RUN_TEST_IDLE", "UPDATE_DR", "UPDATE_IR"} ->
         IF tms = 1 THEN "SELECT_DR_SCAN" ELSE "RUN_TEST_IDLE"

\* {tdi, reg[W-1:1]}
ShiftIn(reg, width, tdi) ==
  [k \in 0 .. width - 1 |-> IF k = width - 1 THEN tdi ELSE reg[k + 1]]

\* Under IDCODE (when configured) and under BYPASS the built-in registers are
\* in the scan path; under any other opcode external_dr_tdo is.
IdcodeSelected == HasIdcode /\ current_instruction_r = OPCODE_IDCODE
BypassSelected == ~IdcodeSelected /\ current_instruction_r = BYPASS_OPCODE

TdoMux(external_dr_tdo) ==
  IF state = "SHIFT_IR" THEN ir_shift[0]
  ELSE IF state # "SHIFT_DR" THEN 0
  ELSE IF IdcodeSelected THEN idcode_shift[0]
  ELSE IF BypassSelected THEN bypass_bit
  ELSE external_dr_tdo

\* A seeded fault: the parameter overrides are forgotten at Update-IR.
LatchedBoardOpcode(opcode) ==
  IF opcode = BOARD_EXTEST THEN BOARD_EXTEST
  ELSE IF opcode = BOARD_SAMPLE THEN BOARD_SAMPLE
  ELSE IF HasIdcode /\ opcode = OPCODE_IDCODE THEN OPCODE_IDCODE
  ELSE BYPASS_OPCODE

LatchedOpcode(opcode) ==
  IF opcode = OPCODE_EXTEST THEN OPCODE_EXTEST
  ELSE IF opcode = OPCODE_SAMPLE_PRELOAD THEN OPCODE_SAMPLE_PRELOAD
  ELSE IF HasIdcode /\ opcode = OPCODE_IDCODE THEN OPCODE_IDCODE
  ELSE BYPASS_OPCODE

CoreReset ==
  /\ state' = "TEST_LOGIC_RESET"
  /\ ir_shift' = [k \in 0 .. IrWidth - 1 |-> 0]
  /\ current_instruction_r' = reset_opcode
  /\ idcode_shift' = [k \in 0 .. IdcodeWidth - 1 |-> 0]
  /\ bypass_bit' = 0
  /\ tdo' = 0

CoreInit ==
  /\ state = "TEST_LOGIC_RESET"
  /\ ir_shift = [k \in 0 .. IrWidth - 1 |-> 0]
  /\ current_instruction_r = reset_opcode
  /\ idcode_shift = [k \in 0 .. IdcodeWidth - 1 |-> 0]
  /\ bypass_bit = 0
  /\ tdo = 0

\* The always block on posedge tck, every register assigned at once from the
\* values before the edge.
Posedge(tms, tdi, external_dr_tdo) ==
  /\ state' = next_state_c(tms)
  /\ tdo' = TdoMux(external_dr_tdo)
  /\ ir_shift' = CASE state = "CAPTURE_IR" -> CAPTURE_IR_PATTERN
                   [] state = "SHIFT_IR" -> ShiftIn(ir_shift, IrWidth, tdi)
                   [] OTHER -> ir_shift
  /\ current_instruction_r' =
       CASE state = "TEST_LOGIC_RESET" -> reset_opcode
         [] state = "UPDATE_IR" -> LatchedOpcode(ir_shift)
         [] OTHER -> current_instruction_r
  /\ idcode_shift' =
       CASE state = "CAPTURE_DR" /\ IdcodeSelected -> IdcodeValue
         [] state = "SHIFT_DR" /\ IdcodeSelected ->
              ShiftIn(idcode_shift, IdcodeWidth, tdi)
         [] OTHER -> idcode_shift
  /\ bypass_bit' =
       CASE state = "CAPTURE_DR" /\ BypassSelected -> 0
         [] state = "SHIFT_DR" /\ BypassSelected -> tdi
         [] OTHER -> bypass_bit

CoreNext ==
  \/ \E tms \in Bits, tdi \in Bits, external_dr_tdo \in Bits :
       Posedge(tms, tdi, external_dr_tdo)
  \/ CoreReset

CoreSpec == CoreInit /\ [][CoreNext]_coreVars

----------------------------------------------------------------------------
\* The synthesized TAP is cycle for cycle the behavioural model: same state,
\* registers, instruction and TDO on every edge and after every reset, with
\* or without a dedicated IJTAG_ACCESS opcode (tap_core.v's header, the claim
\* tests/test_tap_fsm_cross_sim.py samples on recorded traces).
ImplementsTapModel == Tap!TapSpec
=============================================================================
