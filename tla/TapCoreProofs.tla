---------------------------- MODULE TapCoreProofs ----------------------------
(***************************************************************************)
(* The synthesized TAP and what sits on its strobes.  For every width of   *)
(* the TAP's registers and of the status, IDCODE and IJTAG_ACCESS opcode,  *)
(* rtl/tap_core.v implements TapModel, CoreSpec => Tap!TapSpec, and the    *)
(* opt-in cells keep their promises across resets and clock domains.  The  *)
(* boundary-scan chain does for every port list, excluded set and set of   *)
(* instructions, over scans of any length under any of them.               *)
(***************************************************************************)
EXTENDS InstrumentCells, BoundaryScan, InductionLemmas

Word == [0 .. IrWidth - 1 -> {0, 1}]

\* The opcodes Update-IR can leave in current_instruction_r.
Latchable ==
  {OPCODE_EXTEST, OPCODE_SAMPLE_PRELOAD, BYPASS_OPCODE}
    \cup (IF HasIdcode THEN {OPCODE_IDCODE} ELSE {})

CoreInv ==
  /\ state \in Tap!TapState
  /\ ir_shift \in Word
  /\ current_instruction_r \in Latchable

----------------------------------------------------------------------------
\* The five opcodes are different words, and none is NoOpcode.
LEMMA Opcodes ==
  /\ BOARD_EXTEST \in Word /\ BOARD_SAMPLE \in Word
  /\ OPCODE_IDCODE \in Word /\ BYPASS_OPCODE \in Word
  /\ BOARD_EXTEST # BOARD_SAMPLE /\ BOARD_EXTEST # OPCODE_IDCODE
  /\ BOARD_EXTEST # BYPASS_OPCODE /\ BOARD_SAMPLE # OPCODE_IDCODE
  /\ BOARD_SAMPLE # BYPASS_OPCODE /\ OPCODE_IDCODE # BYPASS_OPCODE
  /\ NoOpcode \notin Word
  /\ IjtagAccessOpcode \notin {BOARD_EXTEST, BOARD_SAMPLE, OPCODE_IDCODE, BYPASS_OPCODE}
<1>1. IrWidth \in Nat /\ 0 \in 0 .. IrWidth - 1 /\ 1 \in 0 .. IrWidth - 1
  BY CoreAssumption
<1>2. /\ BOARD_EXTEST[0] = 0 /\ BOARD_SAMPLE[0] = 0
      /\ OPCODE_IDCODE[0] = 1 /\ BYPASS_OPCODE[0] = 1
  BY <1>1 DEF BOARD_EXTEST, BOARD_SAMPLE, OPCODE_IDCODE, BYPASS_OPCODE
<1>3. /\ BOARD_EXTEST[1] = 0 /\ BOARD_SAMPLE[1] = 1
      /\ OPCODE_IDCODE[1] = 0 /\ BYPASS_OPCODE[1] = 1
  BY <1>1 DEF BOARD_EXTEST, BOARD_SAMPLE, OPCODE_IDCODE, BYPASS_OPCODE
<1>4. BOARD_EXTEST \in Word /\ BOARD_SAMPLE \in Word
  BY DEF BOARD_EXTEST, BOARD_SAMPLE, Word
<1>5. OPCODE_IDCODE \in Word /\ BYPASS_OPCODE \in Word
  BY DEF OPCODE_IDCODE, BYPASS_OPCODE, Word
<1>6. /\ NoOpcode \notin Word
      /\ IjtagAccessOpcode \notin {BOARD_EXTEST, BOARD_SAMPLE, OPCODE_IDCODE, BYPASS_OPCODE}
  BY CoreAssumption DEF Word
<1> QED BY <1>2, <1>3, <1>4, <1>5, <1>6

\* The two modules spell the same opcodes.
LEMMA SameOpcodes ==
  /\ Tap!OPCODE_EXTEST = BOARD_EXTEST
  /\ Tap!OPCODE_SAMPLE_PRELOAD = BOARD_SAMPLE
  /\ Tap!OPCODE_IDCODE = OPCODE_IDCODE
BY DEF Tap!OPCODE_EXTEST, BOARD_EXTEST, Tap!OPCODE_SAMPLE_PRELOAD, BOARD_SAMPLE,
       Tap!OPCODE_IDCODE, OPCODE_IDCODE

\* Which register is in the scan path is a matter of the instruction alone.
LEMMA Selection ==
  ASSUME current_instruction_r \in Latchable
  PROVE  /\ IdcodeSelected <=> InstructionOf(current_instruction_r) = "IDCODE"
         /\ BypassSelected <=> InstructionOf(current_instruction_r) = "BYPASS"
         /\ InstructionOf(current_instruction_r)
              \in {"EXTEST", "SAMPLE_PRELOAD", "IDCODE", "BYPASS", "IJTAG_ACCESS"}
<1>1. CASE IjtagAccessOpcode = NoOpcode
  BY <1>1, Opcodes
  DEF Latchable, InstructionOf, OPCODE_EXTEST, OPCODE_SAMPLE_PRELOAD, IdcodeSelected,
      BypassSelected
<1>2. CASE IjtagAccessOpcode # NoOpcode
  BY <1>2, Opcodes
  DEF Latchable, InstructionOf, OPCODE_EXTEST, OPCODE_SAMPLE_PRELOAD, IdcodeSelected,
      BypassSelected
<1> QED BY <1>1, <1>2

\* Latching an opcode decodes it.
LEMMA Latching ==
  ASSUME NEW opcode \in Word
  PROVE  /\ LatchedOpcode(opcode) \in Latchable
         /\ InstructionOf(LatchedOpcode(opcode)) = Tap!decode_instruction(opcode)
<1>1. LatchedOpcode(opcode) \in Latchable
  BY DEF LatchedOpcode, Latchable
<1>2. CASE IjtagAccessOpcode = NoOpcode
  <2>1. opcode # IjtagAccessOpcode
    BY <1>2, Opcodes
  <2> QED BY <1>1, <1>2, <2>1, Opcodes, SameOpcodes
      DEF LatchedOpcode, InstructionOf, OPCODE_EXTEST, OPCODE_SAMPLE_PRELOAD,
          Tap!decode_instruction
<1>3. CASE IjtagAccessOpcode # NoOpcode
  BY <1>1, <1>3, Opcodes, SameOpcodes
  DEF LatchedOpcode, InstructionOf, OPCODE_EXTEST, OPCODE_SAMPLE_PRELOAD,
      Tap!decode_instruction
<1> QED BY <1>1, <1>2, <1>3

\* The reset opcode is latchable and stands for the reset instruction.
LEMMA Resetting ==
  /\ reset_opcode \in Latchable
  /\ InstructionOf(reset_opcode) = Tap!reset_instruction
BY Opcodes DEF reset_opcode, Latchable, InstructionOf, Tap!reset_instruction

\* The case statement is the transition table.
LEMMA NextState ==
  ASSUME state \in Tap!TapState, NEW tms \in Bits
  PROVE  next_state_c(tms) = Tap!next_state(state, tms)
         /\ next_state_c(tms) \in Tap!TapState
BY DEF Tap!TapState, Bits, next_state_c, Tap!next_state, Tap!TRANSITIONS

----------------------------------------------------------------------------
(* The invariant.                                                          *)

\* Reset meets the invariant.
LEMMA InvInit == CoreInit => CoreInv
<1>1. [k \in 0 .. IrWidth - 1 |-> 0] \in Word
  BY DEF Word
<1>2. "TEST_LOGIC_RESET" \in Tap!TapState
  BY DEF Tap!TapState
<1> QED BY <1>1, <1>2, Resetting DEF CoreInit, CoreInv

\* A shift keeps a word a word.
LEMMA ShiftInWord ==
  ASSUME NEW reg \in Word, NEW tdi \in Bits
  PROVE  ShiftIn(reg, IrWidth, tdi) \in Word
<1>1. \A k \in 0 .. IrWidth - 1 : k # IrWidth - 1 => k + 1 \in 0 .. IrWidth - 1
  BY CoreAssumption
<1> QED BY <1>1 DEF ShiftIn, Word, Bits

\* A clock edge keeps it.
LEMMA InvPosedge ==
  ASSUME CoreInv, NEW tms \in Bits, NEW tdi \in Bits, NEW external_dr_tdo \in Bits,
         Posedge(tms, tdi, external_dr_tdo)
  PROVE  CoreInv'
<1>1. state' \in Tap!TapState
  BY NextState DEF Posedge, CoreInv
<1>2. ir_shift' \in Word
  <2>1. CAPTURE_IR_PATTERN \in Word /\ ShiftIn(ir_shift, IrWidth, tdi) \in Word
    BY Opcodes, ShiftInWord DEF CoreInv, CAPTURE_IR_PATTERN
  <2> QED BY <2>1 DEF Posedge, CoreInv
<1>3. current_instruction_r' \in Latchable
  BY Latching, Resetting DEF Posedge, CoreInv
<1>4. Latchable' = Latchable /\ Word' = Word /\ (Tap!TapState)' = Tap!TapState
  BY DEF Latchable, Word, Tap!TapState
<1> QED BY <1>1, <1>2, <1>3, <1>4 DEF CoreInv

\* So does every step.
LEMMA InvStep == CoreInv /\ [CoreNext]_coreVars => CoreInv'
<1> SUFFICES ASSUME CoreInv, [CoreNext]_coreVars PROVE CoreInv'
  OBVIOUS
<1>1. CASE CoreReset
  <2>1. CoreInit'
    BY <1>1 DEF CoreReset, CoreInit
  <2> QED BY <2>1, InvInit, PTL
<1>2. CASE UNCHANGED coreVars
  BY <1>2 DEF coreVars, CoreInv
<1> QED BY <1>1, <1>2, InvPosedge DEF CoreNext

\* The invariant of the synthesized TAP holds throughout.
LEMMA Invariance == CoreSpec => []CoreInv
BY InvInit, InvStep, PTL DEF CoreSpec

----------------------------------------------------------------------------
(* The refinement.                                                         *)

\* Both TAPs reset alike.
LEMMA RefinesInit == CoreInit => Tap!TapInit
BY Resetting DEF CoreInit, Tap!TapInit

\* An asynchronous reset is the model's.
LEMMA RefinesReset == CoreReset => Tap!TapReset
BY Resetting DEF CoreReset, Tap!TapReset

\* A register is in the scan path for every instruction, so no tick is refused.
LEMMA AlwaysActive == CoreInv => ~Tap!NoActiveDr
BY Selection DEF CoreInv, Tap!NoActiveDr

\* A clock edge is a tick of the model.
LEMMA RefinesPosedge ==
  ASSUME CoreInv, NEW tms \in Bits, NEW tdi \in Bits, NEW external_dr_tdo \in Bits,
         Posedge(tms, tdi, external_dr_tdo)
  PROVE  Tap!Tick(tms, tdi, external_dr_tdo)
<1>1. state' = Tap!next_state(state, tms)
  BY NextState DEF Posedge, CoreInv
<1>2. ~Tap!NoActiveDr
  BY AlwaysActive
<1>3. /\ IdcodeSelected <=> InstructionOf(current_instruction_r) = "IDCODE"
      /\ BypassSelected <=> InstructionOf(current_instruction_r) = "BYPASS"
  BY Selection DEF CoreInv
<1>4. CASE state = "TEST_LOGIC_RESET"
  <2>1. InstructionOf(current_instruction_r)' = Tap!reset_instruction
    BY <1>4, Resetting DEF Posedge, InstructionOf
  <2>2. Tap!TickInReset
    BY <1>4, <2>1 DEF Posedge, TdoMux, Tap!TickInReset
  <2> QED BY <1>1, <1>2, <2>2 DEF Tap!Tick, Tap!TickDispatch
<1>5. CASE state = "CAPTURE_IR"
  <2>1. Tap!TickCaptureIr
    BY <1>5, SameOpcodes
    DEF Posedge, TdoMux, InstructionOf, Tap!TickCaptureIr, CAPTURE_IR_PATTERN,
        Tap!CAPTURE_IR_PATTERN
  <2> QED BY <1>1, <1>2, <2>1 DEF Tap!Tick, Tap!TickDispatch
<1>6. CASE state = "SHIFT_IR"
  <2>1. Tap!TickShiftIr(tdi)
    BY <1>6
    DEF Posedge, TdoMux, InstructionOf, Tap!TickShiftIr, ShiftIn, Tap!Shifted
  <2> QED BY <1>1, <1>2, <2>1 DEF Tap!Tick, Tap!TickDispatch
<1>7. CASE state = "UPDATE_IR"
  <2>1. InstructionOf(current_instruction_r)' = Tap!decode_instruction(ir_shift)
    BY <1>7, Latching DEF Posedge, CoreInv, InstructionOf
  <2>2. Tap!TickUpdateIr
    BY <1>7, <2>1 DEF Posedge, TdoMux, Tap!TickUpdateIr
  <2> QED BY <1>1, <1>2, <2>2 DEF Tap!Tick, Tap!TickDispatch
<1>8. CASE state = "CAPTURE_DR"
  <2>1. IdcodeSelected /\ BypassSelected => FALSE
    BY DEF BypassSelected
  <2>2. Tap!TickCaptureDr
    BY <1>3, <1>8, <2>1 DEF Posedge, TdoMux, InstructionOf, Tap!TickCaptureDr
  <2> QED BY <1>1, <1>2, <2>2 DEF Tap!Tick, Tap!TickDispatch
<1>9. CASE state = "SHIFT_DR"
  <2>1. Tap!TickShiftDr(tdi, external_dr_tdo)
    BY <1>3, <1>9
    DEF Posedge, TdoMux, InstructionOf, Tap!TickShiftDr, ShiftIn, Tap!Shifted
  <2> QED BY <1>1, <1>2, <2>1 DEF Tap!Tick, Tap!TickDispatch
<1>10. CASE state \notin {"TEST_LOGIC_RESET", "CAPTURE_IR", "SHIFT_IR", "UPDATE_IR",
                         "CAPTURE_DR", "SHIFT_DR"}
  <2>1. Tap!TickElsewhere
    BY <1>10 DEF Posedge, TdoMux, InstructionOf, Tap!TickElsewhere
  <2> QED BY <1>1, <1>2, <2>1 DEF Tap!Tick, Tap!TickDispatch
<1> QED BY <1>4, <1>5, <1>6, <1>7, <1>8, <1>9, <1>10

\* Cycle for cycle, the synthesized TAP is the behavioural model.
THEOREM Refinement == CoreSpec => ImplementsTapModel
<1>1. CoreInv /\ [CoreNext]_coreVars => [Tap!TapNext]_(Tap!tapVars)
  <2> SUFFICES ASSUME CoreInv, [CoreNext]_coreVars
               PROVE  [Tap!TapNext]_(Tap!tapVars)
    OBVIOUS
  <2>1. ASSUME NEW tms \in Bits, NEW tdi \in Bits, NEW external_dr_tdo \in Bits,
               Posedge(tms, tdi, external_dr_tdo)
        PROVE  Tap!TapNext
    BY <2>1, RefinesPosedge DEF Tap!TapNext, Tap!Bits, Bits
  <2>2. CASE CoreReset
    BY <2>2, RefinesReset DEF Tap!TapNext
  <2>3. CASE UNCHANGED coreVars
    BY <2>3 DEF coreVars, Tap!tapVars, InstructionOf
  <2> QED BY <2>1, <2>2, <2>3 DEF CoreNext
<1> QED BY <1>1, RefinesInit, Invariance, PTL DEF CoreSpec, ImplementsTapModel, Tap!TapSpec

----------------------------------------------------------------------------
(* The opt-in cells.                                                       *)

Vars == <<coreVars, cellVars>>

\* A reset empties the WRITE cell, and afterwards a 1 gets into it only by being
\* fed: the shift flop loads what reaches si, and po and shift_ff only each other.
LEMMA SurvivalStep == NothingSurvivesReset /\ [Next]_Vars => NothingSurvivesReset'
<1> SUFFICES ASSUME NothingSurvivesReset, [Next]_Vars PROVE NothingSurvivesReset'
  OBVIOUS
<1>1. CASE \E tms, tdi, external \in Bits, select \in BOOLEAN, next \in Words :
             Edge(tms, tdi, external, select, next)
  <2> PICK tms \in Bits, tdi \in Bits, external \in Bits, select \in BOOLEAN, next \in Words :
        Edge(tms, tdi, external, select, next)
    BY <1>1
  <2>1. CASE clr_n = 0
    BY <2>1 DEF Edge, WriteCell, ClearCell, NothingSurvivesReset
  <2>2. CASE clr_n # 0
    <3>1. po' = shift_ff \/ po' = po
      BY <2>2 DEF Edge, WriteCell
    <3>2. shift_ff' = po \/ shift_ff' = shift_ff \/ (state = "SHIFT_DR" /\ shift_ff' = external)
      BY <2>2 DEF Edge, WriteCell
    <3> QED BY <3>1, <3>2 DEF Edge, NothingSurvivesReset
  <2> QED BY <2>1, <2>2
<1>2. CASE ChipReset
  BY <1>2 DEF ChipReset, ClearCell, NothingSurvivesReset
<1>3. CASE Trst
  BY <1>3 DEF Trst, ClearCell, NothingSurvivesReset
<1>4. CASE UNCHANGED Vars
  BY <1>4 DEF Vars, cellVars, NothingSurvivesReset
<1> QED BY <1>1, <1>2, <1>3, <1>4 DEF Next

\* No value loaded before a chip reset or TRST comes back after it
\* (rtl/instrument_write_clr.v).
THEOREM ResetForgets == Spec => []NothingSurvivesReset
<1>1. Init => NothingSurvivesReset
  BY DEF Init, NothingSurvivesReset
<1> QED BY <1>1, SurvivalStep, PTL DEF Spec, Vars

----------------------------------------------------------------------------
\* A first flop holds the status it was clocked with, or X where that moved; the
\* word settles in one edge and reaches the second flop in the next.
SyncInv ==
  /\ status \in [StatusBits -> Bits]
  /\ sync_first \in [StatusBits -> Bits \cup {X}]
  /\ sync_second \in [StatusBits -> Bits]
  /\ held \in 0 .. 2
  /\ held >= 1 => sync_first = status
  /\ held = 2 => sync_second = status

\* The synchronizers come up cleared, the status not yet held.
LEMMA SyncInit == Init => SyncInv
  BY WordsAssumption DEF Init, SyncInv, AllZero, Bits, StatusBits

\* A flop that holds X is one whose bit moved on the last edge; with the status
\* still there is none, and the second flop takes the first's word whole.
LEMMA SyncStep == SyncInv /\ [Next]_Vars => SyncInv'
<1> SUFFICES ASSUME SyncInv, [Next]_Vars PROVE SyncInv'
  OBVIOUS
<1>1. CASE \E tms, tdi, external \in Bits, select \in BOOLEAN, next \in Words :
             Edge(tms, tdi, external, select, next)
  <2> PICK tms \in Bits, tdi \in Bits, external \in Bits, select \in BOOLEAN, next \in Words :
        Edge(tms, tdi, external, select, next)
    BY <1>1
  <2>1. status' = next /\ next \in [StatusBits -> Bits]
    BY WordsAssumption DEF Edge, Synchronize, Bits
  <2>2. sync_first' \in [StatusBits -> Bits \cup {X}]
    BY <2>1 DEF Edge, Synchronize
  <2>3. /\ sync_second' \in [StatusBits -> Bits]
        /\ \A k \in StatusBits : sync_first[k] # X => sync_second'[k] = sync_first[k]
    BY DEF Edge, Synchronize
  <2>4. held' = IF next # status THEN 0 ELSE IF held < 2 THEN held + 1 ELSE 2
    BY DEF Edge
  <2>5. CASE next # status
    BY <2>1, <2>2, <2>3, <2>4, <2>5 DEF SyncInv
  <2>6. CASE next = status
    <3>1. sync_first' = status'
      BY <2>1, <2>6 DEF Edge, Synchronize, SyncInv
    <3>2. ASSUME held >= 1 PROVE sync_second' = status'
      <4>1. \A k \in StatusBits : sync_first[k] # X
        BY <3>2 DEF SyncInv, Bits, X
      <4>2. \A k \in StatusBits : sync_second'[k] = status'[k]
        BY <4>1, <2>3, <3>2, <2>1, <2>6 DEF SyncInv
      <4> QED BY <4>2, <2>1, <2>3
    <3>3. held' \in 0 .. 2 /\ (held' = 2 => held >= 1)
      BY <2>4, <2>6 DEF SyncInv
    <3> QED BY <2>1, <2>2, <2>3, <3>1, <3>2, <3>3 DEF SyncInv
  <2> QED BY <2>5, <2>6
<1>2. CASE ChipReset
  BY <1>2 DEF ChipReset, SyncInv
<1>3. CASE Trst
  BY <1>3 DEF Trst, SyncInv, AllZero, Bits
<1>4. CASE UNCHANGED Vars
  BY <1>4 DEF Vars, cellVars, SyncInv
<1> QED BY <1>1, <1>2, <1>3, <1>4 DEF Next

\* Capture-DR never samples a bit in mid-transition, and samples the status in
\* one piece once it has held still (rtl/bc1_shift_only_sync.v).
THEOREM StatusCapture == Spec => []StatusIsCaptured
<1>1. SyncInv => StatusIsCaptured
  BY DEF SyncInv, StatusIsCaptured, CaptureSource, Bits, X
<1> QED BY <1>1, SyncInit, SyncStep, PTL DEF Spec, Vars

----------------------------------------------------------------------------
\* TRST leaves the TAP two edges away from the first state that captures, and
\* the release takes no longer.
ReleaseInv ==
  /\ stages \in {<<0, 0>>, <<1, 0>>, <<1, 1>>}
  /\ ~chipReset =>
       /\ stages = <<0, 0>> => state = "TEST_LOGIC_RESET"
       /\ stages = <<1, 0>> => state \in {"TEST_LOGIC_RESET", "RUN_TEST_IDLE"}

\* The release shifts a 1 in, stage by stage.
LEMMA Release ==
  ASSUME stages \in {<<0, 0>>, <<1, 0>>, <<1, 1>>}
  PROVE  ReleasedThrough = IF stages = <<0, 0>> THEN <<1, 0>> ELSE <<1, 1>>
<1>1. Len(stages) = 2 /\ stages \in Seq({0, 1})
  <2>1. CASE stages = <<0, 0>>  BY <2>1
  <2>2. CASE stages = <<1, 0>>  BY <2>2
  <2>3. CASE stages = <<1, 1>>  BY <2>3
  <2> QED BY <2>1, <2>2, <2>3
<1>2. /\ SubSeq(stages, 1, 1) \in Seq({0, 1})
      /\ Len(SubSeq(stages, 1, 1)) = 1
      /\ SubSeq(stages, 1, 1)[1] = stages[1]
  BY <1>1, SMTT(30)
<1>3. Len(stages) - 1 = 1
  BY <1>1
<1>4. /\ ReleasedThrough \in Seq({0, 1}) /\ Len(ReleasedThrough) = 2
      /\ ReleasedThrough[1] = 1 /\ ReleasedThrough[2] = stages[1]
  BY <1>2, <1>3, SMTT(30) DEF ReleasedThrough
<1>5. stages[1] = IF stages = <<0, 0>> THEN 0 ELSE 1
  OBVIOUS
<1>6. ReleasedThrough = <<1, stages[1]>>
  BY <1>4, SMTT(30)
<1> QED BY <1>5, <1>6

\* While the stages fill, the TAP gets no further than Run-Test/Idle.
LEMMA ReleaseStep == ReleaseInv /\ [Next]_Vars => ReleaseInv'
<1> SUFFICES ASSUME ReleaseInv, [Next]_Vars PROVE ReleaseInv'
  OBVIOUS
<1>1. CASE \E tms, tdi, external \in Bits, select \in BOOLEAN, next \in Words :
             Edge(tms, tdi, external, select, next)
  <2> PICK tms \in Bits, tdi \in Bits, external \in Bits, select \in BOOLEAN, next \in Words :
        Edge(tms, tdi, external, select, next)
    BY <1>1
  <2>1. stages' = IF stages = <<0, 0>> THEN <<1, 0>> ELSE <<1, 1>>
    BY Release DEF Edge, ReleaseInv
  <2>2. state' = next_state_c(tms) /\ chipReset' = chipReset
    BY DEF Edge, Posedge
  <2>3. state = "TEST_LOGIC_RESET" => state' \in {"TEST_LOGIC_RESET", "RUN_TEST_IDLE"}
    BY <2>2 DEF next_state_c
  <2>4. stages = <<0, 0>> \/ stages' = <<1, 1>>
    BY <2>1
  <2> QED BY <2>1, <2>2, <2>3, <2>4 DEF ReleaseInv
<1>2. CASE ChipReset
  BY <1>2 DEF ChipReset, ClearedStages, ReleaseInv
<1>3. CASE Trst
  BY <1>3 DEF Trst, ClearedStages, CoreReset, ReleaseInv
<1>4. CASE UNCHANGED Vars
  BY <1>4 DEF Vars, cellVars, coreVars, ReleaseInv
<1> QED BY <1>1, <1>2, <1>3, <1>4 DEF Next

\* A TRST by itself costs no scan (rtl/tck_reset_sync.v).
THEOREM TrstIsFree == Spec => []TrstCostsNoScan
<1>1. Init => ReleaseInv
  BY DEF Init, CoreInit, ClearedStages, ReleaseInv
<1>2. ReleaseInv => TrstCostsNoScan
  BY DEF ReleaseInv, TrstCostsNoScan, clr_n
<1> QED BY <1>1, <1>2, ReleaseStep, PTL DEF Spec, Vars

----------------------------------------------------------------------------
(* The boundary-scan chain. *)

Functions == {"INPUT", "CONTROL", "OUTPUT3", "BIDIR"}
AnyCell == [function : Functions, port : STRING]

\* A chain of cells in which every driver has its control cell just before it,
\* on the same port, and every control cell its driver just after it.
Plan(chain) ==
  /\ chain \in Seq(AnyCell)
  /\ \A n \in 1 .. Len(chain) :
       /\ chain[n].function \in {"OUTPUT3", "BIDIR"} =>
            /\ n - 1 \in 1 .. Len(chain)
            /\ chain[n - 1].function = "CONTROL" /\ chain[n - 1].port = chain[n].port
       /\ chain[n].function = "CONTROL" =>
            /\ n + 1 \in 1 .. Len(chain)
            /\ chain[n + 1].function \in {"OUTPUT3", "BIDIR"}
            /\ chain[n + 1].port = chain[n].port

\* One port's cells: none, one input cell, or a control cell and a driver.
LEMMA CellsOfPort ==
  ASSUME NEW p \in [name : STRING, direction : {"input", "output", "inout"}]
  PROVE  LET c == PortCells(p) IN
         /\ c \in Seq(AnyCell) /\ Len(c) \in 0 .. 2
         /\ Len(c) = 1 => c[1].function = "INPUT"
         /\ Len(c) = 2 => /\ c[1].function = "CONTROL" /\ c[1].port = c[2].port
                          /\ c[2].function \in {"OUTPUT3", "BIDIR"}
<1>1. CASE p.name \in Excluded
  BY <1>1 DEF PortCells
<1>2. CASE p.name \notin Excluded /\ p.direction = "input"
  BY <1>2 DEF PortCells, Cell, AnyCell, Functions
<1>3. CASE p.name \notin Excluded /\ p.direction = "output"
  BY <1>3 DEF PortCells, Cell, AnyCell, Functions
<1>4. CASE p.name \notin Excluded /\ p.direction = "inout"
  BY <1>4 DEF PortCells, Cell, AnyCell, Functions
<1> QED BY <1>1, <1>2, <1>3, <1>4

\* build_bsr_plan's chain is such a chain, whatever ports it skips.
LEMMA PlanIsPaired == ASSUME NEW ports \in PortLists PROVE Plan(build_bsr_plan(ports))
<1> DEFINE pieces == [i \in DOMAIN ports |-> PortCells(ports[i])]
           chain == build_bsr_plan(ports)
<1>1. /\ ports \in Seq([name : STRING, direction : {"input", "output", "inout"}])
      /\ Len(ports) \in Nat /\ DOMAIN ports = 1 .. Len(ports)
  BY BoundaryAssumption
<1>2. ASSUME NEW i \in 1 .. Len(ports)
      PROVE  /\ pieces[i] \in Seq(AnyCell) /\ Len(pieces[i]) \in 0 .. 2
             /\ Len(pieces[i]) = 1 => pieces[i][1].function = "INPUT"
             /\ Len(pieces[i]) = 2 => /\ pieces[i][1].function = "CONTROL"
                                      /\ pieces[i][1].port = pieces[i][2].port
                                      /\ pieces[i][2].function \in {"OUTPUT3", "BIDIR"}
  <2>1. pieces[i] = PortCells(ports[i])
    BY <1>1
  <2>2. ports[i] \in [name : STRING, direction : {"input", "output", "inout"}]
    <3> DEFINE Port == [name : STRING, direction : {"input", "output", "inout"}]
    <3>1. ports \in Seq(Port) /\ i \in 1 .. Len(ports)
      BY <1>1
    <3> HIDE DEF Port
    <3>2. ports[i] \in Port
      BY <3>1
    <3> QED BY <3>2 DEF Port
  <2> HIDE DEF pieces
  <2> QED BY <2>1, <2>2, CellsOfPort
<1>3. pieces \in Seq(Seq(AnyCell)) /\ Len(pieces) = Len(ports)
  BY <1>1, <1>2, FunctionIsSeq
<1>4. chain = FlattenSeq(pieces)
  BY DEF build_bsr_plan
<1> HIDE DEF pieces, chain
<1>5. PICK off \in [0 .. Len(pieces) -> Nat] :
        /\ off[0] = 0
        /\ \A i \in 1 .. Len(pieces) : off[i] = off[i - 1] + Len(pieces[i])
        /\ FlattenSeq(pieces) \in Seq(AnyCell)
        /\ Len(FlattenSeq(pieces)) = off[Len(pieces)]
        /\ \A i \in 1 .. Len(pieces), j \in Nat : j \in 1 .. Len(pieces[i]) =>
             /\ off[i - 1] + j <= off[Len(pieces)]
             /\ FlattenSeq(pieces)[off[i - 1] + j] = pieces[i][j]
        /\ \A m \in 1 .. off[Len(pieces)] : \E i \in 1 .. Len(pieces) :
             m - off[i - 1] \in 1 .. Len(pieces[i])
  BY <1>3, FlattenPositions
<1>6. /\ off \in [0 .. Len(ports) -> Nat]
      /\ chain \in Seq(AnyCell) /\ Len(chain) = off[Len(ports)]
      /\ \A i \in 1 .. Len(ports), j \in Nat : j \in 1 .. Len(pieces[i]) =>
             /\ off[i - 1] + j <= off[Len(ports)]
             /\ chain[off[i - 1] + j] = pieces[i][j]
      /\ \A m \in 1 .. off[Len(ports)] : \E i \in 1 .. Len(ports) :
             m - off[i - 1] \in 1 .. Len(pieces[i])
  BY <1>3, <1>4, <1>5
<1>7. ASSUME NEW n \in 1 .. Len(chain)
      PROVE  /\ chain[n].function \in {"OUTPUT3", "BIDIR"} =>
                  /\ n - 1 \in 1 .. Len(chain)
                  /\ chain[n - 1].function = "CONTROL" /\ chain[n - 1].port = chain[n].port
             /\ chain[n].function = "CONTROL" =>
                  /\ n + 1 \in 1 .. Len(chain)
                  /\ chain[n + 1].function \in {"OUTPUT3", "BIDIR"}
                  /\ chain[n + 1].port = chain[n].port
  <2>1. PICK i \in 1 .. Len(ports) : n - off[i - 1] \in 1 .. Len(pieces[i])
    BY <1>6, <1>7
  <2>0. i - 1 \in 0 .. Len(ports)
    BY <1>1
  <2>2. PICK start \in Nat : start = off[i - 1]
    BY <2>0, <1>6
  <2>3. PICK j \in 1 .. Len(pieces[i]) : j = n - start
    BY <2>1, <2>2
  <2>4. \A k \in Nat : k \in 1 .. Len(pieces[i]) =>
          start + k <= Len(chain) /\ chain[start + k] = pieces[i][k]
    BY <1>6, <2>2
  <2>5. n = start + j /\ Len(pieces[i]) \in 0 .. 2
    BY <2>2, <2>3, <1>2
  <2>6. CASE Len(pieces[i]) = 1
    <3>1. j = 1 /\ chain[n] = pieces[i][1]
      BY <2>3, <2>4, <2>5, <2>6
    <3> QED BY <3>1, <2>6, <1>2
  <2>7. CASE Len(pieces[i]) = 2
    <3>1. /\ chain[start + 1] = pieces[i][1] /\ chain[start + 2] = pieces[i][2]
          /\ start + 2 <= Len(chain)
      BY <2>4, <2>7
    <3>2. Len(chain) \in Nat
      BY <1>6
    <3>3. CASE j = 1
      <4>1. n = start + 1 /\ n + 1 = start + 2 /\ n + 1 \in 1 .. Len(chain)
        BY <2>5, <3>1, <3>2, <3>3
      <4> QED BY <4>1, <3>1, <2>7, <1>2
    <3>4. CASE j = 2
      <4>1. n = start + 2 /\ n - 1 = start + 1 /\ n - 1 \in 1 .. Len(chain)
        BY <2>5, <3>1, <3>2, <3>4
      <4>2. chain[n].function # "CONTROL"
        BY <4>1, <3>1, <2>7, <1>2
      <4> QED BY <4>1, <4>2, <3>1, <2>7, <1>2
    <3> QED BY <2>3, <2>7, <3>3, <3>4
  <2> QED BY <2>3, <2>5, <2>6, <2>7
<1> QED BY <1>6, <1>7 DEF Plan, chain

(***************************************************************************)
(* The invariant.                                                          *)
(***************************************************************************)

\* While a scan is under way the shift register ends in what has been fed.
FedIsShifted ==
  phase = "captured" /\ cells # <<>> =>
    /\ fed \in Seq({0, 1}) /\ Len(fed) <= Len(cells)
    /\ \A n \in 1 .. Len(fed) : rtlShift[n] = fed[Len(fed) + 1 - n]

\* What the last full scan fed is what the update latches hold.
LoadedIsHeld ==
  Len(loaded) = Len(cells) => \A n \in Updating : rtlPo[n] = loaded[n]

\* The model's latches are the cells' unless the last update was not EXTEST's.
LatchesAgree == Modelled /\ ~foreign => pyPo = rtlPo

BoundaryInv ==
  /\ Plan(cells)
  /\ phase \in {"idle", "captured"} /\ foreign \in BOOLEAN
  /\ ModelScanAgrees
  /\ LatchesAgree
  /\ FedIsShifted
  /\ LoadedIsHeld

\* The functions a cell can have, and its neighbour.
LEMMA Pairing ==
  ASSUME Plan(cells)
  PROVE  /\ CellNumbers = 1 .. Len(cells) /\ Len(cells) \in Nat
         /\ \A n \in CellNumbers : cells[n].function \in Functions
         /\ \A n \in Driven : /\ n \in CellNumbers /\ n - 1 \in CellNumbers
                              /\ n \in Updating /\ n - 1 \in Updating
                              /\ cells[n].function \in {"OUTPUT3", "BIDIR"}
                              /\ cells[n - 1].function = "CONTROL"
                              /\ cells[n - 1].port = cells[n].port
         /\ \A n \in CellNumbers : cells[n].function = "CONTROL" =>
              n + 1 \in CellNumbers /\ cells[n + 1].function \in {"OUTPUT3", "BIDIR"}
<1>1. /\ CellNumbers = 1 .. Len(cells) /\ Len(cells) \in Nat
      /\ \A n \in CellNumbers : cells[n] \in AnyCell
  BY DEF Plan, CellNumbers
<1>2. \A n \in CellNumbers : cells[n].function \in Functions
  BY <1>1 DEF AnyCell
<1>3. ASSUME NEW n \in Driven
      PROVE  /\ n \in CellNumbers /\ n - 1 \in CellNumbers
             /\ n \in Updating /\ n - 1 \in Updating
             /\ cells[n].function \in {"OUTPUT3", "BIDIR"}
             /\ cells[n - 1].function = "CONTROL"
             /\ cells[n - 1].port = cells[n].port
  <2>1. n \in CellNumbers /\ cells[n].function \in {"OUTPUT3", "BIDIR"}
    BY DEF Driven, Of
  <2>2. n - 1 \in CellNumbers /\ cells[n - 1].function = "CONTROL"
        /\ cells[n - 1].port = cells[n].port
    BY <2>1, <1>1 DEF Plan
  <2> QED BY <2>1, <2>2 DEF Updating, Of
<1>4. \A n \in CellNumbers : cells[n].function = "CONTROL" =>
        n + 1 \in CellNumbers /\ cells[n + 1].function \in {"OUTPUT3", "BIDIR"}
  BY <1>1 DEF Plan
<1> QED BY <1>1, <1>2, <1>3, <1>4

\* Without a bidirectional cell the model captures what the cells do.
LEMMA CapturesAgree ==
  ASSUME Plan(cells), Modelled, NEW n \in CellNumbers
  PROVE  ModelObserved(n) = Observed(n)
<1>1. cells[n].function \in Functions /\ cells[n].function # "BIDIR"
  BY Pairing DEF Modelled, Of
<1>2. CASE cells[n].function = "CONTROL"
  <2>1. n + 1 \in CellNumbers /\ cells[n + 1].function # "BIDIR"
    <3>1. n + 1 \in CellNumbers
      BY <1>2, Pairing
    <3> QED BY <3>1 DEF Modelled, Of
  <2> QED BY <1>2, <2>1 DEF ModelObserved, Observed, FuncIn
<1>3. CASE cells[n].function # "CONTROL"
  BY <1>1, <1>3 DEF ModelObserved, Observed, FuncIn, Functions
<1> QED BY <1>2, <1>3

\* Outside EXTEST a driver and its enable come from the design.
LEMMA DesignDrives ==
  ASSUME Plan(cells), ~extest_mode, NEW n \in Driven
  PROVE  /\ PinOut(n) = func[cells[n].port]
         /\ PinOut(DisableCell(n)) = IF cells[n].function = "OUTPUT3" THEN 1
                                     ELSE enable[cells[n].port]
<1>1. /\ n \in CellNumbers /\ n \in Nat /\ cells[n].function \in {"OUTPUT3", "BIDIR"}
      /\ cells[n - 1].function = "CONTROL" /\ cells[n - 1].port = cells[n].port
  BY Pairing
<1>2. (n - 1) + 1 = n
  BY <1>1
<1>3. PinOut(n) = func[cells[n].port]
  BY <1>1 DEF PinOut, FuncIn, _find_existing_tristate_driver
<1>4. FuncIn(n - 1) = IF cells[n].function = "BIDIR" THEN enable[cells[n].port] ELSE 1
  BY <1>1, <1>2 DEF FuncIn, _find_existing_tristate_driver
<1> QED BY <1>1, <1>3, <1>4 DEF PinOut, DisableCell

\* The plan is paired from the start and both sides are reset.
LEMMA InitBoundary == ASSUME BoundaryInit PROVE BoundaryInv
<1>1. Plan(cells)
  BY PlanIsPaired DEF BoundaryInit
<1>2. LoadedIsHeld
  BY DEF BoundaryInit, LoadedIsHeld, ShiftReset, PoReset, Updating, Of
<1> QED BY <1>1, <1>2 DEF BoundaryInit, BoundaryInv, ModelScanAgrees, LatchesAgree, FedIsShifted

\* The design moving, or an instruction loaded between scans, reaches no cell.
LEMMA MoveBoundary ==
  ASSUME BoundaryInv, Move \/ \E i \in Instructions : LoadInstruction(i)
  PROVE  BoundaryInv'
<1>1. /\ UNCHANGED <<cells, phase, rtlShift, rtlPo, pyShift, pyPo, foreign, fed, loaded>>
      /\ phase = "captured" => UNCHANGED instruction
  BY DEF Move, LoadInstruction
<1> QED BY <1>1 DEF BoundaryInv, ModelScanAgrees, LatchesAgree, FedIsShifted, LoadedIsHeld,
             Plan, Modelled, Updating, Of, CellNumbers, extest_mode

\* Capture-DR: the model samples what the cells do.
LEMMA CaptureBoundary == ASSUME BoundaryInv, CaptureDr PROVE BoundaryInv'
<1>1. /\ UNCHANGED <<cells, instruction, rtlPo, pyPo, foreign, loaded>>
      /\ phase' = "captured" /\ fed' = <<>>
      /\ rtlShift' = [n \in CellNumbers |-> Observed(n)]
  BY DEF CaptureDr
<1>2. ModelScanAgrees'
  <2> SUFFICES ASSUME Modelled', extest_mode' PROVE pyShift' = rtlShift'
    BY DEF ModelScanAgrees
  <2>1. Modelled /\ extest_mode
    BY <1>1 DEF Modelled, Of, CellNumbers, extest_mode
  <2>2. pyShift' = [n \in CellNumbers |-> ModelObserved(n)]
    BY <2>1 DEF CaptureDr
  <2>3. \A n \in CellNumbers : ModelObserved(n) = Observed(n)
    BY <2>1, CapturesAgree DEF BoundaryInv
  <2> QED BY <1>1, <2>2, <2>3
<1>3. FedIsShifted'
  <2>1. fed' \in Seq({0, 1}) /\ Len(fed') = 0
    BY <1>1
  <2>2. Len(cells') \in Nat
    BY <1>1, Pairing DEF BoundaryInv
  <2> QED BY <2>1, <2>2 DEF FedIsShifted
<1> QED BY <1>1, <1>2, <1>3 DEF BoundaryInv, LatchesAgree, LoadedIsHeld, Plan, Modelled,
             Updating, Of, CellNumbers

\* A shift moves both registers alike, and feeds the bit into the first cell.
LEMMA ShiftBoundary == ASSUME BoundaryInv, NEW tdi \in {0, 1}, ShiftDr(tdi) PROVE BoundaryInv'
<1>1. /\ UNCHANGED <<cells, instruction, phase, rtlPo, pyPo, foreign, loaded>>
      /\ phase = "captured"
      /\ rtlShift' = [n \in CellNumbers |-> IF n = 1 THEN tdi ELSE rtlShift[n - 1]]
      /\ fed' = IF Len(fed) = Len(cells) THEN Append(Tail(fed), tdi) ELSE Append(fed, tdi)
  BY DEF ShiftDr, ShiftedIn
<1>2. ModelScanAgrees'
  <2> SUFFICES ASSUME Modelled', extest_mode' PROVE pyShift' = rtlShift'
    BY DEF ModelScanAgrees
  <2>1. Modelled /\ extest_mode
    BY <1>1 DEF Modelled, Of, CellNumbers, extest_mode
  <2>2. pyShift = rtlShift
    BY <1>1, <2>1 DEF BoundaryInv, ModelScanAgrees
  <2> QED BY <2>1, <2>2 DEF ShiftDr
<1>3. FedIsShifted'
  <2> SUFFICES ASSUME cells # <<>>
               PROVE  /\ fed' \in Seq({0, 1}) /\ Len(fed') <= Len(cells)
                      /\ \A n \in 1 .. Len(fed') : rtlShift'[n] = fed'[Len(fed') + 1 - n]
    BY <1>1 DEF FedIsShifted
  <2>1. /\ fed \in Seq({0, 1}) /\ Len(fed) <= Len(cells)
        /\ \A n \in 1 .. Len(fed) : rtlShift[n] = fed[Len(fed) + 1 - n]
    BY <1>1 DEF BoundaryInv, FedIsShifted
  <2>2. Len(cells) \in Nat /\ Len(cells) # 0 /\ CellNumbers = 1 .. Len(cells)
    BY Pairing DEF BoundaryInv, Plan
  <2>3. CASE Len(fed) = Len(cells)
    <3> DEFINE l == Len(fed)
    <3>1. /\ fed' \in Seq({0, 1}) /\ Len(fed') = l
          /\ fed'[l] = tdi /\ \A m \in 1 .. l - 1 : fed'[m] = fed[m + 1]
      BY <1>1, <2>1, <2>2, <2>3
    <3>2. ASSUME NEW n \in 1 .. l PROVE rtlShift'[n] = fed'[l + 1 - n]
      <4>1. CASE n = 1
        BY <1>1, <2>2, <2>3, <3>1, <4>1
      <4>2. CASE n # 1
        <5>1. rtlShift'[n] = rtlShift[n - 1]
          BY <1>1, <2>2, <2>3, <4>2
        <5>2. rtlShift[n - 1] = fed[l + 1 - (n - 1)]
          BY <2>1, <4>2
        <5>3. l + 1 - n \in 1 .. l - 1 /\ (l + 1 - n) + 1 = l + 1 - (n - 1)
          BY <2>1, <4>2
        <5> QED BY <5>1, <5>2, <5>3, <3>1
      <4> QED BY <4>1, <4>2
    <3> QED BY <3>1, <3>2, <2>3
  <2>4. CASE Len(fed) # Len(cells)
    <3> DEFINE l == Len(fed)
    <3>1. /\ fed' \in Seq({0, 1}) /\ Len(fed') = l + 1 /\ l + 1 <= Len(cells)
          /\ fed'[l + 1] = tdi /\ \A m \in 1 .. l : fed'[m] = fed[m]
      BY <1>1, <2>1, <2>2, <2>4
    <3>2. ASSUME NEW n \in 1 .. l + 1 PROVE rtlShift'[n] = fed'[l + 2 - n]
      <4>0. l \in Nat /\ n \in 1 .. Len(cells)
        BY <2>1, <2>2, <3>1
      <4>1. CASE n = 1
        BY <1>1, <2>2, <3>1, <4>0, <4>1
      <4>2. CASE n # 1
        <5>1. rtlShift'[n] = rtlShift[n - 1]
          BY <1>1, <2>2, <4>0, <4>2
        <5>2. rtlShift[n - 1] = fed[l + 1 - (n - 1)]
          BY <2>1, <4>0, <4>2
        <5>3. l + 2 - n \in 1 .. l /\ l + 2 - n = l + 1 - (n - 1)
          BY <4>0, <4>2
        <5> QED BY <5>1, <5>2, <5>3, <3>1
      <4> QED BY <4>1, <4>2
    <3>3. \A n \in 1 .. Len(fed') : rtlShift'[n] = fed'[Len(fed') + 1 - n]
      <4>1. Len(fed') + 1 = l + 2
        BY <2>1, <3>1
      <4> QED BY <3>1, <3>2, <4>1
    <3> QED BY <3>1, <3>3
  <2> QED BY <2>3, <2>4
<1> QED BY <1>1, <1>2, <1>3 DEF BoundaryInv, LatchesAgree, LoadedIsHeld, Plan, Modelled,
             Updating, Of, CellNumbers

\* An update latches what the scan fed, under whichever instruction.
LEMMA UpdateBoundary == ASSUME BoundaryInv, UpdateDr PROVE BoundaryInv'
<1>1. /\ UNCHANGED <<cells, instruction, rtlShift, pyShift>>
      /\ phase = "captured" /\ phase' = "idle"
      /\ rtlPo' = [n \in Updating |-> rtlShift[n]]
      /\ foreign' = ~extest_mode
      /\ loaded' = IF Len(fed) = Len(cells) THEN Reverse(fed) ELSE <<>>
  BY DEF UpdateDr
<1>2. Updating' = Updating /\ Modelled' = Modelled /\ Updating \subseteq CellNumbers
  BY <1>1 DEF Updating, Of, Modelled, CellNumbers
<1>3. LatchesAgree'
  <2> SUFFICES ASSUME Modelled, extest_mode PROVE pyPo' = rtlPo'
    BY <1>1, <1>2 DEF LatchesAgree
  <2>1. pyShift = rtlShift
    BY <1>1 DEF BoundaryInv, ModelScanAgrees
  <2> QED BY <1>1, <2>1 DEF UpdateDr
<1>4. LoadedIsHeld'
  <2> SUFFICES ASSUME Len(loaded') = Len(cells), NEW n \in Updating
               PROVE  rtlPo'[n] = loaded'[n]
    BY <1>1, <1>2 DEF LoadedIsHeld
  <2>1. n \in 1 .. Len(cells) /\ Len(cells) \in Nat /\ cells # <<>>
    BY <1>2, Pairing DEF BoundaryInv
  <2>2. /\ fed \in Seq({0, 1})
        /\ \A m \in 1 .. Len(fed) : rtlShift[m] = fed[Len(fed) + 1 - m]
    BY <1>1, <2>1 DEF BoundaryInv, FedIsShifted
  <2>3. Len(fed) = Len(cells) /\ loaded' = Reverse(fed)
    BY <1>1, <2>1
  <2>4. loaded'[n] = fed[Len(fed) - n + 1]
    BY <2>1, <2>2, <2>3 DEF Reverse
  <2>5. Len(fed) - n + 1 = Len(fed) + 1 - n
    BY <2>1, <2>2
  <2> QED BY <1>1, <2>1, <2>2, <2>3, <2>4, <2>5
<1> QED BY <1>1, <1>3, <1>4 DEF BoundaryInv, ModelScanAgrees, FedIsShifted, Plan

\* TRST zeroes both sides, at any point of a scan.
LEMMA ResetBoundary == ASSUME BoundaryInv, ResetChain PROVE BoundaryInv'
<1>1. /\ cells' = cells /\ phase' = "idle" /\ foreign' = FALSE
      /\ rtlPo' = PoReset /\ pyPo' = PoReset /\ loaded' = ShiftReset
  BY DEF ResetChain
<1>2. LoadedIsHeld'
  BY <1>1 DEF LoadedIsHeld, ShiftReset, PoReset, Updating, Of, CellNumbers
<1> QED BY <1>1, <1>2 DEF BoundaryInv, ModelScanAgrees, LatchesAgree, FedIsShifted, Plan

\* The invariant holds of every plan, under every interleaving of scans.
THEOREM BoundaryInvariant == BoundarySpec => []BoundaryInv
<1>1. BoundaryInv /\ [BoundaryNext]_boundaryVars => BoundaryInv'
  <2> SUFFICES ASSUME BoundaryInv, [BoundaryNext]_boundaryVars PROVE BoundaryInv'
    OBVIOUS
  <2>1. CASE BoundaryNext
    BY <2>1, MoveBoundary, CaptureBoundary, ShiftBoundary, UpdateBoundary, ResetBoundary DEF BoundaryNext
  <2>2. CASE UNCHANGED boundaryVars
    BY <2>2 DEF boundaryVars, designVars, BoundaryInv, ModelScanAgrees, LatchesAgree, FedIsShifted,
                LoadedIsHeld, Plan, Modelled, Updating, Of, CellNumbers, extest_mode
  <2> QED BY <2>1, <2>2
<1> QED BY <1>1, InitBoundary, PTL DEF BoundarySpec

\* During EXTEST's own scans every bit of the register is the chip's.
THEOREM ModelScansAsTheCells == BoundarySpec => []ModelScanAgrees
<1>1. BoundaryInv => ModelScanAgrees
  BY DEF BoundaryInv
<1> QED BY <1>1, BoundaryInvariant, PTL

\* The register predicts every pin, unless EXTEST drives another
\* instruction's update.
THEOREM ModelPredictsThePins == BoundarySpec => []ModelPinsAgree
<1>1. BoundaryInv => ModelPinsAgree
  <2> SUFFICES ASSUME BoundaryInv, Modelled, ~(foreign /\ extest_mode), NEW n \in Driven
               PROVE  pin_drive_value(n) = Pin(n)
    BY DEF ModelPinsAgree
  <2>1. Plan(cells)
    BY DEF BoundaryInv
  <2>2. /\ n \in CellNumbers /\ cells[n].function = "OUTPUT3"
    BY <2>1, Pairing DEF Modelled, Of
  <2>3. CASE extest_mode
    <3>1. pyPo = rtlPo
      BY <2>3 DEF BoundaryInv, LatchesAgree
    <3> QED BY <2>2, <2>3, <3>1 DEF pin_drive_value, Pin, PinOut, Released, DisableCell
  <2>4. CASE ~extest_mode
    <3>1. PinOut(n) = func[cells[n].port] /\ PinOut(DisableCell(n)) = 1
      BY <2>1, <2>2, <2>4, DesignDrives
    <3>2. pin_drive_value(n) = func[cells[n].port]
      BY <2>2, <2>4 DEF pin_drive_value, ModelObserved
    <3> QED BY <3>1, <3>2 DEF Pin
  <2> QED BY <2>3, <2>4
<1> QED BY <1>1, BoundaryInvariant, PTL

\* EXTEST drives what the last full scan fed, cell by cell.
THEOREM ExtestDrivesTheLastLoad == BoundarySpec => []ExtestDrivesLoaded
<1>1. BoundaryInv => ExtestDrivesLoaded
  <2> SUFFICES ASSUME BoundaryInv, extest_mode, Len(loaded) = Len(cells), NEW n \in Driven
               PROVE  Pin(n) = IF loaded[DisableCell(n)] = 1 THEN loaded[n] ELSE Released(n)
    BY DEF ExtestDrivesLoaded
  <2>1. n \in Updating /\ n - 1 \in Updating
    BY Pairing DEF BoundaryInv
  <2>2. rtlPo[n] = loaded[n] /\ rtlPo[n - 1] = loaded[n - 1]
    BY <2>1 DEF BoundaryInv, LoadedIsHeld
  <2> QED BY <2>2 DEF Pin, PinOut, DisableCell
<1> QED BY <1>1, BoundaryInvariant, PTL

\* Outside EXTEST the inserted cells are transparent on every pin.
THEOREM NormalModeIsTransparent == BoundarySpec => []NormalModePinsUnchanged
<1>1. BoundaryInv => NormalModePinsUnchanged
  <2> SUFFICES ASSUME BoundaryInv, ~extest_mode, NEW n \in Driven
               PROVE  Pin(n) = IF cells[n].function = "OUTPUT3" \/ enable[cells[n].port] = 1
                                 THEN func[cells[n].port] ELSE pad[cells[n].port]
    BY DEF NormalModePinsUnchanged
  <2>1. cells[n].function \in {"OUTPUT3", "BIDIR"}
    BY Pairing DEF BoundaryInv
  <2>2. /\ PinOut(n) = func[cells[n].port]
        /\ PinOut(DisableCell(n)) = IF cells[n].function = "OUTPUT3" THEN 1
                                    ELSE enable[cells[n].port]
    BY DesignDrives DEF BoundaryInv
  <2> QED BY <2>1, <2>2 DEF Pin, Released
<1> QED BY <1>1, BoundaryInvariant, PTL
=============================================================================
