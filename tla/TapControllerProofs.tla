------------------------ MODULE TapControllerProofs ------------------------
(***************************************************************************)
(* Proofs of TapControllerHistory's properties for every register width,   *)
(* IDCODE, IJTAG_ACCESS opcode and set of registered data registers.       *)
(***************************************************************************)
EXTENDS TapControllerHistory, TLAPS

----------------------------------------------------------------------------
(* The state invariants, strengthened until they are inductive.            *)

\* How many TMS = 1 edges lead from a state to Test-Logic-Reset.
OnesToReset(s) ==
  CASE s = "TEST_LOGIC_RESET" -> 0
    [] s = "SELECT_IR_SCAN" -> 1
    [] s = "SELECT_DR_SCAN" -> 2
    [] s \in {"RUN_TEST_IDLE", "UPDATE_DR", "UPDATE_IR"} -> 3
    [] s \in {"EXIT1_DR", "EXIT2_DR", "EXIT1_IR", "EXIT2_IR"} -> 4
    [] OTHER -> 5

\* Every TMS = 1 edge brings the controller one step closer.
ResetDistance == state = "TEST_LOGIC_RESET" \/ ones + OnesToReset(state) <= 5

IInv == TypeOK /\ ResetDistance /\ SixOnesDeselect /\ IrHoldsScan /\ DrHoldsScan

----------------------------------------------------------------------------
(* Lemmas about the operators.                                             *)

\* A shift of a register keeps its width.
LEMMA ShiftedType ==
  ASSUME NEW width \in Nat \ {0}, NEW reg \in Register(width), NEW tdi \in Bits
  PROVE  Shifted(reg, width, tdi) \in Register(width)
<1>1. \A k \in 0 .. width - 1 : k # width - 1 => k + 1 \in 0 .. width - 1
  OBVIOUS
<1> QED BY <1>1 DEF Shifted, Register, Bits

\* The opcodes are registers, and no two of those the decoder tells apart are
\* equal.
LEMMA OpcodeFacts ==
  /\ bypass_opcode \in Register(IrWidth) /\ CAPTURE_IR_PATTERN \in Register(IrWidth)
  /\ OPCODE_IDCODE # OPCODE_EXTEST /\ OPCODE_IDCODE # OPCODE_SAMPLE_PRELOAD
  /\ OPCODE_IDCODE # IjtagAccessOpcode
<1>1. IrWidth \in Nat /\ 0 \in 0 .. IrWidth - 1 /\ 1 \in 0 .. IrWidth - 1
  BY TapAssumption
<1>2. OPCODE_IDCODE[0] = 1 /\ OPCODE_EXTEST[0] = 0 /\ OPCODE_SAMPLE_PRELOAD[0] = 0
  BY <1>1 DEF OPCODE_IDCODE, OPCODE_EXTEST, OPCODE_SAMPLE_PRELOAD
<1>3. OPCODE_IDCODE # IjtagAccessOpcode
  <2>1. OPCODE_IDCODE \in Register(IrWidth)
    BY <1>1 DEF OPCODE_IDCODE, Register, Bits
  <2> QED BY <2>1, TapAssumption DEF ValidAccessOpcode
<1>4. bypass_opcode \in Register(IrWidth) /\ CAPTURE_IR_PATTERN \in Register(IrWidth)
  BY <1>1 DEF bypass_opcode, CAPTURE_IR_PATTERN, OPCODE_IDCODE, Register, Bits
<1> QED BY <1>2, <1>3, <1>4

\* Whatever is decoded is an instruction; the capture pattern decodes to the
\* reset instruction.
LEMMA DecodeFacts ==
  /\ \A opcode : decode_instruction(opcode) \in Instructions
  /\ decode_instruction(CAPTURE_IR_PATTERN) = reset_instruction
  /\ reset_instruction \in Instructions
  /\ network_access_instruction # reset_instruction
<1>1. CAPTURE_IR_PATTERN # IjtagAccessOpcode /\ CAPTURE_IR_PATTERN # OPCODE_EXTEST
        /\ CAPTURE_IR_PATTERN # OPCODE_SAMPLE_PRELOAD
  BY OpcodeFacts DEF CAPTURE_IR_PATTERN
<1>2. decode_instruction(CAPTURE_IR_PATTERN) = reset_instruction
  BY <1>1 DEF decode_instruction, reset_instruction, CAPTURE_IR_PATTERN
<1>3. \A opcode : decode_instruction(opcode) \in Instructions
  BY DEF decode_instruction, Instructions
<1> QED BY <1>2, <1>3 DEF reset_instruction, network_access_instruction, Instructions

\* Only its own opcode decodes to the instruction that selects the network.
LEMMA DecodeNetwork ==
  \A opcode : decode_instruction(opcode) = network_access_instruction
                => opcode = NetworkOpcode
BY DEF decode_instruction, network_access_instruction, NetworkOpcode

\* A transition leads to a state.
LEMMA NextStateType ==
  \A s \in TapState, tms \in Bits : next_state(s, tms) \in TapState
BY DEF TapState, Bits, next_state, TRANSITIONS

\* A scan not yet shifted leaves the register as captured.
LEMMA ContentsCaptured ==
  ASSUME NEW width \in Nat, NEW captured \in Register(width), scan' = <<>>
  PROVE  Contents(captured, width)' = captured
<1>1. Contents(captured, width)' = [k \in 0 .. width - 1 |-> captured[k]]
  BY DEF Contents
<1> QED BY <1>1 DEF Register

\* One more bit shifted in is one more bit of the scan.
LEMMA ContentsShifted ==
  ASSUME NEW width \in Nat \ {0}, NEW captured \in Register(width), NEW tdi \in Bits,
         scan \in Seq(Bits), scan' = Append(scan, tdi)
  PROVE  Contents(captured, width)' = Shifted(Contents(captured, width), width, tdi)
<1> DEFINE n == Len(scan)
<1>1. n \in Nat /\ Len(scan') = n + 1 /\ scan'[n + 1] = tdi
  OBVIOUS
<1>2. \A i \in 1 .. n : scan'[i] = scan[i]
  OBVIOUS
<1> DEFINE Before(k) == IF k + n < width THEN captured[k + n] ELSE scan[k + n + 1 - width]
           After(k) == IF k + (n + 1) < width THEN captured[k + (n + 1)]
                                              ELSE scan'[k + (n + 1) + 1 - width]
<1>3. Contents(captured, width) = [k \in 0 .. width - 1 |-> Before(k)]
  BY DEF Contents
<1>4. Contents(captured, width)' = [k \in 0 .. width - 1 |-> After(k)]
  BY <1>1 DEF Contents
<1>5. ASSUME NEW k \in 0 .. width - 1
      PROVE  After(k) = IF k = width - 1 THEN tdi ELSE Before(k + 1)
  <2>1. CASE k = width - 1
    BY <1>1, <2>1
  <2>2. CASE k # width - 1 /\ k + (n + 1) < width
    BY <1>1, <2>2
  <2>3. CASE k # width - 1 /\ ~(k + (n + 1) < width)
    <3>1. k + (n + 1) + 1 - width \in 1 .. n
      BY <1>1, <2>3
    <3>2. scan'[k + (n + 1) + 1 - width] = scan[k + (n + 1) + 1 - width]
      BY <1>2, <3>1
    <3> QED BY <1>1, <2>3, <3>2
  <2> QED BY <2>1, <2>2, <2>3
<1>6. \A k \in 0 .. width - 1 : k # width - 1 => k + 1 \in 0 .. width - 1
  OBVIOUS
<1>7. Shifted(Contents(captured, width), width, tdi)
        = [k \in 0 .. width - 1 |-> IF k = width - 1 THEN tdi ELSE Before(k + 1)]
  BY <1>3, <1>6 DEF Shifted
<1> QED BY <1>4, <1>5, <1>7

----------------------------------------------------------------------------
(* Type correctness.                                                       *)

\* Reset meets the types.
LEMMA TypeInit == Init => TypeOK
<1> SUFFICES ASSUME Init PROVE TypeOK
  OBVIOUS
<1>1. \A width \in Nat : [k \in 0 .. width - 1 |-> 0] \in Register(width)
  BY DEF Register, Bits
<1>2. reset_instruction \in Instructions
  BY DecodeFacts
<1> QED
  BY <1>1, <1>2, TapAssumption
  DEF ValidIdcode, Init, TapInit, TypeOK, TapTypeOK, TapState, Bits

\* A tick keeps them.
LEMMA TypeTick ==
  ASSUME TapTypeOK, NEW tdi \in Bits, NEW externalTdo \in Bits,
         TickDispatch(tdi, externalTdo)
  PROVE  /\ irShift' \in Register(IrWidth) /\ instruction' \in Instructions
         /\ bypassBit' \in Bits /\ idcodeShift' \in Register(IdcodeWidth)
         /\ tdo' \in Bits
<1>1. /\ irShift \in Register(IrWidth) /\ instruction \in Instructions
      /\ bypassBit \in Bits /\ idcodeShift \in Register(IdcodeWidth)
      /\ 0 \in Bits
  BY DEF TapTypeOK, Bits
<1>2. IrWidth \in Nat \ {0} /\ IdcodeWidth \in Nat \ {0}
  BY TapAssumption
<1>3. irShift[0] \in Bits /\ idcodeShift[0] \in Bits
  BY <1>1, <1>2 DEF Register
<1>4. CASE TickInReset
  BY <1>1, <1>4, DecodeFacts DEF TickInReset
<1>5. CASE TickCaptureIr
  BY <1>1, <1>5, OpcodeFacts DEF TickCaptureIr
<1>6. CASE TickShiftIr(tdi)
  BY <1>1, <1>2, <1>3, <1>6, ShiftedType DEF TickShiftIr
<1>7. CASE TickUpdateIr
  BY <1>1, <1>7, DecodeFacts DEF TickUpdateIr
<1>8. CASE TickCaptureDr
  BY <1>1, <1>8, TapAssumption DEF TickCaptureDr, ValidIdcode
<1>9. CASE TickShiftDr(tdi, externalTdo)
  <2>1. Shifted(idcodeShift, IdcodeWidth, tdi) \in Register(IdcodeWidth)
    BY <1>1, <1>2, ShiftedType
  <2>2. tdo' \in Bits
    BY <1>1, <1>3, <1>9 DEF TickShiftDr
  <2> QED BY <1>1, <1>9, <2>1, <2>2 DEF TickShiftDr
<1>10. CASE TickElsewhere
  BY <1>1, <1>10 DEF TickElsewhere
<1> QED BY <1>4, <1>5, <1>6, <1>7, <1>8, <1>9, <1>10 DEF TickDispatch

\* So does every step.
LEMMA TypeStep == TypeOK /\ [Next]_vars => TypeOK'
<1> SUFFICES ASSUME TypeOK, [Next]_vars PROVE TypeOK'
  OBVIOUS
<1>1. ASSUME NEW tms \in Bits, NEW tdi \in Bits, NEW externalTdo \in Bits,
             Clock(tms, tdi, externalTdo)
      PROVE  TypeOK'
  <2>1. state' \in TapState
    BY <1>1, NextStateType DEF Clock, Tick, TypeOK, TapTypeOK
  <2>2. ones' \in 0 .. 6
    BY <1>1 DEF Clock, CountOnes, TypeOK, Bits
  <2>3. scan' \in Seq(Bits)
    BY <1>1 DEF Clock, RecordScan, TypeOK
  <2> QED BY <1>1, <2>1, <2>2, <2>3, TypeTick DEF Clock, Tick, TypeOK, TapTypeOK
<1>2. CASE ResetPin
  <2>1. Init'
    BY <1>2 DEF ResetPin, TapReset, Init, TapInit
  <2> QED BY <2>1, TypeInit, PTL
<1>3. CASE UNCHANGED vars
  BY <1>3 DEF vars, tapVars, histVars, TypeOK, TapTypeOK
<1> QED BY <1>1, <1>2, <1>3 DEF Next

\* Whatever the pins do, every register keeps its width and the controller and
\* its instruction stay among those tap_fsm.py and tap_model.py name.
THEOREM TypeCorrect == Spec => []TypeOK
BY TypeInit, TypeStep, PTL DEF Spec

----------------------------------------------------------------------------
(* The inductive invariant: one lemma per conjunct.                        *)

\* Reset meets the invariant.
LEMMA InvInit == Init => IInv
<1> SUFFICES ASSUME Init PROVE IInv
  OBVIOUS
<1>1. TypeOK
  BY TypeInit
<1>2. ResetDistance /\ SixOnesDeselect
  BY DEF Init, TapInit, ResetDistance, SixOnesDeselect
<1>3. IrHoldsScan /\ DrHoldsScan
  BY DEF Init, TapInit, IrHoldsScan, DrHoldsScan, IrScanStates, DrScanStates
<1> QED BY <1>1, <1>2, <1>3 DEF IInv

\* A TMS = 1 edge shortens the way to Test-Logic-Reset, from any state.
LEMMA DistanceDrops ==
  \A s \in TapState : OnesToReset(next_state(s, 1)) < OnesToReset(s)
                      \/ next_state(s, 1) = "TEST_LOGIC_RESET"
BY DEF TapState, next_state, TRANSITIONS, OnesToReset

\* The distance to reset is at most five.
LEMMA DistanceRange == \A s \in TapState : OnesToReset(s) \in 0 .. 5
BY DEF TapState, OnesToReset

\* A clock keeps the count of ones within reach of reset.
LEMMA ResetDistanceClock ==
  ASSUME IInv, NEW tms \in Bits, NEW tdi \in Bits, NEW externalTdo \in Bits,
         Clock(tms, tdi, externalTdo)
  PROVE  ResetDistance'
<1>1. state \in TapState /\ state' \in TapState /\ ones \in 0 .. 6
  BY NextStateType DEF IInv, TypeOK, TapTypeOK, Clock, Tick
<1>2. OnesToReset(state) \in 0 .. 5 /\ OnesToReset(state') \in 0 .. 5
  BY <1>1, DistanceRange
<1>3. CASE tms = 0
  BY <1>2, <1>3 DEF Clock, CountOnes, ResetDistance
<1>4. CASE tms = 1
  <2>1. state' = next_state(state, 1)
    BY <1>4 DEF Clock, Tick
  <2>2. CASE state = "TEST_LOGIC_RESET"
    BY <2>1, <2>2 DEF next_state, TRANSITIONS, ResetDistance
  <2>3. CASE state # "TEST_LOGIC_RESET"
    <3>1. ones + OnesToReset(state) <= 5
      BY <2>3 DEF IInv, ResetDistance
    <3>2. ones' = ones + 1
      BY <1>1, <1>2, <1>4, <3>1 DEF Clock, CountOnes
    <3>3. OnesToReset(state') < OnesToReset(state) \/ state' = "TEST_LOGIC_RESET"
      BY <1>1, <2>1, DistanceDrops
    <3>4. ones' + OnesToReset(state') <= 5 \/ state' = "TEST_LOGIC_RESET"
      BY <1>1, <1>2, <3>1, <3>2, <3>3
    <3> QED BY <3>4 DEF ResetDistance
  <2> QED BY <2>2, <2>3
<1> QED BY <1>3, <1>4 DEF Bits

\* The sixth edge of a run is taken in Test-Logic-Reset.
LEMMA SixOnesClock ==
  ASSUME IInv, NEW tms \in Bits, NEW tdi \in Bits, NEW externalTdo \in Bits,
         Clock(tms, tdi, externalTdo)
  PROVE  SixOnesDeselect'
<1> SUFFICES ASSUME ones' = 6 PROVE instruction' = reset_instruction
  BY DEF SixOnesDeselect, reset_instruction
<1>1. ones \in 0 .. 6 /\ ones >= 5
  BY DEF IInv, TypeOK, Clock, CountOnes
<1>2. state \in TapState /\ OnesToReset(state) \in 0 .. 5
  BY DistanceRange DEF IInv, TypeOK, TapTypeOK
<1>3. state = "TEST_LOGIC_RESET"
  <2> SUFFICES ASSUME state # "TEST_LOGIC_RESET" PROVE FALSE
    OBVIOUS
  <2>1. OnesToReset(state) >= 1
    BY <1>2 DEF TapState, OnesToReset
  <2>2. ones + OnesToReset(state) <= 5
    BY DEF IInv, ResetDistance
  <2> QED BY <1>1, <1>2, <2>1, <2>2
<1>4. TickInReset
  BY <1>3 DEF Clock, Tick, TickDispatch, TickCaptureIr, TickShiftIr, TickUpdateIr,
              TickCaptureDr, TickShiftDr, TickElsewhere
<1> QED BY <1>4 DEF TickInReset

\* A scan state is entered from the capture state or from within the scan.
LEMMA ScanEntry ==
  ASSUME NEW s \in TapState, NEW tms \in Bits
  PROVE  /\ next_state(s, tms) \in IrScanStates
              => s \in {"CAPTURE_IR"} \cup (IrScanStates \ {"UPDATE_IR"})
         /\ next_state(s, tms) \in DrScanStates
              => s \in {"CAPTURE_DR"} \cup (DrScanStates \ {"UPDATE_DR"})
BY DEF TapState, Bits, next_state, TRANSITIONS, IrScanStates, DrScanStates

\* While the IR is scanned its stage holds the capture pattern and what came in.
LEMMA IrHoldsScanClock ==
  ASSUME IInv, NEW tms \in Bits, NEW tdi \in Bits, NEW externalTdo \in Bits,
         Clock(tms, tdi, externalTdo)
  PROVE  IrHoldsScan'
<1> SUFFICES ASSUME state' \in IrScanStates
             PROVE  irShift' = Contents(CAPTURE_IR_PATTERN, IrWidth)'
  BY DEF IrHoldsScan, CAPTURE_IR_PATTERN, OPCODE_IDCODE
<1>1. state \in {"CAPTURE_IR"} \cup (IrScanStates \ {"UPDATE_IR"})
  BY ScanEntry DEF IInv, TypeOK, TapTypeOK, Clock, Tick
<1>2. IrWidth \in Nat \ {0} /\ CAPTURE_IR_PATTERN \in Register(IrWidth)
  BY TapAssumption, OpcodeFacts
<1>3. CASE state = "CAPTURE_IR"
  <2>1. irShift' = CAPTURE_IR_PATTERN
    BY <1>3 DEF Clock, Tick, TickDispatch, TickInReset, TickCaptureIr, TickShiftIr,
                TickUpdateIr, TickCaptureDr, TickShiftDr, TickElsewhere
  <2>2. scan' = <<>>
    BY <1>3 DEF Clock, RecordScan, CaptureStates, ShiftStates
  <2> QED BY <1>2, <2>1, <2>2, ContentsCaptured
<1>4. CASE state = "SHIFT_IR"
  <2>1. irShift' = Shifted(irShift, IrWidth, tdi)
    BY <1>4 DEF Clock, Tick, TickDispatch, TickInReset, TickCaptureIr, TickShiftIr,
                TickUpdateIr, TickCaptureDr, TickShiftDr, TickElsewhere
  <2>2. scan' = Append(scan, tdi) /\ scan \in Seq(Bits)
    BY <1>4 DEF Clock, RecordScan, CaptureStates, ShiftStates, IInv, TypeOK
  <2>3. irShift = Contents(CAPTURE_IR_PATTERN, IrWidth)
    BY <1>4 DEF IInv, IrHoldsScan, IrScanStates
  <2> QED BY <1>2, <2>1, <2>2, <2>3, ContentsShifted
<1>5. CASE state \in {"EXIT1_IR", "PAUSE_IR", "EXIT2_IR"}
  <2>1. irShift' = irShift /\ scan' = scan
    BY <1>5 DEF Clock, RecordScan, CaptureStates, ShiftStates, Tick, TickDispatch,
                TickInReset, TickCaptureIr, TickShiftIr, TickUpdateIr, TickCaptureDr,
                TickShiftDr, TickElsewhere
  <2>2. irShift = Contents(CAPTURE_IR_PATTERN, IrWidth)
    BY <1>5 DEF IInv, IrHoldsScan, IrScanStates
  <2> QED BY <2>1, <2>2 DEF Contents
<1> QED BY <1>1, <1>3, <1>4, <1>5 DEF IrScanStates

\* BYPASS is a one-bit register captured as 0.
LEMMA DrHoldsScanClock ==
  ASSUME IInv, NEW tms \in Bits, NEW tdi \in Bits, NEW externalTdo \in Bits,
         Clock(tms, tdi, externalTdo)
  PROVE  DrHoldsScan'
<1> DEFINE Zero == [k \in {0} |-> 0]
<1> SUFFICES ASSUME state' \in DrScanStates
             PROVE  /\ instruction' = "IDCODE"
                         => idcodeShift' = Contents(IdcodeValue, IdcodeWidth)'
                    /\ instruction' = "BYPASS" => bypassBit' = Contents(Zero, 1)'[0]
  BY DEF DrHoldsScan
<1>1. state \in {"CAPTURE_DR"} \cup (DrScanStates \ {"UPDATE_DR"})
  BY ScanEntry DEF IInv, TypeOK, TapTypeOK, Clock, Tick
<1>2. /\ IdcodeWidth \in Nat \ {0} /\ IdcodeValue \in Register(IdcodeWidth)
      /\ Zero \in Register(1) /\ 1 \in Nat \ {0}
  BY TapAssumption DEF Register, Bits, ValidIdcode
<1>3. CASE state = "CAPTURE_DR"
  <2>1. TickCaptureDr
    BY <1>3 DEF Clock, Tick, TickDispatch, TickInReset, TickCaptureIr, TickShiftIr,
                TickUpdateIr, TickCaptureDr, TickShiftDr, TickElsewhere
  <2>2. scan' = <<>>
    BY <1>3 DEF Clock, RecordScan, CaptureStates, ShiftStates
  <2>3. Contents(IdcodeValue, IdcodeWidth)' = IdcodeValue /\ Contents(Zero, 1)' = Zero
    BY <1>2, <2>2, ContentsCaptured
  <2> QED BY <2>1, <2>3 DEF TickCaptureDr
<1>4. CASE state = "SHIFT_DR"
  <2>1. TickShiftDr(tdi, externalTdo)
    BY <1>4 DEF Clock, Tick, TickDispatch, TickInReset, TickCaptureIr, TickShiftIr,
                TickUpdateIr, TickCaptureDr, TickShiftDr, TickElsewhere
  <2>2. scan' = Append(scan, tdi) /\ scan \in Seq(Bits)
    BY <1>4 DEF Clock, RecordScan, CaptureStates, ShiftStates, IInv, TypeOK
  <2>3. CASE instruction' = "IDCODE"
    <3>1. instruction = "IDCODE" /\ idcodeShift' = Shifted(idcodeShift, IdcodeWidth, tdi)
      BY <2>1, <2>3 DEF TickShiftDr
    <3>2. idcodeShift = Contents(IdcodeValue, IdcodeWidth)
      BY <1>4, <3>1 DEF IInv, DrHoldsScan, DrScanStates
    <3>3. Contents(IdcodeValue, IdcodeWidth)'
            = Shifted(Contents(IdcodeValue, IdcodeWidth), IdcodeWidth, tdi)
      BY <1>2, <2>2, ContentsShifted
    <3> QED BY <2>3, <3>1, <3>2, <3>3
  <2>4. CASE instruction' = "BYPASS"
    <3>1. bypassBit' = tdi
      BY <2>1, <2>4 DEF TickShiftDr
    <3>2. Contents(Zero, 1)' = Shifted(Contents(Zero, 1), 1, tdi)
      BY <1>2, <2>2, ContentsShifted
    <3>3. Shifted(Contents(Zero, 1), 1, tdi)[0] = tdi
      BY DEF Shifted
    <3> QED BY <2>4, <3>1, <3>2, <3>3
  <2> QED BY <2>3, <2>4
<1>5. CASE state \in {"EXIT1_DR", "PAUSE_DR", "EXIT2_DR"}
  <2>1. UNCHANGED <<instruction, idcodeShift, bypassBit, scan>>
    BY <1>5 DEF Clock, RecordScan, CaptureStates, ShiftStates, Tick, TickDispatch,
                TickInReset, TickCaptureIr, TickShiftIr, TickUpdateIr, TickCaptureDr,
                TickShiftDr, TickElsewhere
  <2>2. /\ instruction = "IDCODE" => idcodeShift = Contents(IdcodeValue, IdcodeWidth)
        /\ instruction = "BYPASS" => bypassBit = Contents(Zero, 1)[0]
    BY <1>5 DEF IInv, DrHoldsScan, DrScanStates
  <2> QED BY <2>1, <2>2 DEF Contents
<1> QED BY <1>1, <1>3, <1>4, <1>5 DEF DrScanStates

\* No step leaves the invariant.
LEMMA InvStep == IInv /\ [Next]_vars => IInv'
<1> SUFFICES ASSUME IInv, [Next]_vars PROVE IInv'
  OBVIOUS
<1>1. TypeOK'
  BY TypeStep DEF IInv
<1>2. ASSUME NEW tms \in Bits, NEW tdi \in Bits, NEW externalTdo \in Bits,
             Clock(tms, tdi, externalTdo)
      PROVE  IInv'
  BY <1>1, <1>2, ResetDistanceClock, SixOnesClock, IrHoldsScanClock, DrHoldsScanClock
  DEF IInv
<1>3. CASE ResetPin
  <2>1. Init'
    BY <1>3 DEF ResetPin, TapReset, Init, TapInit
  <2> QED BY <2>1, InvInit, PTL
<1>4. CASE UNCHANGED vars
  BY <1>1, <1>4 DEF vars, tapVars, histVars, IInv, ResetDistance, SixOnesDeselect,
                    IrHoldsScan, DrHoldsScan, Contents
<1> QED BY <1>2, <1>3, <1>4 DEF Next

\* The invariant holds throughout.
THEOREM Invariance == Spec => []IInv
BY InvInit, InvStep, PTL DEF Spec

----------------------------------------------------------------------------
(* What the TAP promises.                                                  *)

\* From any state, five TMS = 1 edges in a row reach Test-Logic-Reset.
THEOREM FiveOnes == Spec => []FiveOnesReachReset
<1>1. IInv => FiveOnesReachReset
  <2> SUFFICES ASSUME IInv, ones >= 5 PROVE state = "TEST_LOGIC_RESET"
    BY DEF FiveOnesReachReset
  <2>1. state \in TapState /\ ones \in 0 .. 6
    BY DEF IInv, TypeOK, TapTypeOK
  <2>2. state = "TEST_LOGIC_RESET" \/ OnesToReset(state) >= 1
    BY <2>1 DEF TapState, OnesToReset
  <2> QED BY <2>1, <2>2, DistanceRange DEF IInv, ResetDistance
<1> QED BY <1>1, Invariance, PTL

\* Six of them also deselect whatever instruction was loaded.
THEOREM SixOnes == Spec => []SixOnesDeselect
BY Invariance, PTL DEF IInv

\* An instruction scan loses, repeats and reorders no bit, however it pauses.
THEOREM IrScanExact == Spec => []IrHoldsScan
BY Invariance, PTL DEF IInv

\* Neither does a scan of BYPASS or IDCODE.
THEOREM DrScanExact == Spec => []DrHoldsScan
BY Invariance, PTL DEF IInv

\* The only step that changes the instruction outside a reset decodes the
\* instruction register, which holds the scan.
LEMMA InstructionChanges ==
  ASSUME IInv, [Next]_vars
  PROVE  \/ instruction' = instruction
         \/ instruction' = reset_instruction
         \/ /\ state = "UPDATE_IR"
            /\ instruction' = decode_instruction(Contents(CAPTURE_IR_PATTERN, IrWidth))
<1>1. ASSUME NEW tms \in Bits, NEW tdi \in Bits, NEW externalTdo \in Bits,
             Clock(tms, tdi, externalTdo)
      PROVE  \/ instruction' = instruction
             \/ instruction' = reset_instruction
             \/ state = "UPDATE_IR" /\ instruction' = decode_instruction(irShift)
  BY <1>1 DEF Clock, Tick, TickDispatch, TickInReset, TickCaptureIr, TickShiftIr,
              TickUpdateIr, TickCaptureDr, TickShiftDr, TickElsewhere
<1>2. state = "UPDATE_IR" => irShift = Contents(CAPTURE_IR_PATTERN, IrWidth)
  BY DEF IInv, IrHoldsScan, IrScanStates
<1>3. CASE ResetPin
  BY <1>3 DEF ResetPin, TapReset
<1>4. CASE UNCHANGED vars
  BY <1>4 DEF vars, tapVars
<1> QED BY <1>1, <1>2, <1>3, <1>4 DEF Next

\* Only its own opcode, scanned in full, ever selects the network.
THEOREM NetworkSelection == Spec => NetworkSelectedByItsOpcode
<1>1. IInv /\ [Next]_vars =>
        (instruction # network_access_instruction
           /\ instruction' = network_access_instruction
         => /\ state = "UPDATE_IR"
            /\ Contents(CAPTURE_IR_PATTERN, IrWidth) = NetworkOpcode)
  BY InstructionChanges, DecodeFacts, DecodeNetwork
<1> QED BY <1>1, Invariance, PTL DEF Spec, NetworkSelectedByItsOpcode

\* Capture-IR straight to Update-IR selects the reset instruction.
THEOREM NullIrScan == Spec => NullIrScanIsSafe
<1>1. ASSUME IInv, [Next]_vars, state = "UPDATE_IR", scan = <<>>, ~(state' = state)
      PROVE  instruction' = reset_instruction
  <2>1. Contents(CAPTURE_IR_PATTERN, IrWidth) = CAPTURE_IR_PATTERN
    <3>1. Contents(CAPTURE_IR_PATTERN, IrWidth)
            = [k \in 0 .. IrWidth - 1 |-> CAPTURE_IR_PATTERN[k]]
      BY <1>1, TapAssumption DEF Contents
    <3> QED BY <3>1, OpcodeFacts DEF Register
  <2>2. irShift = CAPTURE_IR_PATTERN
    BY <1>1, <2>1 DEF IInv, IrHoldsScan, IrScanStates
  <2>3. ASSUME NEW tms \in Bits, NEW tdi \in Bits, NEW externalTdo \in Bits,
               Clock(tms, tdi, externalTdo)
        PROVE  instruction' = reset_instruction
    <3>1. TickUpdateIr
      BY <1>1, <2>3 DEF Clock, Tick, TickDispatch, TickInReset, TickCaptureIr,
                        TickShiftIr, TickUpdateIr, TickCaptureDr, TickShiftDr, TickElsewhere
    <3> QED BY <2>2, <3>1, DecodeFacts DEF TickUpdateIr
  <2>4. CASE ResetPin
    BY <2>4 DEF ResetPin, TapReset
  <2>5. ~ UNCHANGED vars
    BY <1>1 DEF vars, tapVars
  <2> QED BY <1>1, <2>3, <2>4, <2>5 DEF Next
<1> QED BY <1>1, Invariance, PTL DEF Spec, NullIrScanIsSafe
=============================================================================
