----------------------- MODULE TapControllerHistory -----------------------
(***************************************************************************)
(* TapController with two history variables: how many TMS = 1 edges in a   *)
(* row were taken, and the bits shifted in since the last capture.  They   *)
(* let the promises of the TAP be stated over whole pin sequences.         *)
(***************************************************************************)
EXTENDS TapController, Sequences

CONSTANT MaxScan  \* bound on the bits shifted in one scan

ASSUME MaxScanAssumption == MaxScan \in Nat

VARIABLES ones, scan

histVars == <<ones, scan>>
vars == <<tapVars, histVars>>

ShiftStates == {"SHIFT_IR", "SHIFT_DR"}
CaptureStates == {"CAPTURE_IR", "CAPTURE_DR"}

Init == TapInit /\ ones = 0 /\ scan = <<>>

\* ones saturates at 6.
CountOnes(tms) ==
  ones' = IF tms = 0 THEN 0 ELSE IF ones = 6 THEN 6 ELSE ones + 1

RecordScan(tdi) ==
  scan' = CASE state \in CaptureStates -> <<>>
            [] state \in ShiftStates -> Append(scan, tdi)
            [] OTHER -> scan

\* MaxScan bounds the scan: a full one is never taken back into a shift state.
Clock(tms, tdi, externalTdo) ==
  /\ Tick(tms, tdi, externalTdo)
  /\ CountOnes(tms)
  /\ RecordScan(tdi)
  /\ state' \in ShiftStates => Len(scan') < MaxScan

ResetPin == TapReset /\ ones' = 0 /\ scan' = <<>>

Next ==
  \/ \E tms \in Bits, tdi \in Bits, externalTdo \in Bits : Clock(tms, tdi, externalTdo)
  \/ ResetPin

Spec == Init /\ [][Next]_vars

----------------------------------------------------------------------------
TypeOK ==
  /\ TapTypeOK
  /\ ones \in 0 .. 6
  /\ scan \in Seq(Bits)

\* A width-bit register captured as `captured` and then shifted by `scan`.
Contents(captured, width) ==
  [k \in 0 .. width - 1 |->
     IF k + Len(scan) < width THEN captured[k + Len(scan)]
                              ELSE scan[k + Len(scan) + 1 - width]]

IrScanStates == {"SHIFT_IR", "EXIT1_IR", "PAUSE_IR", "EXIT2_IR", "UPDATE_IR"}
DrScanStates == {"SHIFT_DR", "EXIT1_DR", "PAUSE_DR", "EXIT2_DR", "UPDATE_DR"}

\* From whatever state, five TMS = 1 edges in a row bring the controller to
\* Test-Logic-Reset (tap_fsm.py's TRANSITIONS).
FiveOnesReachReset == ones >= 5 => state = "TEST_LOGIC_RESET"

\* Six of them also deselect any test-mode instruction: the reload happens on
\* the edge taken in Test-Logic-Reset (TapModel.tick).  Five, which tap_core.v:15-17
\* and tap_model.py:313-315 mention, are not always enough.
SixOnesDeselect == ones = 6 => instruction = reset_instruction

\* However a scan pauses, resumes or ends early, the instruction register
\* holds the capture pattern shifted by exactly the bits given since
\* Capture-IR (TapModel.tick, Capture-IR to Update-IR).
IrHoldsScan ==
  state \in IrScanStates => irShift = Contents(CAPTURE_IR_PATTERN, IrWidth)

\* The same for the built-in data registers, BYPASS and IDCODE: a detour
\* through Pause-DR loses and repeats no bit.
DrHoldsScan ==
  state \in DrScanStates =>
    /\ instruction = "IDCODE" => idcodeShift = Contents(IdcodeValue, IdcodeWidth)
    /\ instruction = "BYPASS" => bypassBit = Contents([k \in {0} |-> 0], 1)[0]

\* An instruction scan that goes Capture-IR -> Update-IR without a single
\* Shift-IR edge ends in the reset-safe instruction (the comment on
\* tap_model.py's CAPTURE_IR_PATTERN).
NullIrScanIsSafe ==
  [][state = "UPDATE_IR" /\ scan = <<>> /\ ~(state' = state)
       => instruction' = reset_instruction]_vars

\* The network's instruction is only ever entered by an instruction scan whose
\* last IrWidth bits are its opcode: no reset, no data scan, no pause selects
\* the network, and with a dedicated opcode the EXTEST one cannot either.
NetworkOpcode ==
  IF IjtagAccessOpcode = NoOpcode THEN OPCODE_EXTEST ELSE IjtagAccessOpcode

NetworkSelectedByItsOpcode ==
  [][instruction # network_access_instruction
       /\ instruction' = network_access_instruction
     => /\ state = "UPDATE_IR"
        /\ Contents(CAPTURE_IR_PATTERN, IrWidth) = NetworkOpcode]_vars
=============================================================================
