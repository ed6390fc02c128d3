---------------------------- MODULE TapIntegrity ----------------------------
(***************************************************************************)
(* The TAP part of tap_integrity.py's program: the tests of the TAP's      *)
(* state machine and of its own registers, of which TapPlay plays a whole  *)
(* program.  It follows a TRST, whose lead-in leaves what TapPlay's Init   *)
(* holds.  The network's own tests are IntegrityProbe's.                   *)
(***************************************************************************)
EXTENDS StilPattern, TestPatterns

Test(name, lead_in, operations) ==
  [kind |-> "test", name |-> name,
   ops |-> (IF lead_in = <<>> THEN <<>> ELSE << Raw(lead_in) >>) \o operations]

\* Raw cycles: TMS values at TDI 0, and bits of a scan, the last one leaving it.
Tms(values) == [i \in DOMAIN values |-> <<values[i], 0>>]
_shift_cycles(bits) == [i \in DOMAIN bits |-> <<shift_tms(Len(bits))[i], bits[i]>>]

_TO_SHIFT_DR == Tms(<<1, 0, 0>>)
_TO_SHIFT_IR == Tms(<<1, 1, 0, 0>>)
_EXIT1_TO_IDLE == Tms(<<1, 0>>)
_PAUSE_AND_RESUME == Tms(<<0, 0, 0, 1, 0>>)

OpcodeBits(opcode) == [i \in 1 .. IrWidth |-> opcode[i - 1]]
Ones(length) == [i \in 1 .. length |-> 1]

_ir_load(opcode) == _TO_SHIFT_IR \o _shift_cycles(OpcodeBits(opcode)) \o _EXIT1_TO_IDLE
_dr_scan_cycles(bits) == _TO_SHIFT_DR \o _shift_cycles(bits) \o _EXIT1_TO_IDLE

\* A scan in two parts with a pause between them, from the shift state on.
Paused(bits, split) ==
  _shift_cycles(SubSeq(bits, 1, split)) \o _PAUSE_AND_RESUME
    \o _shift_cycles(SubSeq(bits, split + 1, Len(bits)))

\* A seeded fault: the pattern held twice.
HeldOneWay(pattern, complement, out) ==
  _shift_cycles(pattern) \o _PAUSE_AND_RESUME \o _shift_cycles(pattern) \o _PAUSE_AND_RESUME
    \o _shift_cycles(out) \o _EXIT1_TO_IDLE

\* A register held at a pattern, then at its complement, then read out.
HeldBothWays(pattern, complement, out) ==
  _shift_cycles(pattern) \o _PAUSE_AND_RESUME \o _shift_cycles(complement) \o _PAUSE_AND_RESUME
    \o _shift_cycles(out) \o _EXIT1_TO_IDLE

reset_dr == IF HasIdcode THEN IdcodeWidth ELSE 1
reset_opcode == IF HasIdcode THEN Tap!OPCODE_IDCODE ELSE Tap!bypass_opcode
Largest(a, b) == IF a > b THEN a ELSE b

implemented_opcodes ==
  (IF IjtagAccessOpcode = NoOpcode THEN {Tap!OPCODE_EXTEST, Tap!OPCODE_SAMPLE_PRELOAD}
                                   ELSE {IjtagAccessOpcode})
    \cup {Tap!bypass_opcode} \cup (IF HasIdcode THEN {Tap!OPCODE_IDCODE} ELSE {})
Unimplemented == Tap!Register(IrWidth) \ implemented_opcodes

----------------------------------------------------------------------------
_tap_path_tests(margin) ==
  LET fed == default_sentinel_pattern(reset_dr + margin)
      short == default_sentinel_pattern(1 + margin)
      ones == Ones(IrWidth + margin)
      whole == _dr_scan_cycles(fed)
      Raws(name, sent) == Test(name, sent, <<>>)
      dr_paths ==
        _ir_load(reset_opcode) \o Tms(<<0, 0>>)
          \o _TO_SHIFT_DR \o Paused(fed, Largest(1, Len(fed) \div 4))
          \o Tms(<<0, 1, 1>>)           \* Exit1 -> Pause -> Exit2 -> Update
          \o Tms(<<1, 0, 1, 1, 0>>)     \* -> Select -> Capture -> Exit1 -> Update
          \o whole
      ir_paths ==
        _TO_SHIFT_IR \o Paused(ones, Largest(1, IrWidth \div 2))
          \o Tms(<<0, 1, 1>>) \o Tms(<<1, 0, 0>>)
          \o _shift_cycles(short) \o _EXIT1_TO_IDLE
      ir_capture_update == Tms(<<1, 1, 0, 1, 1, 0>>) \o whole
      select_ir_reset == _ir_load(Tap!bypass_opcode) \o Tms(<<1, 1, 1, 1, 0>>) \o whole
      idcode_hold ==
        _ir_load(Tap!OPCODE_IDCODE) \o _TO_SHIFT_DR
          \o HeldBothWays(Alternating(IdcodeWidth, 1), Alternating(IdcodeWidth, 0), fed)
      bypass_hold ==
        _ir_load(Tap!bypass_opcode) \o _TO_SHIFT_DR \o HeldBothWays(<<1>>, <<0, 0>>, <<1, 1>>)
      ir_hold ==
        _TO_SHIFT_IR \o HeldBothWays(Alternating(IrWidth, 1), Alternating(IrWidth, 0), ones)
      idcode_capture ==
        _ir_load(Tap!OPCODE_IDCODE)
          \o _dr_scan_cycles([i \in 1 .. IdcodeWidth |-> 1 - IdcodeValue[i - 1]]) \o whole
      bypass_capture ==
        _ir_load(Tap!bypass_opcode) \o _dr_scan_cycles(<<1, 1>>) \o _dr_scan_cycles(short)
  IN  << Raws("dr_paths", dr_paths), Raws("ir_paths", ir_paths),
         Raws("ir_capture_update", ir_capture_update),
         Raws("select_ir_reset", select_ir_reset) >>
        \o (IF HasIdcode THEN << Raws("idcode_hold", idcode_hold) >> ELSE <<>>)
        \o << Raws("bypass_hold", bypass_hold), Raws("ir_hold", ir_hold) >>
        \o (IF HasIdcode THEN << Raws("idcode_capture", idcode_capture) >> ELSE <<>>)
        \o << Raws("bypass_capture", bypass_capture) >>

\* One test per opcode nothing implements; their order is of no matter.
_opcode_tests(margin) ==
  LET opcodes == SetToSeq(Unimplemented)
  IN  [n \in DOMAIN opcodes |->
         Test("opcode", <<>>, select_instruction(opcodes[n])
                                \o DrScan(default_sentinel_pattern(1 + margin)))]

_integrity_tests(margin) ==
  LET sentinel_scan(bits) == DrScan(default_sentinel_pattern(bits + margin))
      ir_scan == << Goto("SHIFT_IR"),
                    ShiftBits(default_sentinel_pattern(margin) \o Ones(IrWidth)),
                    Goto("RUN_TEST_IDLE") >>
  IN  << Test("reset_instruction", <<>>, sentinel_scan(reset_dr)),
         Test("instruction_register", <<>>, ir_scan),
         Test("bypass", <<>>, sentinel_scan(1)) >>
        \o _opcode_tests(margin)
        \o (IF HasIdcode
              THEN << Test("idcode", <<>>, select_instruction(Tap!OPCODE_IDCODE)
                                             \o sentinel_scan(IdcodeWidth)) >>
              ELSE <<>>)
        \o _tap_path_tests(margin)
        \o << Test("tms_reset", Tms(<<1, 1, 1, 1, 1, 0>>), sentinel_scan(reset_dr)) >>

----------------------------------------------------------------------------
\* Every test leaves the TAP where the next must find it ("does not start in
\* Run-Test/Idle", _expected_cycles), and after the whole program "every one of
\* the 32 TAP state transitions is taken", each register has been "held in
\* Pause-DR/Pause-IR at 0 and at 1 in every bit" and the two data registers
\* "captured while it holds the complement of its capture value" (tap_integrity.py's
\* docstring).
IntegrityCoversTheTap ==
  Idle /\ block.kind = "test" =>
    /\ state = "RUN_TEST_IDLE"
    /\ block.name = "opcode" => instruction = "BYPASS"
    /\ plan = <<>> =>
         /\ \A s \in Tap!TapState, tms \in Bits : <<"taken", s, tms>> \in visited
         /\ \A bit \in Bits :
              /\ \A k \in 0 .. IrWidth - 1 : <<"held", "IR", k, bit>> \in visited
              /\ HasIdcode =>
                   \A k \in 0 .. IdcodeWidth - 1 : <<"held", "IDCODE", k, bit>> \in visited
              /\ <<"held", "BYPASS", 0, bit>> \in visited
         /\ <<"captured", "BYPASS">> \in visited
         /\ HasIdcode => <<"captured", "IDCODE">> \in visited
=============================================================================
