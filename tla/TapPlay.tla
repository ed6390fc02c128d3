------------------------------- MODULE TapPlay -------------------------------
(***************************************************************************)
(* tap_ir_play.py: a program of operations played TCK by TCK through       *)
(* TapModel, with the network registered under its instruction.  `play`    *)
(* reads the model's state; `to_cycles` and `shift_op_ranges`, which build *)
(* the stimulus of a real device and line its TDO up again                 *)
(* (pdl_verify.py), only track what the state ought to be.  The device     *)
(* also takes the two operations only to_stil renders, SetPins and         *)
(* PulsePin (StilPattern).                                                 *)
(***************************************************************************)
EXTENDS SibNetwork

CONSTANTS
  IrWidth, IdcodeWidth, IdcodeValue, HasIdcode, IjtagAccessOpcode, NoOpcode,
  DataRegisters,
  ScanLengths,  \* the lengths of the DR scans a program may hold
  Inputs,       \* to_stil's declared inputs, each with the value it holds
  OtherPins,    \* pins driven by a PulsePin alone
  PinOps,       \* the SetPins and PulsePin operations a program may hold
  MaxBlocks,    \* bound on the operation groups of a program
  Plans         \* whole programs: sequences of tests

VARIABLES
  state, irShift, instruction, bypassBit, idcodeShift, tdo,  \* TapModel
  shift, po,   \* SibNetworkRegister
  ops,         \* operations emitted and not yet started
  cycles,      \* <<tms, tdi>> of the operation being played, still to send
  raised,      \* play raised
  log,         \* operations started
  observed,    \* play's result: per shift operation, its TDO bits
  trace,       \* TDO of every cycle
  block,       \* history: the group being played and
  before,      \* what the TAP and the network held when it started
  blocks,      \* groups emitted
  pins,        \* the level of every pin but the TAP's own
  applied,     \* history: every clock edge the chip was given
  plan,        \* the tests of a whole program still to play
  visited      \* history: what its edges have found in the TAP

tapVars == <<state, irShift, instruction, bypassBit, idcodeShift, tdo>>
vars == <<tapVars, shift, po, ops, cycles, raised, log, observed, trace,
          block, before, blocks, pins, applied, plan, visited>>

Tap == INSTANCE TapController

\* The tests of the whole programs.
Tests == UNION {ToSet(program) : program \in Plans}

\* A TAP TapModel accepts with no register plugged in but the network, scans of
\* at least a bit, and programs of tests that go to the four states
\* navigation_tms knows.  The pins are not the TAP's own, a SetPins drives
\* declared inputs, a PulsePin holds pins the pattern has (to_stil raises
\* otherwise).
ASSUME PlayAssumption ==
  /\ IrWidth \in Nat /\ IrWidth >= 2
  /\ IdcodeWidth \in Nat \ {0} /\ Tap!ValidIdcode(IdcodeValue)
  /\ HasIdcode \in BOOLEAN
  /\ NoOpcode \notin Tap!Register(IrWidth)
  /\ IjtagAccessOpcode = NoOpcode \/ Tap!ValidAccessOpcode(IjtagAccessOpcode)
  /\ DataRegisters \subseteq {"BYPASS", "IDCODE", Tap!network_access_instruction}
  /\ "BYPASS" \in DataRegisters /\ (HasIdcode => "IDCODE" \in DataRegisters)
  /\ ScanLengths \subseteq Nat \ {0}
  /\ Inputs \in [DOMAIN Inputs -> Bits] /\ "tck" \notin DOMAIN Inputs \cup OtherPins
  /\ \A op \in PinOps :
       /\ op.kind \in {"pins", "pulse"}
       /\ op.kind = "pins" => DOMAIN op.values \subseteq DOMAIN Inputs
       /\ op.kind = "pulse" =>
            op.count \in Nat /\ DOMAIN op.hold \subseteq DOMAIN Inputs \cup OtherPins
  /\ Plans \subseteq Seq(Tests)
  /\ \A test \in Tests :
       /\ test.kind = "test" /\ test.ops \in Seq(ToSet(test.ops))
       /\ \A op \in ToSet(test.ops) :
            /\ op.kind \in {"goto", "shift", "raw", "pins", "pulse", "runtest"}
            /\ op.kind = "goto" =>
                 op.state \in {"TEST_LOGIC_RESET", "RUN_TEST_IDLE", "SHIFT_DR", "SHIFT_IR"}
            /\ op.kind \in {"shift", "runtest"} => op.tdi \in Seq(Bits)
            /\ op.kind = "shift" => op.tdi # <<>>

----------------------------------------------------------------------------
\* Operations, and the groups callers emit them in.
Goto(target) == [kind |-> "goto", state |-> target, tdi |-> <<>>]
ShiftBits(tdi) == [kind |-> "shift", state |-> "none", tdi |-> tdi]
SetPins(values) == [kind |-> "pins", state |-> "none", tdi |-> <<>>, values |-> values]
PulsePin(port, count, hold) ==
  [kind |-> "pulse", state |-> "none", tdi |-> <<>>, port |-> port, count |-> count,
   hold |-> hold]
Raw(sent) == [kind |-> "raw", state |-> "none", tdi |-> <<>>, sent |-> sent]
Runtest(count) == [kind |-> "runtest", state |-> "none", tdi |-> [i \in 1 .. count |-> 0]]

select_instruction(opcode) ==
  << Goto("SHIFT_IR"), ShiftBits([i \in 1 .. IrWidth |-> opcode[i - 1]]),
     Goto("RUN_TEST_IDLE") >>

DrScan(tdi) == << Goto("SHIFT_DR"), ShiftBits(tdi), Goto("RUN_TEST_IDLE") >>
TmsReset == << Goto("TEST_LOGIC_RESET"), Goto("RUN_TEST_IDLE") >>
UnsettledReset == << Goto("TEST_LOGIC_RESET") >>

Blocks ==
  {[kind |-> "select", ops |-> select_instruction(o)] : o \in Tap!Register(IrWidth)}
    \cup {[kind |-> "scan", ops |-> DrScan(t)] : t \in UNION {[1 .. n -> Bits] : n \in ScanLengths}}
    \cup {[kind |-> "pins", ops |-> << op >>] : op \in PinOps}
    \cup {[kind |-> "wait", ops |-> << Runtest(4) >>],
          [kind |-> "reset", ops |-> TmsReset],
          [kind |-> "unsettled", ops |-> UnsettledReset]}

\* navigation_tms, and where it raises instead.
NavigationRaises(from, target) ==
  \/ target \in {"SHIFT_DR", "SHIFT_IR"} /\ from # "RUN_TEST_IDLE"
  \/ /\ target = "RUN_TEST_IDLE"
     /\ from \notin {"RUN_TEST_IDLE", "TEST_LOGIC_RESET", "EXIT1_DR", "EXIT1_IR"}

\* A seeded fault: four cycles to reset.
ResetInFour(from, target) ==
  CASE target = "TEST_LOGIC_RESET" -> <<1, 1, 1, 1>>
    [] target = "SHIFT_DR" -> <<1, 0, 0>>
    [] target = "SHIFT_IR" -> <<1, 1, 0, 0>>
    [] target = "RUN_TEST_IDLE" /\ from = "TEST_LOGIC_RESET" -> <<0>>
    [] target = "RUN_TEST_IDLE" /\ from \in {"EXIT1_DR", "EXIT1_IR"} -> <<1, 0>>
    [] OTHER -> <<>>

\* A seeded fault: the walk to Shift-DR spends a cycle there.
DrOvershoots(from, target) ==
  CASE target = "TEST_LOGIC_RESET" -> <<1, 1, 1, 1, 1>>
    [] target = "SHIFT_DR" -> <<1, 0, 0, 0>>
    [] target = "SHIFT_IR" -> <<1, 1, 0, 0>>
    [] target = "RUN_TEST_IDLE" /\ from = "TEST_LOGIC_RESET" -> <<0>>
    [] target = "RUN_TEST_IDLE" /\ from \in {"EXIT1_DR", "EXIT1_IR"} -> <<1, 0>>
    [] OTHER -> <<>>

navigation_tms(from, target) ==
  CASE target = "TEST_LOGIC_RESET" -> <<1, 1, 1, 1, 1>>
    [] target = "SHIFT_DR" -> <<1, 0, 0>>
    [] target = "SHIFT_IR" -> <<1, 1, 0, 0>>
    [] target = "RUN_TEST_IDLE" /\ from = "TEST_LOGIC_RESET" -> <<0>>
    [] target = "RUN_TEST_IDLE" /\ from \in {"EXIT1_DR", "EXIT1_IR"} -> <<1, 0>>
    [] OTHER -> <<>>

\* A seeded fault: the last bit leaves the exit to a later cycle.
ExitAfterLast(bits) == [i \in 1 .. bits |-> 0]

\* The last bit rides the edge that leaves the shift state.
shift_tms(bits) == [i \in 1 .. bits |-> IF i = bits THEN 1 ELSE 0]

CyclesOf(op, from) ==
  CASE op.kind = "goto" ->
         LET tms == navigation_tms(from, op.state) IN [i \in DOMAIN tms |-> <<tms[i], 0>>]
    [] op.kind = "shift" ->
         LET tms == shift_tms(Len(op.tdi)) IN [i \in DOMAIN tms |-> <<tms[i], op.tdi[i]>>]
    [] op.kind = "raw" -> op.sent
    [] op.kind \in {"pins", "pulse"} -> <<>>
    [] op.kind = "runtest" -> [i \in DOMAIN op.tdi |-> <<0, 0>>]

\* The state after sending cycles, by next_state alone.
Tracked(from, sent) == FoldLeft(LAMBDA s, c : Tap!next_state(s, c[1]), from, sent)

to_cycles(operations) ==
  FoldLeft(LAMBDA acc, op :
             LET sent == CyclesOf(op, acc.state) IN
             [state |-> Tracked(acc.state, sent), sent |-> acc.sent \o sent],
           [state |-> "RUN_TEST_IDLE", sent |-> <<>>], operations).sent

\* A seeded fault: a Runtest's cycles are not counted.
RangesSkippingRuntest(operations) ==
  FoldLeft(LAMBDA acc, op :
             LET sent == CyclesOf(op, acc.state) IN
             [state |-> Tracked(acc.state, sent),
              index |-> acc.index + (IF op.kind = "runtest" THEN 0 ELSE Len(sent)),
              ranges |-> IF op.kind = "shift"
                           THEN Append(acc.ranges, <<acc.index, Len(op.tdi)>>)
                           ELSE acc.ranges],
           [state |-> "RUN_TEST_IDLE", index |-> 0, ranges |-> <<>>], operations).ranges

\* <<index of its first cycle, bits>> of every shift operation.
shift_op_ranges(operations) ==
  FoldLeft(LAMBDA acc, op :
             LET sent == CyclesOf(op, acc.state) IN
             [state |-> Tracked(acc.state, sent),
              index |-> acc.index + Len(sent),
              ranges |-> IF op.kind = "shift"
                           THEN Append(acc.ranges, <<acc.index, Len(op.tdi)>>)
                           ELSE acc.ranges],
           [state |-> "RUN_TEST_IDLE", index |-> 0, ranges |-> <<>>], operations).ranges

correlate_observed(operations, tdo_by_cycle) ==
  LET ranges == shift_op_ranges(operations)
  IN  [n \in DOMAIN ranges |->
         SubSeq(tdo_by_cycle, ranges[n][1] + 1, ranges[n][1] + ranges[n][2])]

----------------------------------------------------------------------------
Undriven == 2  \* nothing has driven the pin yet

\* f where it is defined, g elsewhere (f @@ g, which the provers do not know).
Over(f, g) ==
  [x \in DOMAIN f \cup DOMAIN g |-> IF x \in DOMAIN f THEN f[x] ELSE g[x]]

NoBlock == [kind |-> "none", ops |-> <<>>]
Held == [state |-> state, shift |-> shift, po |-> po, instruction |-> instruction,
             bypassBit |-> bypassBit, idcodeShift |-> idcodeShift]

\* Either a reset and settled TAP, or, when the program starts with a TMS
\* reset, a TAP and a network in any state.
Init ==
  /\ \/ /\ state = "RUN_TEST_IDLE"
        /\ irShift = [k \in 0 .. IrWidth - 1 |-> 0]
        /\ instruction = Tap!reset_instruction
        /\ shift = ShiftZero /\ po = PoZero
        /\ block = NoBlock /\ ops = <<>>
     \/ /\ state \in Tap!TapState
        /\ irShift \in Tap!Register(IrWidth)
        /\ instruction \in DataRegisters
        /\ shift \in {ShiftZero, [c \in Cells |-> 1]}
        /\ po \in [Latched -> Bits]
        /\ block = [kind |-> "reset", ops |-> TmsReset] /\ ops = TmsReset
  /\ bypassBit = 0
  /\ idcodeShift = [k \in 0 .. IdcodeWidth - 1 |-> 0]
  /\ tdo = 0
  /\ cycles = <<>> /\ raised = FALSE
  /\ log = <<>> /\ observed = <<>> /\ trace = <<>>
  /\ before = Held
  /\ blocks = IF block = NoBlock THEN 0 ELSE 1
  /\ pins = Over(Inputs, [p \in OtherPins |-> Undriven])
  /\ applied = <<>> /\ visited = {}
  /\ plan \in (IF block = NoBlock THEN {<<>>} \cup Plans ELSE {<<>>})

Idle == ops = <<>> /\ cycles = <<>> /\ ~raised

Emit(b) ==
  /\ Idle /\ blocks < MaxBlocks /\ plan = <<>> /\ block.kind # "test"
  /\ ops' = b.ops /\ block' = b /\ before' = Held /\ blocks' = blocks + 1
  /\ UNCHANGED <<tapVars, shift, po, cycles, raised, log, observed, trace,
                 pins, applied, plan, visited>>

EmitTest ==
  /\ Idle /\ plan # <<>>
  /\ ops' = Head(plan).ops /\ block' = Head(plan) /\ before' = Held
  /\ plan' = Tail(plan)
  /\ UNCHANGED <<tapVars, shift, po, cycles, raised, log, observed, trace,
                 blocks, pins, applied, visited>>

\* One rising edge of clock; bit is the place in the scan of the TDO bit being
\* shifted out, 0 when none is.
Edge(clock, tms, tdi, bit, levels) ==
  [clock |-> clock, tms |-> tms, tdi |-> tdi, bit |-> bit, levels |-> levels]

\* A PulsePin's pulses, one by one, TCK at rest.
Pulses(op) ==
  LET levels == Over(op.hold, pins)
  IN  [i \in 1 .. op.count |->
         Edge(op.port, 0, 0, 0, [p \in DOMAIN pins \ {op.port} |-> levels[p]])]

\* A SetPins lasts; a PulsePin gives a declared input back its level, and leaves
\* any other pin where the last pulse put it.
PinsAfter(op) ==
  CASE op.kind = "pins" -> Over(op.values, pins)
    [] op.kind = "pulse" /\ op.count > 0 ->
         [p \in DOMAIN pins |->
            IF p \in DOMAIN Inputs THEN pins[p]
            ELSE IF p = op.port THEN 0 ELSE Over(op.hold, pins)[p]]
    [] OTHER -> pins

StartOp ==
  /\ cycles = <<>> /\ ops # <<>> /\ ~raised
  /\ LET op == Head(ops) IN
     IF op.kind = "goto" /\ NavigationRaises(state, op.state)
     THEN /\ raised' = TRUE
          /\ UNCHANGED <<ops, cycles, log, observed, pins, applied>>
     ELSE /\ cycles' = CyclesOf(op, state)
          /\ ops' = Tail(ops)
          /\ log' = Append(log, op)
          /\ observed' = IF op.kind = "shift" THEN Append(observed, <<>>) ELSE observed
          /\ pins' = PinsAfter(op)
          /\ applied' = IF op.kind = "pulse" THEN applied \o Pulses(op) ELSE applied
          /\ UNCHANGED raised
  /\ UNCHANGED <<tapVars, shift, po, trace, block, before, blocks, plan, visited>>

NetworkSelected == instruction = Tap!network_access_instruction

\* A seeded fault: the network updates under any instruction.
TickUpdatesAlways(tdi) ==
  /\ shift' = CASE NetworkSelected /\ state = "CAPTURE_DR" -> Capture(shift, po)
                [] NetworkSelected /\ state = "SHIFT_DR" -> Shift(shift, po, tdi)
                [] OTHER -> shift
  /\ po' = IF state = "UPDATE_DR" THEN Update(shift, po) ELSE po

\* What one TCK does to the network, its register being the active one or not.
NetworkTick(tdi) ==
  /\ shift' = CASE NetworkSelected /\ state = "CAPTURE_DR" -> Capture(shift, po)
                [] NetworkSelected /\ state = "SHIFT_DR" -> Shift(shift, po, tdi)
                [] OTHER -> shift
  /\ po' = IF NetworkSelected /\ state = "UPDATE_DR" THEN Update(shift, po) ELSE po

\* What an edge with this TMS finds: the transition it takes, the bits a
\* register holds through a pause, a register that captures over the complement
\* of what it captures.
Found(tms) ==
  {<<"taken", state, tms>>}
    \cup (IF state = "PAUSE_IR" THEN {<<"held", "IR", k, irShift[k]>> : k \in DOMAIN irShift} ELSE {})
    \cup (IF state = "PAUSE_DR" /\ instruction = "IDCODE"
            THEN {<<"held", "IDCODE", k, idcodeShift[k]>> : k \in DOMAIN idcodeShift} ELSE {})
    \cup (IF state = "PAUSE_DR" /\ instruction = "BYPASS"
            THEN {<<"held", "BYPASS", 0, bypassBit>>} ELSE {})
    \cup (IF state = "CAPTURE_DR" /\ instruction = "IDCODE"
               /\ \A k \in DOMAIN idcodeShift : idcodeShift[k] # IdcodeValue[k]
            THEN {<<"captured", "IDCODE">>} ELSE {})
    \cup (IF state = "CAPTURE_DR" /\ instruction = "BYPASS" /\ bypassBit = 1
            THEN {<<"captured", "BYPASS">>} ELSE {})

PlayTick ==
  /\ cycles # <<>> /\ ~raised
  /\ LET tms == Head(cycles)[1]
         tdi == Head(cycles)[2]
     IN  /\ Tap!Tick(tms, tdi, TailBit(shift, po))
         /\ NetworkTick(tdi)
  /\ cycles' = Tail(cycles)
  /\ trace' = Append(trace, tdo')
  /\ observed' = IF log[Len(log)].kind = "shift"
                   THEN [observed EXCEPT ![Len(observed)] = Append(@, tdo')]
                   ELSE observed
  /\ applied' = Append(applied, Edge("tck", Head(cycles)[1], Head(cycles)[2],
                    IF log[Len(log)].kind = "shift" THEN Len(Last(observed)) + 1 ELSE 0, pins))
  /\ visited' = IF block.kind = "test" THEN visited \cup Found(Head(cycles)[1]) ELSE visited
  /\ UNCHANGED <<ops, raised, log, block, before, blocks, pins, plan>>

\* tick raises: no register is registered for the instruction.
PlayTickRaises ==
  /\ cycles # <<>> /\ ~raised /\ Tap!NoActiveDr
  /\ raised' = TRUE
  /\ UNCHANGED <<tapVars, shift, po, ops, cycles, log, observed, trace,
                 block, before, blocks, pins, applied, plan, visited>>

Next == (\E b \in Blocks : Emit(b)) \/ EmitTest \/ StartOp \/ PlayTick \/ PlayTickRaises

Spec == Init /\ [][Next]_vars

----------------------------------------------------------------------------
\* What one DR scan of the bits tdi amounts to: a capture, a shift per bit and
\* an update of whatever register the instruction selects, and nothing else.
NetworkScan(from, tdi) ==
  FoldLeft(LAMBDA acc, bit :
             [shift |-> Shift(acc.shift, from.po, bit),
              out |-> Append(acc.out, TailBit(acc.shift, from.po))],
           [shift |-> Capture(from.shift, from.po), out |-> <<>>], tdi)

BuiltInScan(from, tdi) ==
  LET captured == IF from.instruction = "IDCODE" THEN [i \in 1 .. IdcodeWidth |-> IdcodeValue[i - 1]]
                                                 ELSE <<0>>
  IN  SubSeq(captured \o tdi, 1, Len(tdi))

\* A scan played TCK by TCK, navigation and exit included, is that scan: as
\* many shifts as bits, one capture, one update (play; it is what lets
\* PdlOnNetwork take a scan in one step).
ScanIsAtomic ==
  Idle /\ block.kind = "scan" =>
    LET tdi == block.ops[2].tdi
        scan == NetworkScan(before, tdi)
        selected == before.instruction = Tap!network_access_instruction
    IN  /\ Last(observed) = IF selected THEN scan.out ELSE BuiltInScan(before, tdi)
        /\ po = IF selected THEN Update(scan.shift, before.po) ELSE before.po
        /\ shift = IF selected THEN scan.shift ELSE before.shift
        /\ instruction = before.instruction

\* select_instruction loads exactly the instruction of its opcode, shows the
\* capture pattern and moves nothing in the network.
LoadSelects ==
  Idle /\ block.kind = "select" =>
    LET tdi == block.ops[2].tdi IN
    /\ instruction = Tap!decode_instruction([k \in 0 .. IrWidth - 1 |-> tdi[k + 1]])
    /\ Last(observed) = [i \in 1 .. IrWidth |-> Tap!CAPTURE_IR_PATTERN[i - 1]]
    /\ shift = before.shift /\ po = before.po

\* A program that starts with GotoState(TEST_LOGIC_RESET) and settles needs to
\* know nothing of the TAP it finds: it ends in Run-Test/Idle with every
\* test-mode instruction deselected ("so ops that start with those two need no
\* lead-in", tap_ir_play's docstring).
ResetNeedsNoLeadIn ==
  block.kind = "reset" =>
    /\ ~raised
    /\ Idle => (state = "RUN_TEST_IDLE" /\ instruction = Tap!reset_instruction)

InDrScan == {"CAPTURE_DR", "SHIFT_DR", "EXIT1_DR", "PAUSE_DR", "EXIT2_DR", "UPDATE_DR"}

\* What a DR scan found under way and left by TMS=1 has in the network.
Abandoned(from) ==
  CASE from.state = "CAPTURE_DR" -> Capture(from.shift, from.po)
    [] from.state = "SHIFT_DR" -> Shift(from.shift, from.po, 0)
    [] OTHER -> from.shift

\* A TMS reset is no network reset: it commits nothing of its own, but out of a
\* DR scan of the network it goes through Update-DR, once, and commits what the
\* scan had got to (_RESET_TMS; to_stil's "not the SIB network, which only TRST
\* resets").
ResetCommitsOnlyAScan ==
  Idle /\ block.kind = "reset" =>
    po = IF before.state \in InDrScan /\ before.instruction = Tap!network_access_instruction
           THEN Update(Abandoned(before), before.po)
           ELSE before.po

\* play raises only where the caller broke its contract, an instruction with no
\* register or a reset left unsettled: a scan or a load never ends in a state
\* the next operation cannot leave (navigation_tms, shift_tms), and a whole
\* program never raises.
RaisesOnlyOnMisuse ==
  raised =>
    /\ block.kind # "test"
    /\ Tap!NoActiveDr \/ (state = "TEST_LOGIC_RESET" /\ cycles = <<>>)

\* to_cycles, which sees no model, builds exactly the cycles `play` would send
\* from wherever the TAP has got to, and a device's raw TDO trace, cut up by
\* shift_op_ranges, is what play observed (neither takes a SetPins or a PulsePin;
\* a whole program's raw cycles are not operations).
TraceCorrelates ==
  cycles = <<>> /\ (\A n \in DOMAIN log : log[n].kind \notin {"pins", "pulse", "raw"}) =>
    /\ to_cycles(log) = [n \in DOMAIN applied |-> <<applied[n].tms, applied[n].tdi>>]
    /\ correlate_observed(log, trace) = observed
=============================================================================
