--------------------------- MODULE IntegrityProbe ---------------------------
(***************************************************************************)
(* The network part of tap_integrity.py's program: over-shift probes       *)
(* (sib_overshift.py) of every slot in turn, then the network holding      *)
(* still.  The expected TDO comes from two SibNetworkRegisters in          *)
(* lockstep, the live instruments capturing all 0s in one and all 1s in    *)
(* the other; a bit on which they agree is a care bit.  The chip is the    *)
(* synthesized cells, whose live instruments capture anything.             *)
(***************************************************************************)
EXTENDS SibCells, TestPatterns

CONSTANTS
  LiveInstruments,  \* the READ instruments whose capture depends on the design
  Margins           \* the margins (sentinel bits past the chain's length) to check

\* _live_instruments refuses an unknown instrument and a WRITE one, which
\* captures its own last write.
ValidLive(live) == live \subseteq Instruments /\ live \cap Writes = {}

ASSUME IntegrityAssumption ==
  /\ ValidLive(LiveInstruments)
  /\ Margins \subseteq Nat \ {0}

AllOnes(u) == Pow2[Width[u]] - 1

\* A seeded fault: the high model's live instruments capture 1, not all 1s.
RecapturedOne(high) ==
  [u \in DOMAIN CaptureValue |->
     IF u \in LiveInstruments THEN (IF high THEN 1 ELSE 0) ELSE CaptureValue[u]]

Recaptured(high) ==
  [u \in DOMAIN CaptureValue |->
     IF u \in LiveInstruments THEN (IF high THEN AllOnes(u) ELSE 0) ELSE CaptureValue[u]]

Low == INSTANCE SibNetwork WITH CaptureValue <- Recaptured(FALSE)
High == INSTANCE SibNetwork WITH CaptureValue <- Recaptured(TRUE)

NoSlot == "no slot"

----------------------------------------------------------------------------
\* _probe_targets: each SIB and each mux arm alone, depth first; then every
\* SIB outside a mux together, if there are two.
Below(t) == {u \in Units : Nested(u) /\ \E i \in DOMAIN Path[u] : Path[u][i] = t}

\* The walk goes through a unit's path to it, and meets there the steps that no
\* earlier unit lies below.
MetAt(u) ==
  [i \in DOMAIN Path[u] |->
     LET t == Path[u][i] IN
     IF \A v \in Below(t) : IndexOf(u) <= IndexOf(v)
       THEN << [s \in {t.slot} |-> t.value] >> ELSE <<>>]

SingleTargets == FlattenSeq([n \in DOMAIN Order |-> FlattenSeq(MetAt(Order[n]))])

SibsOutsideMuxes ==
  {s \in Sibs : \A i \in DOMAIN Path[s] : Path[s][i].slot \in Sibs}

ProbeTargets ==
  SingleTargets \o (IF Cardinality(SibsOutsideMuxes) > 1
                      THEN << [s \in SibsOutsideMuxes |-> 1] >> ELSE <<>>)

\* The last probe opens SIBs alone, so that no mux relays when network_hold scans
\* under another instruction (a condition of IntegrityProbeProofs).
SibsProbedLast == Muxes = {} \/ Cardinality(SibsOutsideMuxes) > 1

Scan(kind, open, tdi) == [kind |-> kind, open |-> open, tdi |-> tdi]

\* A seeded fault: the tail first, the sentinel last.
TailThenSentinel(target, currently_open, margin) ==
  LET rounds == stage_open_sequence(target, currently_open)
      opened == Last(rounds)
  IN  << Scan("probe", opened,
              Reverse(compose_bits(opened, opened, NoSlot, 0))
                \o default_sentinel_pattern(margin)) >>

\* The rounds that open the target, then the probe: the sentinel, followed by
\* the bits that leave the network as it was found.
build_overshift_ops(target, currently_open, margin) ==
  LET rounds == stage_open_sequence(target, currently_open)
      opened == IF rounds = <<>> THEN currently_open ELSE Last(rounds)
      Prior(r) == IF r = 1 THEN currently_open ELSE rounds[r - 1]
      round == [r \in DOMAIN rounds |->
                  Scan("round", Prior(r), Reverse(compose_bits(Prior(r), rounds[r], NoSlot, 0)))]
  IN  Append(round, Scan("probe", opened,
                         default_sentinel_pattern(margin)
                           \o Reverse(compose_bits(opened, opened, NoSlot, 0))))

\* A seeded fault: the scan as long as the chain it leaves, not the one it enters.
CloseAllShort(opened) ==
  IF DOMAIN opened = {} THEN <<>>
  ELSE << Scan("close", opened, Reverse(compose_bits(<<>>, <<>>, NoSlot, 0))) >>

\* _close_all: one scan that closes every slot, content fed 0.
CloseAll(opened) ==
  IF DOMAIN opened = {} THEN <<>>
  ELSE << Scan("close", opened, Reverse(compose_bits(opened, <<>>, NoSlot, 0))) >>

\* _opened: the target and its ancestors, from an all-closed network.
Opened(target) == Last(stage_open_sequence(target, <<>>))

\* _network_hold_tests without an IJTAG_ACCESS opcode: a scan under
\* SAMPLE/PRELOAD, then one under the network's instruction that feeds the
\* pattern, its complement (pausing holds them) and the closing bits.
TopLevel == {u \in Slots : ~Nested(u)}

NetworkHold(opened, margin) ==
  LET length == layout_bit_length(opened)
  IN  << Scan("unselected", opened,
              default_sentinel_pattern(Cardinality(TopLevel) + margin)),
         Scan("hold", opened,
              Alternating(length, 1) \o Alternating(length, 0)
                \o Reverse(compose_bits(opened, <<>>, NoSlot, 0))) >>

----------------------------------------------------------------------------
VARIABLES
  margin,
  targets,  \* probes not yet emitted
  held,     \* network_hold has been emitted
  opened,   \* what the program takes to be open
  scans,    \* scans emitted and not yet played
  low, high, chip,  \* [shift, po] of the two models and of the chip
  played    \* the last scan and its TDO: [scan, low, high, chip]

probeVars == <<margin, targets, held, opened, scans, low, high, chip, played>>

ResetNetwork == [shift |-> Low!ShiftZero, po |-> Low!PoZero]
NothingPlayed ==
  [scan |-> Scan("none", <<>>, <<>>), low |-> <<>>, high |-> <<>>, chip |-> <<>>]

\* After TRST, with network_closed's probe to play first.
ProbeInit ==
  /\ margin \in Margins
  /\ targets = ProbeTargets /\ held = FALSE
  /\ opened = <<>>
  /\ scans = build_overshift_ops(<<>>, <<>>, margin)
  /\ low = ResetNetwork /\ high = ResetNetwork /\ chip = ResetNetwork
  /\ played = NothingPlayed

EmitProbe ==
  /\ scans = <<>> /\ targets # <<>>
  /\ scans' = CloseAll(opened) \o build_overshift_ops(Head(targets), <<>>, margin)
  /\ opened' = Opened(Head(targets))
  /\ targets' = Tail(targets)
  /\ UNCHANGED <<margin, held, low, high, chip, played>>

EmitNetworkHold ==
  /\ scans = <<>> /\ targets = <<>> /\ ~held
  /\ scans' = NetworkHold(opened, margin)
  /\ held' = TRUE /\ opened' = <<>>
  /\ UNCHANGED <<margin, targets, low, high, chip, played>>

\* What the chip captures is not the models' value, bit by bit.
LiveBits == [{c \in Cells : c[1] \in LiveInstruments} -> {0, 1}]

\* A scan of a model that captured `from`.shift; not selected, it stays so.
ModelScanned(from, tdi, selected) ==
  IF selected THEN Shifts(from, tdi)
  ELSE [shift |-> from.shift, out |-> [n \in DOMAIN tdi |-> TailBit(from.shift, from.po)]]

\* A scan of the chip.
ChipScanned(from, tdi) ==
  FoldLeft(LAMBDA acc, bit :
             [shift |-> CellShift(acc.shift, from.po, bit, from.selected),
              out |-> Append(acc.out, ExternalTdo(acc.shift, from.po))],
           [shift |-> from.shift, out |-> << >>], tdi)

\* What a network holds after a scan.
ModelAfter(from, scan, selected) ==
  [shift |-> scan.shift, po |-> IF selected THEN Update(scan.shift, from.po) ELSE from.po]

Play ==
  /\ scans # <<>>
  /\ \E sensed \in LiveBits :
       LET scan == Head(scans)
           selected == scan.kind # "unselected"
           Start(from, captured) == [shift |-> captured, po |-> from.po]
           cells == CellCapture(chip.shift, chip.po, selected)
           l == ModelScanned(Start(low, IF selected THEN Low!Capture(low.shift, low.po)
                                        ELSE Low!CaptureUnselected(low.shift, low.po)),
                             scan.tdi, selected)
           h == ModelScanned(Start(high, IF selected THEN High!Capture(high.shift, high.po)
                                         ELSE High!CaptureUnselected(high.shift, high.po)),
                             scan.tdi, selected)
           c == ChipScanned([shift |-> [b \in Cells |-> IF b[1] \in LiveInstruments
                                                           THEN sensed[b] ELSE cells[b]],
                             po |-> chip.po, selected |-> selected], scan.tdi)
       IN  /\ low' = ModelAfter(low, l, selected)
           /\ high' = ModelAfter(high, h, selected)
           /\ chip' = [shift |-> c.shift, po |-> CellUpdate(c.shift, chip.po, selected)]
           /\ played' = [scan |-> scan, low |-> l.out, high |-> h.out, chip |-> c.out]
  /\ scans' = Tail(scans)
  /\ UNCHANGED <<margin, targets, held, opened>>

ProbeNext == EmitProbe \/ EmitNetworkHold \/ Play

ProbeSpec == ProbeInit /\ [][ProbeNext]_probeVars

----------------------------------------------------------------------------
\* check_integrity: the care cycles that show another TDO than expected.
Failures(expected, other, observed) ==
  {n \in DOMAIN observed : expected[n] = other[n] /\ observed[n] # expected[n]}

\* The program passes on every chip that matches the description: on a care
\* bit, one the two models agree on, a chip whose live instruments capture
\* anything at all shows the same TDO (_expected_cycles, _tick's care).
CareBitsAreSound == Failures(played.low, played.high, played.chip) = {}

\* "a captured value reaches TDO but never a SIB's state" (module docstring):
\* the two models and the chip have committed the same values.
LiveValuesNeverCommit == low.po = high.po /\ chip.po = low.po

\* "the probe leaves the network in the exact target_open state"
\* (build_overshift_ops), and a closing scan leaves nothing open.
NetworkIsAsTracked ==
  scans = <<>> => \A s \in Slots : chip.po[s] = (IF s \in DOMAIN opened THEN opened[s] ELSE 0)

\* What a probe measures: the fed sentinel comes back after exactly as many
\* cycles as the chain is long, unless a matched mux shortens it.
SentinelReturnsOnTime ==
  played.scan.kind = "probe" /\ DOMAIN played.scan.open \subseteq Sibs =>
    \A i \in 1 .. margin :
      played.chip[layout_bit_length(played.scan.open) + i] = default_sentinel_pattern(margin)[i]
=============================================================================
