# warptap in TLA+

warptap inserts an IEEE 1149.1 TAP and an IEEE 1687 (IJTAG) scan network into a
netlist, and lowers accesses to the instruments behind that network (PDL
commands, an integrity test, scan-test patterns) into TAP operations that it
plays on a model, or prints as SVF, STAPL or STIL. Three descriptions of the
same machine have to agree bit for bit: the Python models, the Verilog cells,
and what the lowering code believes the hardware is doing while it sizes the
next scan. This directory models those three and what keeps them together.

## Inventory

| Part (src/src/warptap) | State it keeps | Operations | Modules |
|---|---|---|---|
| `tap_fsm.py`, `tap_model.py` | TAP state, instruction and its shift register, BYPASS, IDCODE | `tick`, `reset` | `TapController`, `TapControllerHistory`, `TapControllerProofs` |
| `rtl/tap_core.v` | the same as flip-flops, an opcode in place of an instruction | a TCK edge, `trst_n` | `TapCore`, proofs in `TapCoreProofs` |
| `icl_model.py`, `sib_layout.py`, `sib_retarget.py` | none: a static graph and arithmetic on it | layout, composed bits, staged opening | `ScanNetwork`, `ScanNetworkProofs` |
| `sib_model.py` | a shift bit per cell, a committed value per slot and WRITE instrument | capture, shift, update, reset | `SibNetwork` |
| `rtl/sib_cell.v`, `scan_mux_cell.v`, `instrument_write.v`, `bc1_shift_only.v`, wired by `sib_insert.py` | the same as flip-flops | the TAP's strobes | `SibCells`, `SibCrossSim`, `SibNetworkProofs` |
| `pdl_interpreter.py` | pending edits and reads, what it believes open and committed, the program | `iTarget`, `iWrite`, `iRead`, `iRunLoop`, `iApply` | `PdlInterpreter`, `InstrumentFile`, `PdlOnNetwork`, `SibNetworkProofs` |
| `rtl/tck_reset_sync.v`, `instrument_write_clr.v`, `bc1_shift_only_sync.v` | reset stages, cell flops, two synchronizing flops per status bit | a TCK edge, a chip reset pulse, TRST | `InstrumentCells`, `TapCoreProofs` |
| `bsr_plan.py`, `bsr_insert.py`, `bsr_model.py`, `rtl/bc1_full.v`, `bc7_bidir.v` | the chain's shift and update flops, twice | capture, shift, update, reset; the design and the board move | `BoundaryScan`, `TapCoreProofs` |
| `tap_ir_play.py`, `pdl_verify.py` | the TAP state it tracks, the cycle index | play, `to_cycles`, correlate, `check_reads` | `TapPlay`, `TapPlayProofs`, `PdlOnNetwork` |
| `tap_integrity.py`, `sib_overshift.py` | two models in lockstep | probes, closing scans, network hold | `IntegrityProbe`, `IntegrityProbeProofs`, `TestPatterns` |
| `tap_integrity.py`, the TAP part | none: a fixed program for each margin | its tests, one after another | `TapIntegrity`, played by `TapPlay` |
| `faultflow_retarget.py`, `faultflow_compression.py`, `faultflow_compaction.py` | a GF(2) elimination; the program | one pattern after another | `SeedSolver`, `FaultflowRetarget`, `FaultflowPlay`, `FaultflowProofs` |
| `tap_ir_stil.py` | the TAP state it tracks, the declared inputs' values | `to_stil` | `StilPattern`, `TapPlayProofs`; a capture pulse's level in `FaultflowPlay` |

They interact by calls and by lists of operations. A retargeter or the
interpreter appends operations to a program and tracks what they will have
done; the program is played later, through `TapModel` with the network plugged
in as a data register, or on the chip, where `tap_core`'s strobes drive every
cell at once. Nothing flows back from the playing to the lowering: every belief
of the lowering code has to be right in advance.

What is hard here:

- a scan is sized from what earlier scans will have opened; one wrong bit
  misaligns every later scan;
- a matched scan mux relays its arm's output past its own select field, so the
  order of reads and writes within one shift matters;
- an update must not reach an instrument on the edge that opens or closes its
  slot;
- instrument cells capture and shift under every instruction, slots only under
  the network's;
- detours (Pause, Exit2, scans with no shift, resets from the middle of a scan);
- accesses whose captured value depends on the design, which a test must
  neither compare nor commit;
- pins that keep the level an earlier operation left on them;
- cells in two reset or clock domains, released and sampled at TCK edges while
  the other side moves at any time;
- boundary cells that every scan shifts and updates, whatever the instruction,
  beside a model that only EXTEST moves.

There is no thread, timeout, retry or persistence in the code. The
interleavings are those of lowering with playing, of pins with state, and of
the design, the board and the chip reset with the TAP.

PROJECT.json lists the hazards at their lines, with the properties aimed at each.

## Modules and order

Each layer uses the ones above it.

1. `TapController`: `TapModel.tick`, one operator per branch, the registers as
   functions from bit index to bit. `TapControllerHistory` adds the number of
   TMS=1 edges in a row and the bits shifted since the last capture, so that
   promises about pin sequences are state predicates.
2. `TapCore`: `tap_core.v`, which implements `TapController` under the mapping
   that decodes its opcode.
3. `ScanNetwork`: the graph as constants (`Order` is the layout order, `Path`
   the slots gating a unit) with `validate_physical_graph`'s checks as the
   assumption, `compose_bits`, `layout_bit_length`, `stage_open_sequence`.
4. `SibNetwork` (the Python register), `SibCells` (the Verilog cells) and
   `SibCrossSim`, which steps both on the same strobes.
5. `PdlInterpreter` (the commands, both phases of `iApply`), `InstrumentFile`
   (what PDL promises: instruments are registers and accesses happen in order)
   and `PdlOnNetwork`, which composes interpreter and network and implements
   `InstrumentFile`.
6. `IntegrityProbe`: the program of probes and closing scans, the two lockstep
   models that decide the compared bits, and the cells as the chip.
7. `TapPlay`: operations played TCK by TCK on `TapModel`, with every clock edge
   the chip gets and the levels of its other pins at that edge. `StilPattern`
   writes the same program as `to_stil` does and runs the vectors as a tester
   would. `TapIntegrity` has the TAP tests of `tap_integrity.py` as programs for
   `TapPlay`, which records the transitions and register contents they reach.
8. `InstrumentCells`: the chip-reset and the synchronizing cells on `TapCore`'s
   strobes. A flop whose input moves around its edge holds a third value and
   settles either way by the next edge.
9. `BoundaryScan`: the plan, the inserted cells and `BoundaryScanRegister`, with
   the pins between the design and the board.
10. `SeedSolver` (one action per column of the elimination),
   `FaultflowRetarget` (a pattern per action) and `FaultflowPlay`, which plays
   the program on a design with a ring generator, chains and a compactor. The
   design is not in the repository: its definitions follow the two module
   docstrings and are marked external in PROJECT.json. `iWrite` and `iRead` are
   single steps there because `PdlOnNetwork` shows that they may be. A chain has
   the one instrument `chain_to_instrument` names for it, and a setup says which
   of them are WRITE: those take what they are sent and read back their own
   latches, the READ ones ignore it and capture the chain (`Latches`, `Observed`).

A component's theorems are in the module named after it with `Proofs`, which
extends it; those of `InstrumentCells` and `BoundaryScan`, the cells on
`tap_core`'s strobes, share `TapCoreProofs`, those of `StilPattern` `TapPlayProofs`, those of `SeedSolver` and the retargeters
`FaultflowProofs`, and those of the network at work, against its cells and under
the interpreter's programs, `SibNetworkProofs`. `InductionLemmas` has what
they all need: induction in first-order form, sequences built by concatenation,
functions defined step by step along a graph, left folds, division and sums.
`BitArithmetic` has the powers of two and the bits of a number.

`MC*` modules and `.cfg` files give the constants. "A seeded fault" marks an
operator that is not a model of the code but a plausible bug in it, used to
confirm that a property notices it.

## Runs

| Run | Shows | Bounds |
|---|---|---|
| `tap` | resets, pauses, short and empty scans do what TAP users rely on | 3-bit instruction register, 2-bit IDCODE, up to 4 bits a scan: one more than any register, so bits fall out at the far end |
| `cells` | the RTL implements `TapModel`, TDO included; on its strobes nothing survives a reset, TRST costs no scan, a status that holds still is captured whole | 3-bit opcodes, a dedicated opcode, 1-bit IDCODE, 2-bit status, no bound on the scans |
| `cross_sim` | register and cells agree on committed state, live cells and TDO | SIB over mux and mux over SIB; 8 shifts, more than the longest path |
| `pdl` | the tracked state is the physical one, scans fit the chain, instruments behave as registers | nested SIBs with an Alias, then a scan mux of two arms; one access ahead of the player. The conditions of the theorems about it are checked on it |
| `integrity` | compared bits are sound, live values are never committed, the network is as tracked, the sentinel returns on time | margins 1, 3, 4, 8; any captured live value. The conditions of the theorems about it are checked on it |
| `tap_play` | a scan is all or nothing, a reset works from any state and commits only what a scan had got to, traces and STIL vectors line up, the TAP's integrity tests cover it | up to three operation groups, scans of 1 and 3 bits, one declared pin, one clock, one pin held by pulses; whole integrity programs for margins 1, 2, 4 |
| `boundary` | model and cells give the same pins and the same scans, EXTEST drives what was loaded, outside it the pins are the design's | four modules of two scanned ports or fewer, which between them have every kind of port beside every other; no bound on the scans |
| `faultflow` | seeds are found exactly when they exist, loads are in place at the capture, a good design passes where a READ instrument sees it, a list that can be retargeted is | two chains (3 and 2 cells), 3-bit seed, every load of both chains with five care sets, lists of two patterns; raw setups in which either chain's instrument is WRITE, or both, and patterns that suit them or do not |
| `bidir_input`, `mux_under_sib`, `arm_zero`, `compacted_capture` | counterexamples, below | |

In `pdl` one access ahead is enough: the interpreter never reads the network, so
what it emits does not depend on how much has been played, and every switch
from one branch to another is still lowered over what the one before left open.
In `tap_play` the instruction register is 3 bits so that it has a middle bit
and four opcodes nothing implements, and the IDCODE 2 bits so that a pattern and
its complement differ in it. Margin 1 is the smallest the code accepts; 4 makes the
fed sentinel longer than the instruction register.

Every value that could grow has a constant that bounds it (`MaxScan`,
`MaxShifts`, `MaxAccesses`, `MaxEdits`, `MaxPending`, `MaxWaits`, `MaxBlocks`);
histories keep no more than a chain's worth of bits, or count to two.
In `integrity`, `tap_play` and `faultflow` the program is finite and the system
stops at its end, so deadlock is not checked there; everywhere else it is.

Only `faultflow` assumes fairness, and it assumes `WF_vars(Next)`: a retargeter
is one sequential call, which takes its next step as long as it has one, and a
tester plays a finite program without stopping. Under it a list of patterns
that can be loaded and observed is retargeted and played to its end
(`RetargetableIsPlayed`), which is what the elimination's choice of pivots and
its test for contradictions could break. The other systems have no step that
must happen: whether and when to scan, and whether a lowered program is
played, is up to the caller.

## Findings

- `compacted_capture`: the compacted retargeter's capture pulse does not list
  `scan_enable`. If `to_stil`'s caller has not declared that pin, it keeps the 1
  of the previous pattern's last shift pulse, and the second pattern's capture
  shifts the chains. With the pin declared (the `faultflow` run) it does not
  happen, nor in the compressed retargeter, which lists it.
- `mux_under_sib`: with a mux behind a SIB, the relay bypasses the select field
  that `compose_bits` provides a bit for, so the SIB closes while
  `_currently_open` says it is open. The same cause reaches the integrity
  program: with a SIB after a mux, the probe of an arm opens the SIB, the next
  closing scan is short, and captured live bits are committed, against
  tap_integrity.py:51-53. `integrity` uses a network in which the mux is last,
  where it does not.
- `arm_zero`: an arm with value 0 is accepted although its slot is matched from
  reset.
- `bidir_input`: after `insert_bsr` the design's readers of an `inout` port stay
  on the port's old bits, which the new pin does not drive. Outside EXTEST,
  with its own driver off, the design no longer sees what the board drives. The
  test's bench drives that pin from the design only.

Also seen, without a run of its own: the raw retargeter cannot both load and observe a chain.
Its docstring (faultflow_retarget.py:33-36) has every chain loaded and then
compared against the capture, but it reaches a chain through one instrument
(lines 147 and 164), and that is READ or WRITE, never both (icl_model.py:31). A
WRITE instrument captures its own latch (instrument_write.v:55), so an observed
chain that it loaded gives back the load, and a good design fails; a READ one
never takes the load. Nothing is raised, and
`test_multiple_patterns_each_get_their_own_pulsepin` retargets such patterns and
counts their pulses. `faultflow` has such lists too, with the first pattern of
that test among them: without its conjunct on READ instruments `ReadsMatch` is
violated, there by an `iRead` that finds the load 001 where the response 100 is
expected. Patterns that load some chains and observe others work, as in
`test_pulsepin_inserted_once_per_pattern_not_per_chain` and the cross-simulation,
and `ReadsMatch` covers them. The compressed and the compacted retargeter use a
chain's instrument on one side only, and a channel on the other.

Further: tap_core.v:15-17 and tap_model.py:313-315 say five
TMS=1 edges deselect a test-mode instruction; from Shift-DR or Shift-IR they only
reach Test-Logic-Reset and the sixth edge reloads the instruction
(`SixOnesDeselect` is the true bound, and `TMS_RESET_LEAD_IN` has that edge).
A TMS reset from Shift-DR goes through Update-DR and commits what is in the
network. `_NetworkTail` (tap_integrity.py:140-154) holds still under another
instruction, where the chip's instrument cells shift and a trailing mux whose arm is open
relays them; `TailHoldsUnlessRelayed` states when it is right. The boundary
cells update under every instruction, so a BYPASS or SAMPLE scan leaves its own
load for EXTEST, where `BoundaryScanRegister` keeps the old one;
`ModelPinsAgree` excludes exactly that. `iApply` records itself in the history
before `open_path_to` may raise. In the PDL text, `to_pdl` looks for an
instrument's width among the top-level SIBs only (pdl_emit.py:96-108), so a
nested instrument's history raises an error its docstring rules out, and the
reader compares a whole dotted target with the last name the history keeps, so
a whole-instrument write to a dotted target is replayed as a field's.

Two more came out of the proofs. A READ instrument gated by a SIB inside a mux's
arm is judged without its captured value: its cells sit behind the relay, the
position `check_reads` slices holds another bit, and its verdict is the same
whatever was captured (`_layout`'s slicing, tests/test_sib_model_scan_mux.py:17-30
says it "breaks down for a wider WRITE arm or a nested one"). `LeafArms`
excludes it. And `CareBitsAreSound` needs the program to end with the mux closed:
on a network whose only slot is a scan mux, the last probe leaves an arm matched,
and the scan of `network_hold` under another instruction shows the arm's cells
shifting on the chip while both models hold still, so that a good chip would
fail. `SibsProbedLast` excludes it.

## Proofs

TLAPS checks these for every value of the constants that satisfies the named
assumptions: every register width, opcode, network, port list, chain geometry
and pattern list, and programs and scans of any length. Where a theorem has a
hypothesis besides, it is named below.

The proofs have three kinds of argument. Where a property relates registers at
one moment, a strengthening of it is inductive and the step is one lemma per
action (`TapControllerProofs`, `TapCoreProofs`, the first half of
`SibNetworkProofs`). Where it is about the end of a finite
program, the invariant says how far the program has got and what holds there
(`TapPlayProofs`, `FaultflowProofs`, `IntegrityProbeProofs`, the second half of
`SibNetworkProofs`).
Where it is about what a definition computes over a sequence, the definition is
unrolled one element at a time.

That last kind needs induction. The library's induction rules take a predicate,
which no installed prover can be given, so `InductionLemmas` states induction
over sets of numbers (`LeastNatural`, from the well-foundedness of inclusion of
finite sets), and derives from it what the models' recursive functions compute:
`FlattenPositions` where a unit's cells are in a concatenation of lists,
`WiresExist` that a loop-free wiring has a solution, `FoldAppend` that a left
fold over one more element is one more step, `WayMore` and `WayTail` how programs that
lead from one state to another are put together and played, and what a sum over a
set and the quotients of a number are. The folds are those of a step
operator declared as a constant of the module, which a module that folds
instantiates with its own; so is what an operation of a program may do.

### The TAP

`TapControllerProofs` assumes `TapAssumption` (widths, IDCODE bit 0 set, a
dedicated opcode different from the fixed ones) and `MaxScanAssumption`. The
inductive invariant is

    IInv == TypeOK /\ ResetDistance /\ SixOnesDeselect /\ IrHoldsScan /\ DrHoldsScan

`TypeOK` alone says nothing of how far the controller is from reset.
`ResetDistance` bounds the TMS=1 edges in a row by the steps that remain
(`OnesToReset`, one less on each edge), which gives `FiveOnes`, and with the
reload on the edge taken in Test-Logic-Reset, `SixOnes`. `IrHoldsScan` and
`DrHoldsScan` equate the registers with the captured pattern shifted by the bits
recorded; their step is `ContentsShifted`: shifting the contents of a scan gives
the contents of the scan with one more bit. The action properties
(`NetworkSelection`, `NullIrScan`) follow from `IInv` and one step.

`TapCoreProofs` proves that `tap_core.v` implements `TapModel`
(`Refinement`). The mapping decodes the latched opcode, so it needs `CoreInv`:
that opcode is always one `tap_core.v` can latch, and the shift register holds a
word. Every branch of the always block then maps to the branch of `tick` with
the same guard.

It then proves the three promises of the opt-in cells, for every status width.
`NothingSurvivesReset` is inductive as it stands: `po` and `shift_ff` load only
each other and what is fed. `TrstCostsNoScan` needs `ReleaseInv`, which ties the
stages still cleared since TRST to how far the TAP can have got
(Test-Logic-Reset, then Run-Test/Idle). `StatusIsCaptured` needs `SyncInv`: the
first flops hold the status once it has been still for an edge, the second
flops once it has for two, and no second flop ever holds the value of a moving
bit.

### The network and its cells

`SibNetworkProofs` proves first that `sib_model.py`'s register and the synthesized
cells agree, for every graph that `validate_physical_graph` accepts and scans of
any length. The two are defined differently: the register shifts through one
flat list of cells, the cells through wires that a slot opens and closes. So the
proof has a static half and a dynamic one.

- Static (`ScanNetworkProofs`, then `SoEquation` to `FillIsBefore`). What a slot
  splices in is a contiguous stretch of the order, just before the slot
  (`Ancestors`, `InsideSlot`, `EarlierSibling`); the layout is the live units'
  cells unit by unit, so that a unit's place is the sum of the widths before it
  (`LayoutPositions`); hence the wire into a unit carries the cell just before it
  in the layout.
- Dynamic. Agreement of the committed values is not inductive: they are
  committed from cells, the cells agree only where the committed values put
  them in the scan path, and under another instruction only the top-level units'
  cells are known to. `CrossInv` has all of it, with TDO and the tail bit.

`ValidPhysicalGraph` gained what the code's own data structure guarantees and the
proofs need: the units' order is a permutation, a unit's path extends its
slot's, and all that a slot splices in comes right before it (the order in which
`_live_layout` walks the tree). `TailAssumption` excludes the network without
units, whose register has no tail.

### The interpreter's programs

The second half of `SibNetworkProofs` is about `PdlOnNetwork`: that once a
program is played what `iApply` believes open and written is what the network
holds (`TrackedOpenHolds`, `TrackedWritesHold`), that every scan is as long as the
chain it meets (`ScansFitTheChain`), and that instruments behave as registers
accessed in program order (`ProgramsActAsRegisters`, the refinement of
`InstrumentFile`).

The beliefs are not inductive. The interpreter runs ahead: between `iApply` and
the playing they are about a network that does not exist yet. `PdlInv` has what is
true meanwhile. A stage is an open set and the values of the WRITE instruments;
every operation left leads from one stage to the next, the first from the
network's stage, the last to the interpreter's (`OnTheWay`), and each payload is
what the edits behind it make of the value before them (`EditsBehind`). Playing
takes the network one stage on and drops the operation (`PlayShiftPdl`), lowering
appends operations that lead to a new last stage (`ApplyPdl`), and with nothing left
the two stages are one (`Arrived`). `PdlInv` quantifies over sequences of any length, so
TLC cannot evaluate it; the three properties it strengthens are what `pdl` checks.

What one scan does is `ScanNetworkProofs`' other half: the layout's length, the
bits `compose_bits` sends (`ComposedScan`), where a whole scan puts each of them, a mux
that relays at the chain's end included (`ScanMoves`), what the update then
commits (`ScanCommits`, `PhaseOneScan`, `PhaseTwoScan`), and that the rounds
of `stage_open_sequence` open the path to an instrument one slot at a time
(`StagedRounds`).

For the refinement, a delivery is `Perform`, an opening round or a wait changes no
instrument (a stutter), and `iApply` is `Submit`. A read is judged by the bits
`check_reads` slices out of the scan, which are the instrument's captured ones
(`ReadCycles`, `Judged`). A field write is a change of some digits of a number
(`NumberInParts`, `MergedField`).

The theorems have hypotheses, which `pdl` evaluates on its own network:
`MuxesLast`, a scan mux is the last unit of the chain; `NoArmZero`, no arm has the
value 0; for the refinement also `LeafArms`, nothing behind a mux is gated by a
SIB. The code refuses none of the excluded networks, and what goes wrong without
each is under Findings (`mux_under_sib`, `arm_zero`, and the READ instrument
inside an arm).

### The integrity program

`IntegrityProbeProofs` proves the four properties of `integrity` for every network,
choice of live instruments and margin. The program is a loop like the
interpreter's: what it takes to be open is about a network its scans have yet to
produce. `ProbeInv` says that the scans not yet played take what the chip carries
to that (`Through`), that the two models and the chip have committed the same, and
that no slot is open behind a closed one (`Rooted`), so that `_close_all` can close
all of them in one scan. It gives `NetworkIsAsTracked`, `LiveValuesNeverCommit` and
`SentinelReturnsOnTime`. A probe is longer than the chain: only its last bits are
in the chain at the update (`RunLoads`), and TDO shows what the chain held and then
the bits fed (`Shows`), from one place before the select field if the mux relays. So
a bit of TDO is the same captured cell in both models and in the chip, and where the
models agree it did not come from a live instrument (`SameCellShown`).

That every target can be opened is `ProbedAims`: one step of a path, or every SIB
outside a mux, requires no slot at two values, and the slots required at one depth are
in the scan path that the rounds before leave (`DownLive`).

`CareBitsAreSound` needs more, for the scan under SAMPLE/PRELOAD: the three must hold
the same bit in the cell at TDO and no mux may relay (`CareInv`). The theorems have
`MuxesLast` and `NoArmZero` as hypotheses, and a network with a unit; this one also
`SibsProbedLast`: there is no mux, or at least two SIBs lie outside one, so that the last
target opens SIBs only. `MCIntegrity` checks all four on its network.
`SentinelReturnsOnTime` speaks of probes that leave SIBs alone open, as a matched mux
takes its field out of what TDO shows.

### Playing

`TapPlayProofs` is about every sequence of operation groups (scan, load, wait,
pins, reset, unsettled reset) on any TAP and any network. `ProgramInv` gives each
group an outline: what it has still to send, the state of the TAP there, and
what has been captured, shifted, shown and committed since it started
(`Scanning`, `Loading`, `Resetting`). It is needed because the promises are about a
group's end, and hold there only since every cycle on the way did one known
thing; and because a group relies on the one before to end in a state it can
start from (`BetweenGroups`). A scan's bits so far are those of a fold, extended one
bit a cycle (`ScanBits`). `Resetting` starts in any state, and counts the
distance to Test-Logic-Reset; the one commit on the way is taken in Update-DR.
`ScanAtomicity`, `LoadSelection`, `NoLeadIn`, `ResetCommits` and `RaisesOnMisuse`
follow.

`TraceCorrelation` has an invariant of its own, `TraceInv`, and covers the
whole test programs too: the cycles sent are those `to_cycles` computes for the
operations started, short of what the last one has left, the state
`to_cycles` tracks is the TAP's, and every scan's bits are where
`shift_op_ranges` puts them in the trace. `to_cycles` starts from Run-Test/Idle
whatever the TAP is in. Where that is wrong, the program leads in with a reset,
whose five cycles are the same from everywhere and track to the same state
(`FiveOnesTrack`).

`StilPlaysTheProgram` is about `to_stil`'s text as a tester runs it. Its
invariant, `StilInv`, walks the log as `_walk_cycles` does, and says that a tester
running the vectors so far gives the edges applied and those the operation under
way has still to come, and holds every pin where the program has it (`Sends`). One
lemma for each kind of operation extends it (`CyclesRendered`, `WaitRendered`,
`PulseRendered`, `PinsRendered`). Three facts carry them: three cycles of waiting
settle the TAP in any state, so `settle` may stop counting there (`WaitsSettle`);
running a vector `n` times is running it once and then `n - 1` times, so the opening
loop may be split (`LoopOpened`); and a vector's levels, a pulse's `hold_pins` over the
snapshot over what the pins had, are the program's (`TckVector`, `PulseVector`).

`PlayAssumption` describes the TAPs `TapModel` accepts and the operations
`tap_ir.py` can build. It leaves the content of whole test programs open, so
`RaisesOnMisuse` is restricted to groups; that the integrity programs never
raise stays with TLC.

### Boundary scan

The second half of `TapCoreProofs` holds for every port list. `PlanIsPaired` is an induction over
the ports: every driver has its control cell just before it. `BoundaryInv` adds
to the properties that, while a scan is under way, the shift register ends in
what has been fed, that the last full load is what the update latches hold, and
that the model's latches are the chip's unless another instruction's update
came between. `BoundaryAssumption` says the ports have one of three directions and
that EXTEST is an instruction.

### Retargeting

`FaultflowProofs` first shows that the elimination decides every system. `SolverInv`
is the echelon form as far as the search has got: a pivot column occurs in its
own row only, the other rows have nothing behind the search, and every row
operation keeps the solutions (`SwapKeepsSolutions`, `ClearKeepsSolutions`).
`CallInv` ties it to the pattern being solved. Separately, the ring generator's
state is linear in the seed (`StagesAreLinear`, by induction over cycles), so a
solution of the equations is a seed that loads the pattern (`SolutionsLoad`):
together, `EliminationKeepsSolutions` and `RefusedOnlyWhenImpossible`.

It then shows that a retargeted program works on the design it is for. The
invariant `PlayInv` is a proof outline: every operation left has an assertion
about the chains (which loads are in place, or how many shifts ago which pattern
was captured), each operation takes one assertion to the next (`AfterWrite` to
`AfterStep`), and the first one holds now. The outline of a pattern is put together from those
of its loops, for any number of chains and any compactor (`RunsThen`, `RunsLoop`, `RawRuns`,
`CompactedRuns`, `CompressedRuns`). `LoadsAreInPlace` follows. Its property is about a
pattern whose load reaches the design: through the ring generator, or with every
chain it loads on a WRITE instrument (`Driven`). The other patterns of the list
may be any. `SoundDesignsPass` is about the same patterns and about reads through
READ instruments and the compactor's channel; of a WRITE one it would be false
(see Findings). `SoundDesignsPass` and `CapturesAreFunctional`
also have a hypothesis: every compacted setup declares `scan_enable`. Without it
both fail, as the `compacted_capture` run shows. `ScanAssumption` and `PatternsAssumption` type the chains, the compactor, the setups
and the pattern lists.

### Only model-checked

- `IntegrityCoversTheTap`: what one finite program for each margin reaches, with
  nothing left to generalise but the margin.
- `RetargetableIsPlayed`, for it is a liveness property under fairness, which
  this prover does not reach; nor does it `ENABLED`.

## Not modelled

- The STAPL CRC against its polynomial and `diagnose_overshift`, which reads a
  device's answer without changing any state.
- The PDL history and its text: a list of statements printed and read back.
- The rest of `tap_integrity.py`: the EXTEST scan that `network_hold` adds under
  a dedicated opcode, and the JSON form. Its write/readback goes through the
  interpreter.
- The netlist surgery of `sib_insert.py` and `sib_plan.py` (its result is
  modelled), ICL, PDL and BSDL reading and printing, the command line and the
  wrappers of external tools: parsing, printing and process calls.
