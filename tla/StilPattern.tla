----------------------------- MODULE StilPattern -----------------------------
(***************************************************************************)
(* tap_ir_stil.py: to_stil writes a program as STIL vectors, walking the   *)
(* operations with a state of its own, and a tester runs the vectors.      *)
(* Names, periods, expected values and the order of the blocks are left    *)
(* out; a vector's levels are there when its clock rises.                  *)
(***************************************************************************)
EXTENDS TapPlay

\* One record per vector or run of equal vectors.
JtagCycle(tms, tdi, bit, static, repeat) ==
  [table |-> "tck", tms |-> tms, tdi |-> tdi, bit |-> bit, hold |-> <<>>,
   static |-> static, repeat |-> repeat]
PulseCycle(op, static) ==
  [table |-> op.port, tms |-> 0, tdi |-> 0, bit |-> 0, hold |-> op.hold,
   static |-> static, repeat |-> op.count]

\* settle: the state after count cycles of TMS=0, which it counts up to three.
Settled(from, count) ==
  FoldLeft(LAMBDA s, i : Tap!next_state(s, 0), from, [i \in 1 .. Min({count, 3}) |-> i])

\* A seeded fault: the snapshot is taken once.
SnapshotStale(static, values) == static

\* The values the vectors after a SetPins hold.
Snapshot(static, values) == Over(values, static)

\* What the walk has got to: the state it tracks, the declared inputs' values and
\* the vectors.  An operation repeated no times adds none.
WalkStart == [state |-> "RUN_TEST_IDLE", static |-> Inputs, out |-> <<>>]
WalkOp(acc, op) ==
  LET sent == CyclesOf(op, acc.state) IN
  CASE op.kind = "runtest" /\ sent # <<>> ->
         [acc EXCEPT !.out = Append(@, JtagCycle(0, 0, 0, acc.static, Len(sent))),
                     !.state = Settled(@, Len(sent))]
    [] op.kind = "pulse" /\ op.count > 0 ->
         [acc EXCEPT !.out = Append(@, PulseCycle(op, acc.static))]
    [] op.kind = "pins" -> [acc EXCEPT !.static = Snapshot(@, op.values)]
    [] OTHER ->
         [acc EXCEPT !.out = @ \o [i \in DOMAIN sent |->
                        JtagCycle(sent[i][1], sent[i][2],
                                  IF op.kind = "shift" THEN i ELSE 0, acc.static, 1)],
                     !.state = Tracked(@, sent)]

_walk_cycles(program) == FoldLeft(WalkOp, WalkStart, program).out

\* The statements: a vector, or a vector in a Loop; a run that opens the
\* pattern gives its first vector a statement of its own.
Statement(cycle, times) == [cycle |-> cycle, times |-> times]
StatementsOf(n, cycle) ==
  IF n = 1 /\ cycle.repeat > 1
    THEN << Statement(cycle, 1), Statement(cycle, cycle.repeat - 1) >>
    ELSE << Statement(cycle, cycle.repeat) >>
to_stil(program) ==
  LET cycles_ == _walk_cycles(program)
  IN  FlattenSeq([n \in DOMAIN cycles_ |-> StatementsOf(n, cycles_[n])])

\* The level a vector gives a pin: a pulse's hold_pins before the declared
\* inputs, and P, which leaves the pin alone, for any other.
VectorLevels(cycle, levels) == Over(cycle.hold, Over(cycle.static, levels))

\* A tester runs one vector: one edge of its table's clock, low again after it.
RunVector(acc, cycle) ==
  LET levels == VectorLevels(cycle, acc.levels)
      pulsed == {cycle.table} \cap DOMAIN levels
  IN  [levels |-> Over([p \in pulsed |-> 0], levels),
       edges |-> Append(acc.edges, Edge(cycle.table, cycle.tms, cycle.tdi, cycle.bit,
                          [p \in DOMAIN levels \ pulsed |-> levels[p]]))]
RunStatement(acc, statement) ==
  FoldLeft(LAMBDA a, i : RunVector(a, statement.cycle), acc,
           [i \in 1 .. statement.times |-> i])

EdgesOf(statements) ==
  FoldLeft(RunStatement,
           [levels |-> Over(Inputs, [p \in OtherPins |-> Undriven]), edges |-> <<>>],
           statements).edges

----------------------------------------------------------------------------
\* A tester that runs the STIL of a program gives the chip the clock edges the
\* program means, each with the levels of every other pin it means, and
\* compares each TDO bit at the edge that shifts it out: though to_stil keeps
\* its own state, counts a Runtest up to three, shortens the opening loop and
\* drives a declared input from a snapshot (to_stil, against SetPins' and
\* PulsePin's docstrings in tap_ir.py and TapModel's edges).
StilIsTheProgram ==
  cycles = <<>> /\ block.kind # "test" => EdgesOf(to_stil(log)) = applied
=============================================================================
