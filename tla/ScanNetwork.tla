---------------------------- MODULE ScanNetwork ----------------------------
(***************************************************************************)
(* The static description of an IEEE 1687 network (icl_model.py's          *)
(* PhysicalGraph) and the arithmetic on it: which slots gate a unit, which *)
(* cells are in the scan path, and what a shift feeds them                 *)
(* (sib_layout.py).  A unit is a SIB, a scan mux or an instrument.         *)
(***************************************************************************)
EXTENDS BitArithmetic, Sequences, FiniteSets, SequencesExt, FiniteSetsExt

CONSTANTS
  Sibs, Muxes, Instruments,
  Writes,        \* the WRITE instruments; the others are READ
  Order,         \* every unit, TDI side first; a slot follows its content
  Path,          \* unit -> the [slot, value] steps gating it, root to leaf
  Width,         \* unit -> bits: 1 for a SIB, a mux's select_width
  CaptureValue   \* READ instrument -> what it captures

Slots == Sibs \cup Muxes
Units == Slots \cup Instruments
Latched == Slots \cup Writes  \* the units with an update latch

Gate(u) == Path[u][Len(Path[u])]
Nested(u) == Path[u] # <<>>

\* The values of a slot that splice some content in; each gates an instrument
\* or a nested chain.
Arms(s) == {Gate(u).value : u \in {v \in Units : Nested(v) /\ Gate(v).slot = s}}

IndexOf(u) == CHOOSE i \in DOMAIN Order : Order[i] = u

\* What slot s splices in, at any depth.
Inside(s) == {u \in Units : \E i \in DOMAIN Path[u] : Path[u][i].slot = s}

\* What validate_physical_graph accepts (unique names, leaf-xor-nested slots,
\* at least two arms per mux, values that fit the select field), over the
\* order _live_layout walks: all a slot splices in just before the slot.

\* validate_physical_graph raises on anything else.
ValidPhysicalGraph ==
  /\ Sibs \cap Muxes = {} /\ Slots \cap Instruments = {}
  /\ Writes \subseteq Instruments
  /\ Order \in Seq(Units) /\ ToSet(Order) = Units /\ Len(Order) = Cardinality(Units)
  /\ Path \in [Units -> Seq([slot : Slots, value : Nat])]
  /\ Width \in [Units -> Nat \ {0}] /\ \A s \in Sibs : Width[s] = 1
  /\ DOMAIN CaptureValue = Instruments \ Writes
  /\ \A u \in Instruments : Nested(u)
  /\ \A u \in {v \in Units : Nested(v)} :
       LET g == Gate(u) IN
       /\ g.slot \in Slots /\ g.value \in 0 .. Pow2[Width[g.slot]] - 1
       /\ g.slot \in Sibs => g.value = 1
       /\ Path[u] = Append(Path[g.slot], g)
       /\ IndexOf(u) < IndexOf(g.slot)
       /\ u \in Instruments => \A v \in Units : Nested(v) /\ Gate(v) = g => v = u
  /\ \A s \in Slots : \A u \in Inside(s), v \in Units :
       IndexOf(u) < IndexOf(v) /\ IndexOf(v) < IndexOf(s) => v \in Inside(s)
  /\ \A s \in Sibs : Arms(s) = {1}
  /\ \A m \in Muxes : Cardinality(Arms(m)) >= 2
ASSUME NetworkAssumption == ValidPhysicalGraph

\* Three more conditions, which validate_physical_graph does not impose and a PDL
\* program relies on: a mux ends the chain (what follows a matched one is
\* shifted its select field late), no mux splices content in while its field is
\* zero (one that no program has opened yet would be matched), and its arms hold
\* instruments (_target_layout looks for what a SIB under one sends at a cycle
\* the mux has already relayed).
MuxesLast == \A m \in Muxes : m = Order[Len(Order)]
NoArmZero == \A m \in Muxes : 0 \notin Arms(m)
LeafArms == \A u \in Units : Nested(u) /\ Gate(u).slot \in Muxes => u \in Instruments

----------------------------------------------------------------------------
\* An instrument's bits are N chained cells, LSB nearest TDI; a select field
\* is one shift register, MSB nearest TDI.
UnitCells(u) ==
  IF u \in Instruments THEN [j \in 1 .. Width[u] |-> <<u, j - 1>>]
                       ELSE [j \in 1 .. Width[u] |-> <<u, Width[u] - j>>]

Cells == UNION {ToSet(UnitCells(u)) : u \in Units}

\* `open` maps slots to the value they carry; a slot it does not name is closed.
Live(open, u) ==
  \A i \in DOMAIN Path[u] :
    Path[u][i].slot \in DOMAIN open /\ open[Path[u][i].slot] = Path[u][i].value

Layout(open) ==
  FlattenSeq([i \in DOMAIN Order |->
                IF Live(open, Order[i]) THEN UnitCells(Order[i]) ELSE <<>>])

layout_bit_length(open) ==
  MapThenSumSet(LAMBDA u : Width[u], {u \in Units : Live(open, u)})

\* The bits of one shift, TDI-nearest first: the chain as open_now leaves it,
\* every select field set to open_after's value (0 if unnamed), the leaf that
\* directly hangs off slot target_sib given the payload, any other 0.
compose_bits(open_now, open_after, target_sib, payload_value) ==
  LET BitOf(c) ==
        CASE c[1] \in Slots ->
               IF c[1] \in DOMAIN open_after THEN Bit(open_after[c[1]], c[2]) ELSE 0
          [] c[1] \in Instruments ->
               IF Gate(c[1]).slot = target_sib THEN Bit(payload_value, c[2]) ELSE 0
      layout == Layout(open_now)
  IN  [n \in DOMAIN layout |-> BitOf(layout[n])]

----------------------------------------------------------------------------
\* sib_retarget.py.  open_path_to: the steps an instrument's depth-first search
\* goes through; path_to_sib_name: a slot's ancestors, then itself.
open_path_to(instrument) == Path[instrument]

path_to_sib_name(slot, value) == Append(Path[slot], [slot |-> slot, value |-> value])

\* The ancestors of the targets and the targets, each with its depth and value.
Required(target_open) ==
  UNION {{[slot |-> p[d].slot, depth |-> d, value |-> p[d].value] : d \in DOMAIN p} :
           p \in {path_to_sib_name(s, target_open[s]) : s \in DOMAIN target_open}}

AsMap(steps) ==
  [s \in {r.slot : r \in steps} |-> (CHOOSE r \in steps : r.slot = s).value]

\* A seeded fault: every ancestor opened in one round.
OneRound(target_open, currently_open) == << AsMap(Required(target_open)) >>

\* The rounds of open_after maps from the first depth that is not yet right;
\* none if nothing is wrong, one closing round for an empty target.
stage_open_sequence(target_open, currently_open) ==
  LET required == Required(target_open)
      mismatched == {r.depth : r \in {q \in required :
                       ~(q.slot \in DOMAIN currently_open
                         /\ currently_open[q.slot] = q.value)}}
      first == Min(mismatched)
      Round(d) == AsMap({r \in required : r.depth <= d})
  IN  IF DOMAIN target_open = {} THEN << <<>> >>
      ELSE IF mismatched = {} THEN <<>>
      ELSE [i \in 1 .. Max({r.depth : r \in required}) - first + 1 |-> Round(first + i - 1)]
=============================================================================
