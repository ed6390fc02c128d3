----------------------------- MODULE SibNetwork -----------------------------
(***************************************************************************)
(* sib_model.py's SibNetworkRegister: the whole network as one data        *)
(* register, stepped by capture, shift and update.  Its state is `shift`,  *)
(* the shift flip-flop of every cell, and `po`, the committed value of     *)
(* every slot and WRITE instrument.                                        *)
(***************************************************************************)
EXTENDS ScanNetwork

Bits == {0, 1}

ShiftZero == [c \in Cells |-> 0]
PoZero == [u \in Latched |-> 0]

\* _value_of the cells of one unit.
Number(bits) == MapThenSumSet(LAMBDA k : bits[k] * Pow2[k], DOMAIN bits)
ValueOf(shift, u) == Number([k \in 0 .. Width[u] - 1 |-> shift[<<u, k>>]])

\* A mux whose committed value is one of its arms'.
Matched(po, m) == m \in Muxes /\ po[m] \in Arms(m)

\* capture(): every instrument captures, whatever is open.  A nested chain's
\* slots do while their gate lets them; under a SIB that is its sib_po alone,
\* not what gates the SIB itself.
CaptureOpen(po, s) ==
  \A i \in DOMAIN Path[s] :
    (\A j \in DOMAIN Path[s] : j > i => Path[s][j].slot \in Muxes)
      => po[Path[s][i].slot] = Path[s][i].value

CapturedBit(po, u, k) ==
  IF u \in Latched THEN Bit(po[u], k) ELSE Bit(CaptureValue[u], k)

CaptureUnselected(shift, po) ==
  [c \in Cells |-> IF c[1] \in Instruments THEN CapturedBit(po, c[1], c[2])
                                           ELSE shift[c]]

Capture(shift, po) ==
  [c \in Cells |-> IF c[1] \in Instruments \/ CaptureOpen(po, c[1])
                     THEN CapturedBit(po, c[1], c[2])
                     ELSE shift[c]]

\* A seeded fault: a matched mux reads as its own flip-flop.
ReadingOwn(shift, po, layout) == [n \in 1 .. Len(layout) |-> shift[layout[n]]]

\* _read: a matched mux's bit 0 reads as what its arm relays, which lies just
\* above the select field in the layout; its own flip-flop is not observable.
Reading(shift, po, layout) ==
  LET Read[n \in 1 .. Len(layout)] ==
        LET c == layout[n] IN
        IF c[2] = 0 /\ Matched(po, c[1]) THEN Read[n - Width[c[1]]] ELSE shift[c]
  IN  Read

TailBit(shift, po) == LET layout == Layout(po) IN Reading(shift, po, layout)[Len(layout)]

\* A seeded fault: the cell after a matched mux takes the mux's flip-flop.
ShiftUnrelayed(shift, po, tdi) ==
  LET layout == Layout(po)
      new == [n \in DOMAIN layout |-> IF n = 1 THEN tdi ELSE shift[layout[n - 1]]]
  IN  [c \in Cells |-> IF Live(po, c[1])
                         THEN new[CHOOSE n \in DOMAIN layout : layout[n] = c]
                         ELSE shift[c]]

\* shift(tdi): every live cell takes the reading of the one above it.
Shift(shift, po, tdi) ==
  LET layout == Layout(po)
      read == Reading(shift, po, layout)
      new == [n \in DOMAIN layout |-> IF n = 1 THEN tdi ELSE read[n - 1]]
  IN  [c \in Cells |-> IF Live(po, c[1])
                         THEN new[CHOOSE n \in DOMAIN layout : layout[n] = c]
                         ELSE shift[c]]

\* One shift per bit, TDO showing the tail before each.
Shifts(from, tdi) ==
  FoldLeft(LAMBDA acc, bit :
             [shift |-> Shift(acc.shift, from.po, bit),
              out |-> Append(acc.out, TailBit(acc.shift, from.po))],
           [shift |-> from.shift, out |-> << >>], tdi)

\* A scan up to its Update-DR.
Scanned(from, tdi) == Shifts([shift |-> Capture(from.shift, from.po), po |-> from.po], tdi)

\* A seeded fault: a WRITE instrument commits on the edge that closes it.
UpdateWhileClosing(shift, po) ==
  [u \in Latched |-> IF Live(po, u) THEN ValueOf(shift, u) ELSE po[u]]

\* update(): a live slot commits its field.  A WRITE instrument commits only
\* if its gate is live and keeps its value across the edge.
Update(shift, po) ==
  [u \in Latched |->
     IF /\ Live(po, u)
        /\ u \in Writes => ValueOf(shift, Gate(u).slot) = Gate(u).value
     THEN ValueOf(shift, u)
     ELSE po[u]]
=============================================================================
