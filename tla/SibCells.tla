------------------------------ MODULE SibCells ------------------------------
(***************************************************************************)
(* The network insert_sib_network builds out of rtl/sib_cell.v,            *)
(* scan_mux_cell.v, instrument_write.v and bc1_shift_only.v: one cell per  *)
(* unit, wired si to so.  tap_core's strobes reach every cell under every  *)
(* instruction; `selected` is the decode of the network's own instruction, *)
(* which gates the slots and, through them, the instruments' update, but   *)
(* not the instruments' capture and shift.                                 *)
(***************************************************************************)
EXTENDS SibNetwork

\* The previous unit on the same chain (same gating slot and arm), if any.
Siblings(u) == {v \in Units : Path[v] = Path[u]}
Before(u) == {v \in Siblings(u) : IndexOf(v) < IndexOf(u)}
Previous(u) == CHOOSE v \in Before(u) : \A w \in Before(u) : IndexOf(w) <= IndexOf(v)

\* The last unit of the chain behind one arm, whose so is arm_so (nested_so).
Content(s, value) == {u \in Units : Nested(u) /\ Gate(u) = [slot |-> s, value |-> value]}
LastOf(units) == CHOOSE v \in units : \A w \in units : IndexOf(w) <= IndexOf(v)

\* Each unit's so, in layout order: a mux relays its matched arm's.
So(shift, po) ==
  LET out[i \in DOMAIN Order] ==
        LET u == Order[i] IN
        IF Matched(po, u) THEN out[IndexOf(LastOf(Content(u, po[u])))]
        ELSE IF u \in Instruments THEN shift[<<u, Width[u] - 1>>]
        ELSE shift[<<u, 0>>]
  IN  [u \in Units |-> out[IndexOf(u)]]

\* Each unit's si: the unit before it, or its gate's si, or TDI.
Si(shift, po, tdi) ==
  LET so == So(shift, po)
      in[u \in Units] == IF Before(u) # {} THEN so[Previous(u)]
                         ELSE IF Nested(u) THEN in[Gate(u).slot]
                         ELSE tdi
  IN  in

\* A seeded fault: tap_core's decode left off the top-level select.
SelectUngated(po, u, selected) == Live(po, u)

\* top-level select is `selected`; nested_active and arm_active pass it on.
Select(po, u, selected) == selected /\ Live(po, u)

ExternalTdo(shift, po) ==
  So(shift, po)[LastOf({u \in Units : ~Nested(u)})]

CellCapture(shift, po, selected) ==
  [c \in Cells |-> IF c[1] \in Instruments \/ Select(po, c[1], selected)
                     THEN CapturedBit(po, c[1], c[2])
                     ELSE shift[c]]

\* A slot's field fills from its spliced-in content while it is open or
\* matched, an instrument's chain of 1-bit cells from its si.
CellShift(shift, po, tdi, selected) ==
  LET so == So(shift, po)
      si == Si(shift, po, tdi)
      Fill(u) == IF u \in Slots /\ po[u] \in Arms(u)
                   THEN so[LastOf(Content(u, po[u]))] ELSE si[u]
      Moved(u, k) ==
        IF u \in Instruments
          THEN IF k = 0 THEN Fill(u) ELSE shift[<<u, k - 1>>]
          ELSE IF k = Width[u] - 1 THEN Fill(u) ELSE shift[<<u, k + 1>>]
  IN  [c \in Cells |-> IF c[1] \in Instruments \/ Select(po, c[1], selected)
                         THEN Moved(c[1], c[2])
                         ELSE shift[c]]

\* nested_select and arm_select: the gate keeps its value across the edge.
CellUpdate(shift, po, selected) ==
  [u \in Latched |->
     IF /\ Select(po, u, selected)
        /\ u \in Writes => ValueOf(shift, Gate(u).slot) = po[Gate(u).slot]
     THEN ValueOf(shift, u)
     ELSE po[u]]
=============================================================================
