-------------------------- MODULE InstrumentCells --------------------------
(***************************************************************************)
(* The opt-in cells of insert_sib_network, on tap_core's own strobes: a    *)
(* WRITE instrument that also clears on the chip reset (chip_reset:        *)
(* rtl/instrument_write_clr.v behind rtl/tck_reset_sync.v) and a READ      *)
(* instrument in another clock domain (capture_sync:                       *)
(* rtl/bc1_shift_only_sync.v, a synchronizer per bit).  What reaches their *)
(* si, and whether their SIB stays open, is left to the environment.       *)
(***************************************************************************)
EXTENDS TapCore, Sequences

CONSTANTS
  StatusWidth,  \* of the READ instrument
  Words         \* the words its status moves between

VARIABLES
  stages,               \* tck_reset_sync
  shift_ff, po,         \* instrument_write_clr
  status,               \* the status word at the READ instrument's pins
  sync_first, sync_second,  \* bc1_shift_only_sync, bit by bit
  chipReset,            \* history: a chip reset came since TRST
  fedOne,               \* history: a 1 was fed into the WRITE cell since a reset
  held                  \* history: edges the status has held still for, up to 2

cellVars == <<stages, shift_ff, po, status, sync_first, sync_second,
              chipReset, fedOne, held>>

X == 2  \* a flop whose input moved around its edge

StatusBits == 1 .. StatusWidth

ASSUME WordsAssumption ==
  StatusWidth \in Nat \ {0} /\ Words \subseteq [StatusBits -> {0, 1}]

AllZero == [k \in StatusBits |-> 0]

\* A seeded fault: a synchronizer of four flops.
FourStages == <<0, 0, 0, 0>>
ClearedStages == <<0, 0>>
ReleasedThrough == <<1>> \o SubSeq(stages, 1, Len(stages) - 1)
clr_n == stages[Len(stages)]

\* A seeded fault: the clear leaves the shift flop alone.
ClearPo == po' = 0 /\ UNCHANGED shift_ff

\* Both flops, with no clock, as soon as clr_n or trst_n falls.
ClearCell == shift_ff' = 0 /\ po' = 0

\* One edge of instrument_write_clr; while clr_n is low it does nothing.
WriteCell(si, select) ==
  IF clr_n = 0 THEN ClearCell
  ELSE /\ shift_ff' = CASE state = "CAPTURE_DR" -> po
                        [] state = "SHIFT_DR" -> si
                        [] OTHER -> shift_ff
       /\ po' = IF state = "UPDATE_DR" /\ select THEN shift_ff ELSE po

\* A seeded fault: the capture takes the first flop.
CaptureEarly == sync_first

\* What Capture-DR loads into the cells' shift flops.
CaptureSource == sync_second

\* One edge of the synchronizers while the status may be moving to `next`; a
\* flop that caught it moving settles either way before the next edge.
Synchronize(next) ==
  /\ status' = next
  /\ sync_first' = [k \in StatusBits |-> IF next[k] = status[k] THEN next[k] ELSE X]
  /\ sync_second' \in {word \in [StatusBits -> Bits] :
                         \A k \in StatusBits : sync_first[k] # X => word[k] = sync_first[k]}

\* external is the network's: the bit that reaches the WRITE cell's si, and the
\* one that leaves the network for the TAP's external_dr_tdo.
Edge(tms, tdi, external, select, next) ==
  /\ Posedge(tms, tdi, external)
  /\ stages' = ReleasedThrough
  /\ WriteCell(external, select)
  /\ Synchronize(next)
  /\ fedOne' = (fedOne \/ (state = "SHIFT_DR" /\ external = 1))
  /\ held' = IF next # status THEN 0 ELSE IF held < 2 THEN held + 1 ELSE 2
  /\ UNCHANGED chipReset

\* A chip reset pulse between two edges; one held longer is a pulse before
\* each edge.
ChipReset ==
  /\ stages' = ClearedStages
  /\ ClearCell
  /\ chipReset' = TRUE /\ fedOne' = FALSE
  /\ UNCHANGED <<coreVars, status, sync_first, sync_second, held>>

Trst ==
  /\ CoreReset
  /\ stages' = ClearedStages
  /\ ClearCell
  /\ sync_first' = AllZero /\ sync_second' = AllZero
  /\ chipReset' = FALSE /\ fedOne' = FALSE /\ held' = 0
  /\ UNCHANGED status

Init ==
  /\ CoreInit
  /\ stages = ClearedStages /\ shift_ff = 0 /\ po = 0
  /\ status \in Words
  /\ sync_first = AllZero /\ sync_second = AllZero
  /\ chipReset = FALSE /\ fedOne = FALSE /\ held = 0

Next ==
  \/ \E tms, tdi, external \in Bits, select \in BOOLEAN, next \in Words :
       Edge(tms, tdi, external, select, next)
  \/ ChipReset
  \/ Trst

Spec == Init /\ [][Next]_<<coreVars, cellVars>>

----------------------------------------------------------------------------
\* No value loaded before a reset comes back after it: the pin is 1 only if a 1
\* was fed in since, though the scan, its bits in the cell, may have been under
\* way when the reset came (instrument_write_clr.v clears "exactly as trst_n
\* does"; an Update-DR in the two edges of the release is lost).
NothingSurvivesReset == (po = 1 \/ shift_ff = 1) => fedOne

\* A TRST by itself costs no scan: by the first Capture-DR the TAP can reach the
\* cells are released, and stay so (tck_reset_sync.v delays the release of
\* trst_n as well).
TrstCostsNoScan ==
  state \in {"CAPTURE_DR", "SHIFT_DR", "UPDATE_DR"} /\ ~chipReset => clr_n = 1

\* Capture-DR never samples a status bit in mid-transition, and the word it
\* samples is the status, in one piece, once that has held still for two edges
\* (bc1_shift_only_sync.v: "never a value caught mid-transition"; "coherent
\* only if it holds still for those two edges").
StatusIsCaptured ==
  state = "CAPTURE_DR" =>
    /\ \A k \in StatusBits : CaptureSource[k] # X
    /\ held = 2 => CaptureSource = status
=============================================================================
