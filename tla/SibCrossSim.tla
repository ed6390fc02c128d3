---------------------------- MODULE SibCrossSim ----------------------------
(***************************************************************************)
(* SibNetworkRegister and the synthesized cells on the same TAP strobes,   *)
(* as the repository's cross-simulation tests run them: DR scans of any    *)
(* length, under the network's instruction or under another one, and TRST. *)
(* Under SAMPLE/PRELOAD the model in the scan path is tap_integrity.py's   *)
(* _NetworkTail.                                                           *)
(***************************************************************************)
EXTENDS SibCells

CONSTANT MaxShifts  \* bound on the shifts of one scan

\* tail_bit() raises on an empty network: it has no TDO to compare.
ASSUME TailAssumption == Units # {}

VARIABLES
  phase,     \* idle, captured (from Capture-DR to Update-DR)
  selected,  \* the scan runs under the network's instruction
  shifts,    \* shifts taken in this scan
  pyShift, pyPo,    \* SibNetworkRegister
  rtlShift, rtlPo,  \* the cells' registers
  pyTdo, rtlTdo     \* TDO during the last edge, 0 outside Shift-DR

netVars == <<pyShift, pyPo, rtlShift, rtlPo>>
simVars == <<phase, selected, shifts, netVars, pyTdo, rtlTdo>>

SimInit ==
  /\ phase = "idle" /\ selected = FALSE /\ shifts = 0
  /\ pyShift = ShiftZero /\ rtlShift = ShiftZero
  /\ pyPo = PoZero /\ rtlPo = PoZero
  /\ pyTdo = 0 /\ rtlTdo = 0

CaptureDr(sel) ==
  /\ phase = "idle"
  /\ phase' = "captured" /\ selected' = sel /\ shifts' = 0
  /\ pyShift' = IF sel THEN Capture(pyShift, pyPo) ELSE CaptureUnselected(pyShift, pyPo)
  /\ rtlShift' = CellCapture(rtlShift, rtlPo, sel)
  /\ pyTdo' = 0 /\ rtlTdo' = 0
  /\ UNCHANGED <<pyPo, rtlPo>>

ShiftDr(tdi) ==
  /\ phase = "captured" /\ shifts < MaxShifts
  /\ shifts' = shifts + 1
  /\ pyTdo' = TailBit(pyShift, pyPo)
  /\ rtlTdo' = ExternalTdo(rtlShift, rtlPo)
  /\ pyShift' = IF selected THEN Shift(pyShift, pyPo, tdi) ELSE pyShift
  /\ rtlShift' = CellShift(rtlShift, rtlPo, tdi, selected)
  /\ UNCHANGED <<phase, selected, pyPo, rtlPo>>

UpdateDr ==
  /\ phase = "captured"
  /\ phase' = "idle"
  /\ pyPo' = IF selected THEN Update(pyShift, pyPo) ELSE pyPo
  /\ rtlPo' = CellUpdate(rtlShift, rtlPo, selected)
  /\ pyTdo' = 0 /\ rtlTdo' = 0
  /\ UNCHANGED <<selected, shifts, pyShift, rtlShift>>

\* TRST, at any point of a scan.
ResetNetwork ==
  /\ phase' = "idle" /\ selected' = FALSE /\ shifts' = 0
  /\ pyShift' = ShiftZero /\ rtlShift' = ShiftZero
  /\ pyPo' = PoZero /\ rtlPo' = PoZero
  /\ pyTdo' = 0 /\ rtlTdo' = 0

SimNext ==
  \/ \E sel \in BOOLEAN : CaptureDr(sel)
  \/ \E tdi \in Bits : ShiftDr(tdi)
  \/ UpdateDr
  \/ ResetNetwork

SimSpec == SimInit /\ [][SimNext]_simVars

----------------------------------------------------------------------------
\* Both networks have committed the same values in every slot and WRITE
\* instrument, open or closed, after any sequence of scans (SibNetworkRegister
\* against the cells; tests/test_sib_insert_*_cross_sim.py sample it).
CommittedStateAgrees == pyPo = rtlPo

\* During the network's own scans TDO agrees on every shift.
TdoAgreesWhenSelected == selected => pyTdo = rtlTdo

\* ... and so does every flip-flop in the scan path.
LiveCellsAgree ==
  selected /\ phase = "captured" =>
    \A c \in Cells : Live(pyPo, c[1]) => pyShift[c] = rtlShift[c]

\* Under any other instruction the tail holds still and both sides present the
\* same bit (tap_integrity.py's _NetworkTail: "the network, not selected,
\* neither shifts nor updates"), while the network ends in a SIB or in an
\* unmatched mux, the cells whose own flip-flop is the tail.
TailHoldsUnlessRelayed ==
  ~selected /\ ~Matched(rtlPo, LastOf({u \in Units : ~Nested(u)})) => pyTdo = rtlTdo
=============================================================================
