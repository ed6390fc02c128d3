-------------------------- MODULE SibNetworkProofs --------------------------
(***************************************************************************)
(* The network register at work, for every network                         *)
(* validate_physical_graph accepts.  First it shifts and commits as the    *)
(* synthesized cells do, over scans of any length (SibCrossSim).  Then the *)
(* programs of the PDL interpreter are played on it (PdlOnNetwork).        *)
(***************************************************************************)
EXTENDS SibCrossSim, PdlOnNetwork, ScanNetworkProofs

(***************************************************************************)
(* The invariant.  The properties alone are not inductive: a scan's cells  *)
(* agree only because the committed values that lay them out do, and those *)
(* are committed from cells that agreed.  Under another instruction only   *)
(* the top-level units' cells are known to agree.                          *)
(***************************************************************************)
CrossInv ==
  /\ phase \in {"idle", "captured"} /\ selected \in BOOLEAN
  /\ pyPo = [u \in Latched |-> pyPo[u]]
  /\ CommittedStateAgrees
  /\ LiveCellsAgree
  /\ \A c \in Cells : ~Nested(c[1]) => pyShift[c] = rtlShift[c]
  /\ TdoAgreesWhenSelected
  /\ TailHoldsUnlessRelayed

\* Both reset to zero.
LEMMA InitCross == ASSUME SimInit PROVE CrossInv
<1>1. pyPo = [u \in Latched |-> pyPo[u]]
  BY DEF SimInit, PoZero
<1> QED BY <1>1 DEF SimInit, CrossInv, CommittedStateAgrees, LiveCellsAgree, TdoAgreesWhenSelected,
             TailHoldsUnlessRelayed

\* Capture, selected or not, changes nothing that is not captured alike.
LEMMA CaptureCross == ASSUME CrossInv, NEW sel \in BOOLEAN, CaptureDr(sel) PROVE CrossInv'
<1> USE DEF CrossInv, CommittedStateAgrees, LiveCellsAgree, TdoAgreesWhenSelected,
            TailHoldsUnlessRelayed
<1>1. DOMAIN pyPo = Latched /\ pyPo' = pyPo /\ rtlPo' = pyPo
  BY DEF CaptureDr
<1>2. sel => Agree(pyPo, pyShift', rtlShift')
  BY <1>1, CapturesAgree DEF CaptureDr
<1>3. ASSUME NEW c \in Cells, ~Nested(c[1]) PROVE pyShift'[c] = rtlShift'[c]
  <2>1. c[1] \in Units /\ Live(pyPo, c[1]) /\ c[1] \notin Instruments
    <3>1. c[1] \in Units
      BY CellsAre
    <3> QED BY <3>1, <1>3, TopUnit
  <2>2. CASE sel
    BY <1>2, <2>1, <2>2 DEF Agree
  <2>3. CASE ~sel
    <3>1. pyShift'[c] = pyShift[c]
      BY <2>1, <2>3 DEF CaptureDr, CaptureUnselected
    <3>2. rtlShift'[c] = rtlShift[c]
      BY <2>1, <2>3 DEF CaptureDr, CellCapture, Select
    <3> QED BY <3>1, <3>2, <1>3
  <2> QED BY <2>2, <2>3
<1>4. selected' = sel /\ phase' = "captured" /\ pyTdo' = 0 /\ rtlTdo' = 0
  BY DEF CaptureDr
<1> QED BY <1>1, <1>2, <1>3, <1>4 DEF Agree

\* A shift presents the same bit and moves the scan path alike.
LEMMA ShiftCross == ASSUME CrossInv, NEW tdi, ShiftDr(tdi) PROVE CrossInv'
<1> USE DEF CrossInv, CommittedStateAgrees, LiveCellsAgree, TdoAgreesWhenSelected,
            TailHoldsUnlessRelayed
<1>1. /\ DOMAIN pyPo = Latched /\ rtlPo = pyPo /\ pyPo' = pyPo /\ rtlPo' = pyPo
      /\ phase' = "captured" /\ selected' = selected
      /\ pyTdo' = TailBit(pyShift, pyPo) /\ rtlTdo' = ExternalTdo(rtlShift, pyPo)
  BY DEF ShiftDr
<1>2. CASE selected
  <2>1. Agree(pyPo, pyShift, rtlShift)
    BY <1>2 DEF Agree, ShiftDr
  <2>2. pyTdo' = rtlTdo'
    BY <1>1, <2>1, TailAssumption, TailIsATopUnit, TailsAgree
  <2>3. pyShift' = Shift(pyShift, pyPo, tdi) /\ rtlShift' = CellShift(rtlShift, pyPo, tdi, TRUE)
    BY <1>1, <1>2 DEF ShiftDr
  <2>4. Agree(pyPo, pyShift', rtlShift')
    BY <1>1, <2>1, <2>3, ShiftsAgree
  <2>5. \A c \in Cells : ~Nested(c[1]) => pyShift'[c] = rtlShift'[c]
    BY <2>4, CellsAre, TopUnit DEF Agree
  <2> QED BY <1>1, <1>2, <2>2, <2>4, <2>5 DEF Agree
<1>3. CASE ~selected
  <2>0. selected = FALSE
    BY <1>3
  <2>1. pyShift' = pyShift /\ rtlShift' = CellShift(rtlShift, pyPo, tdi, FALSE)
    BY <1>1, <2>0 DEF ShiftDr
  <2>2. ASSUME NEW c \in Cells, ~Nested(c[1]) PROVE pyShift'[c] = rtlShift'[c]
    <3>1. c[1] \in Units
      BY CellsAre
    <3>2. c[1] \notin Instruments
      BY <3>1, <2>2, TopUnit
    <3>3. rtlShift'[c] = rtlShift[c]
      BY <2>1, <3>2 DEF CellShift, Select
    <3> QED BY <2>1, <2>2, <3>3
  <2>3. ASSUME ~Matched(pyPo, TailUnit) PROVE pyTdo' = rtlTdo'
    <3>1. <<TailUnit, 0>> \in Cells
      <4>1. Width[TailUnit] \in Nat \ {0}
        BY TailAssumption, TailIsATopUnit, CellsOfUnit
      <4>2. 0 \in 0 .. Width[TailUnit] - 1
        BY <4>1
      <4> QED BY <4>2, TailAssumption, TailIsATopUnit, CellsAre
    <3>2. pyShift[<<TailUnit, 0>>] = rtlShift[<<TailUnit, 0>>]
      BY <3>1, TailAssumption, TailIsATopUnit
    <3> QED BY <1>1, <2>3, <3>2, TailAssumption, UnmatchedTail
  <2> QED BY <1>1, <1>3, <2>2, <2>3 DEF TailUnit
<1> QED BY <1>2, <1>3

\* Update commits the same values, and no cell moves.
LEMMA UpdateCross == ASSUME CrossInv, UpdateDr PROVE CrossInv'
<1> USE DEF CrossInv, CommittedStateAgrees, LiveCellsAgree, TdoAgreesWhenSelected,
            TailHoldsUnlessRelayed
<1>1. /\ DOMAIN pyPo = Latched /\ rtlPo = pyPo /\ phase = "captured" /\ phase' = "idle"
      /\ selected' = selected /\ pyTdo' = 0 /\ rtlTdo' = 0
      /\ pyShift' = pyShift /\ rtlShift' = rtlShift
  BY DEF UpdateDr
<1>2. pyPo' = rtlPo' /\ pyPo' = [u \in Latched |-> pyPo'[u]]
  <2>1. CASE selected
    <3>1. Agree(pyPo, pyShift, rtlShift)
      BY <1>1, <2>1 DEF Agree
    <3>2. pyPo' = Update(pyShift, pyPo) /\ rtlPo' = CellUpdate(rtlShift, pyPo, TRUE)
      BY <1>1, <2>1 DEF UpdateDr
    <3>3. Update(pyShift, pyPo) = [u \in Latched |-> Update(pyShift, pyPo)[u]]
      BY DEF Update
    <3>4. pyPo' = rtlPo'
      BY <1>1, <3>1, <3>2, UpdatesAgree
    <3>5. [u \in Latched |-> pyPo'[u]] = [u \in Latched |-> Update(pyShift, pyPo)[u]]
      BY <3>2
    <3> QED BY <3>2, <3>3, <3>4, <3>5
  <2>2. CASE ~selected
    <3>0. selected = FALSE
      BY <2>2
    <3>1. pyPo' = pyPo /\ rtlPo' = CellUpdate(rtlShift, pyPo, FALSE)
      BY <1>1, <3>0 DEF UpdateDr
    <3>2. CellUpdate(rtlShift, pyPo, FALSE) = [u \in Latched |-> pyPo[u]]
      BY DEF CellUpdate, Select
    <3>3. pyPo = [u \in Latched |-> pyPo[u]]
      OBVIOUS
    <3>4. pyPo' = rtlPo'
      BY <3>1, <3>2, <3>3
    <3> QED BY <3>1, <3>3, <3>4
  <2> QED BY <2>1, <2>2
<1> QED BY <1>1, <1>2

\* TRST, like the start, zeroes both.
LEMMA ResetCross == ASSUME ResetNetwork PROVE CrossInv'
<1>1. pyPo' = [u \in Latched |-> pyPo'[u]]
  BY DEF ResetNetwork, PoZero
<1> QED BY <1>1 DEF ResetNetwork, CrossInv, CommittedStateAgrees, LiveCellsAgree,
             TdoAgreesWhenSelected, TailHoldsUnlessRelayed

\* The invariant holds of every network and scans of any length.
THEOREM CrossInvariant == SimSpec => []CrossInv
<1>1. CrossInv /\ [SimNext]_simVars => CrossInv'
  <2> SUFFICES ASSUME CrossInv, [SimNext]_simVars PROVE CrossInv'
    OBVIOUS
  <2>1. CASE SimNext
    BY <2>1, CaptureCross, ShiftCross, UpdateCross, ResetCross DEF SimNext
  <2>2. CASE UNCHANGED simVars
    BY <2>2 DEF simVars, netVars, CrossInv, CommittedStateAgrees, LiveCellsAgree,
                TdoAgreesWhenSelected, TailHoldsUnlessRelayed
  <2> QED BY <2>1, <2>2
<1> QED BY <1>1, InitCross, PTL DEF SimSpec

\* sib_model.py's register and the cells commit the same values, always.
THEOREM ModelCommitsAsTheCells == SimSpec => []CommittedStateAgrees
<1>1. CrossInv => CommittedStateAgrees
  BY DEF CrossInv
<1> QED BY <1>1, CrossInvariant, PTL

\* During the network's own scans TDO is the same on every shift.
THEOREM ModelTdoIsTheCells == SimSpec => []TdoAgreesWhenSelected
<1>1. CrossInv => TdoAgreesWhenSelected
  BY DEF CrossInv
<1> QED BY <1>1, CrossInvariant, PTL

\* ... and so is every flip-flop in the scan path.
THEOREM ModelShiftsAsTheCells == SimSpec => []LiveCellsAgree
<1>1. CrossInv => LiveCellsAgree
  BY DEF CrossInv
<1> QED BY <1>1, CrossInvariant, PTL

\* Not selected, the tail presents the same held bit unless a mux relays it.
THEOREM UnselectedTailHolds == SimSpec => []TailHoldsUnlessRelayed
<1>1. CrossInv => TailHoldsUnlessRelayed
  BY DEF CrossInv
<1> QED BY <1>1, CrossInvariant, PTL

----------------------------------------------------------------------------
(* Programs.  The interpreter runs ahead of the network, so each operation  *)
(* it emitted was lowered for a network the ones before it have yet to      *)
(* produce.  A stage is what is open and what the WRITE instruments hold,   *)
(* and a program leads from one stage, the network's, to another, the       *)
(* interpreter's.                                                           *)

Stages == [open : {<< >>} \cup UNION {{OpenTo(i, d) : d \in 0 .. Len(Path[i])} : i \in Instruments},
           held : [Writes -> Nat]]

\* A wait moves nothing.
Waits(op, from, to) == op.kind = "runtest" /\ to = from

\* A round of phase 1 opens the next depth on the way to an instrument.
OpensNext(op, from, to) ==
  \E i \in Instruments : \E e \in 1 .. Len(Path[i]) :
    /\ to.open = OpenTo(i, e) /\ to.held = from.held
    /\ Leads(from.open, i, e)
    /\ op = ShiftDR(layout_bit_length(from.open),
                    Reverse(compose_bits(from.open, to.open, NoScope, 0)), << >>, NoAccess)

\* What phase 2 asks of an instrument that holds `held`: the edits its payload
\* makes, and the bits of at most one read, where they will come out.
Asks(access, expect, open, i, held, payload) ==
  /\ access.inst = i /\ access # NoAccess
  /\ access.edits \in Seq(File!Edit)
  /\ i \in Writes => File!AfterEdits(held[i], access.edits) = payload % Pow2[Width[i]]
  /\ \/ access.expects = {} /\ expect = << >>
     \/ \E r \in File!Edit : /\ r.low <= r.high /\ r.high < Width[i]
                             /\ access.expects = {r} /\ expect = ExpectedTdo(open, i, r)

\* Phase 2 delivers a payload to the instrument everything is open to.
Delivers(op, from, to) ==
  \E i \in Instruments : \E v \in Nat : \E access, expect :
    /\ from.open = OpenTo(i, Len(Path[i])) /\ to.open = from.open
    /\ to.held = [w \in Writes |-> IF w = i THEN v % Pow2[Width[i]] ELSE from.held[w]]
    /\ op = ShiftDR(layout_bit_length(from.open),
                    Reverse(compose_bits(from.open, from.open, Gate(i).slot, v)), expect, access)
    /\ Asks(access, expect, from.open, i, from.held, v)

Emitted(op, from, to) ==
  Waits(op, from, to) \/ OpensNext(op, from, to) \/ Delivers(op, from, to)

StepOf(none, op, from, to) == Emitted(op, from, to)
Ways == INSTANCE InductionLemmas WITH Takes <- StepOf
Leading(p, a, b) == Ways!Passage(0, Stages, p, a, b)

\* A program leads somewhere: nowhere if it is empty, one step an operation.
LEMMA LeadNone ==
  ASSUME NEW a \in Stages, NEW b
  PROVE  Leading(<< >>, a, b) <=> a = b
BY Ways!WayNone DEF Leading

\* One program after another.
LEMMA LeadMore ==
  ASSUME NEW p, NEW q, NEW a, NEW b, NEW c, Leading(p, a, b), Leading(q, b, c)
  PROVE  Leading(p \o q, a, c)
BY Ways!WayMore DEF Leading

\* A program's first operation leads to where the rest starts.
LEMMA LeadTail ==
  ASSUME NEW p, p # << >>, NEW a, NEW c, Leading(p, a, c)
  PROVE  \E b \in Stages : a \in Stages /\ Emitted(p[1], a, b) /\ Leading(Tail(p), b, c)
BY Ways!WayTail DEF Leading, StepOf

\* One operation more.
LEMMA LeadAppend ==
  ASSUME NEW p, NEW a \in Stages, NEW b \in Stages, NEW c \in Stages, NEW op,
         Leading(p, a, b), Emitted(op, b, c)
  PROVE  Leading(p \o <<op>>, a, c) /\ Leading(Append(p, op), a, c)
BY Ways!WayAppend DEF Leading, StepOf

\* Nothing is open at depth zero.
LEMMA NothingOpen ==
  ASSUME NEW i \in Instruments
  PROVE  OpenTo(i, 0) = << >> /\ i \in Units /\ Len(Path[i]) \in Nat
<1>1. i \in Units /\ Len(Path[i]) \in Nat
  BY GateStep DEF Units
<1>2. \A j : j \notin 1 .. 0
  OBVIOUS
<1>3. DOMAIN OpenTo(i, 0) = {}
  BY <1>2 DEF OpenTo
<1> QED BY <1>1, <1>3 DEF OpenTo

\* So every stage has an instrument's way open to some depth.
LEMMA StageIs ==
  ASSUME NEW a \in Stages, NEW i \in Instruments
  PROVE  /\ a = [open |-> a.open, held |-> a.held] /\ a.held \in [Writes -> Nat]
         /\ \E u \in Instruments : \E d \in 0 .. Len(Path[u]) : a.open = OpenTo(u, d)
<1>1. a.open = << >> \/ \E u \in Instruments : a.open \in {OpenTo(u, d) : d \in 0 .. Len(Path[u])}
  BY DEF Stages
<1>2. OpenTo(i, 0) = << >> /\ 0 \in 0 .. Len(Path[i])
  BY NothingOpen
<1> QED BY <1>1, <1>2 DEF Stages

\* What is open after a depth of the way is a stage.
LEMMA StageAt ==
  ASSUME NEW i \in Instruments, NEW e \in 0 .. Len(Path[i]), NEW held \in [Writes -> Nat]
  PROVE  [open |-> OpenTo(i, e), held |-> held] \in Stages
<1>1. OpenTo(i, e) \in UNION {{OpenTo(u, d) : d \in 0 .. Len(Path[u])} : u \in Instruments}
  OBVIOUS
<1> QED BY <1>1 DEF Stages

\* Phase 1, whatever is open before it.
RoundsFrom(open, rounds) ==
  [r \in DOMAIN rounds |->
     LET prior == IF r = 1 THEN open ELSE rounds[r - 1]
     IN  ShiftDR(layout_bit_length(prior),
                 Reverse(compose_bits(prior, rounds[r], NoScope, 0)), << >>, NoAccess)]

OpenedBy(open, rounds) == IF rounds = << >> THEN open ELSE rounds[Len(rounds)]

\* The rounds lead to the instrument's own stage, holding what was held.
LEMMA RoundsLead ==
  ASSUME NEW i \in Instruments, NEW a \in Stages
  PROVE  LET rounds == stage_open_sequence(AsMap(ToSet(open_path_to(i))), a.open)
             b == [open |-> OpenTo(i, Len(Path[i])), held |-> a.held]
         IN  /\ OpenedBy(a.open, rounds) = b.open
             /\ b \in Stages
             /\ Leading(RoundsFrom(a.open, rounds), a, b)
<1> DEFINE L == Len(Path[i])
           rounds == stage_open_sequence(AsMap(ToSet(open_path_to(i))), a.open)
           b == [open |-> OpenTo(i, L), held |-> a.held]
<1>1. i \in Units /\ L \in Nat
  BY NothingOpen
<1>0. PICK u \in Instruments : \E d \in 0 .. Len(Path[u]) : a.open = OpenTo(u, d)
  BY StageIs
<1>2. PICK d \in 0 .. Len(Path[u]) : a.open = OpenTo(u, d)
  BY <1>0
<1>3. a = [open |-> a.open, held |-> a.held] /\ a.held \in [Writes -> Nat] /\ b \in Stages
  BY <1>1, StageIs, StageAt
<1>4. \/ rounds = << >> /\ i = u /\ d = L
      \/ \E first \in 1 .. L : /\ rounds = [r \in 1 .. L - first + 1 |-> OpenTo(i, first + r - 1)]
                               /\ Leads(OpenTo(u, d), i, first)
  BY <1>2, StagedRounds
<1> HIDE DEF rounds
<1>5. ASSUME rounds = << >>, i = u, d = L
      PROVE  OpenedBy(a.open, rounds) = b.open /\ Leading(RoundsFrom(a.open, rounds), a, b)
  <2>1. a = b /\ OpenedBy(a.open, rounds) = b.open
    BY <1>2, <1>3, <1>5 DEF OpenedBy
  <2>2. RoundsFrom(a.open, << >>) = << >>
    BY DEF RoundsFrom
  <2> QED BY <1>5, <2>1, <2>2, LeadNone
<1>6. ASSUME NEW first \in 1 .. L, rounds = [r \in 1 .. L - first + 1 |-> OpenTo(i, first + r - 1)],
             Leads(OpenTo(u, d), i, first)
      PROVE  OpenedBy(a.open, rounds) = b.open /\ Leading(RoundsFrom(a.open, rounds), a, b)
  <2> DEFINE n == L - first + 1
             p == RoundsFrom(a.open, rounds)
             t == [k \in 0 .. n |-> IF k = 0 THEN a
                                    ELSE [open |-> OpenTo(i, first + k - 1), held |-> a.held]]
  <2>1. n \in Nat \ {0} /\ DOMAIN rounds = 1 .. n /\ \A k \in 1 .. n : first + k - 1 \in 1 .. L
    BY <1>1, <1>6
  <2>2. \A k \in 1 .. n : rounds[k] = OpenTo(i, first + k - 1)
    BY <1>6
  <2> HIDE DEF n
  <2>3. Len(rounds) = n /\ rounds # << >> /\ rounds[n] = OpenTo(i, L)
    <3>1. first + n - 1 = L /\ n \in 1 .. n
      BY <1>1, <1>6, <2>1 DEF n
    <3>2. rounds[n] = OpenTo(i, L)
      BY <2>2, <3>1
    <3>3. Len(rounds) = n /\ rounds # << >>
      <4>1. rounds = [k \in 1 .. n |-> rounds[k]]
        BY <1>6, <2>1
      <4>2. \A k \in 1 .. n : rounds[k] \in {rounds[j] : j \in 1 .. n}
        OBVIOUS
      <4>3. rounds \in Seq({rounds[j] : j \in 1 .. n}) /\ Len(rounds) = n
        BY <2>1, <4>1, <4>2, FunctionIsSeq
      <4> QED BY <2>1, <4>3
    <3> QED BY <3>2, <3>3
  <2>4. OpenedBy(a.open, rounds) = b.open
    BY <2>3 DEF OpenedBy
  <2>5. p \in Seq({p[k] : k \in 1 .. n}) /\ Len(p) = n
    <3>1. p = [k \in 1 .. n |-> p[k]]
      BY <2>1 DEF RoundsFrom
    <3>2. \A k \in 1 .. n : p[k] \in {p[j] : j \in 1 .. n}
      OBVIOUS
    <3> HIDE DEF p
    <3> QED BY <2>1, <3>1, <3>2, FunctionIsSeq
  <2>6. \A k \in 1 .. n : first + k - 1 \in 0 .. L
    BY <1>1, <2>1
  <2>7. \A k \in 1 .. n : [open |-> OpenTo(i, first + k - 1), held |-> a.held] \in Stages
    BY <1>3, <2>6, StageAt
  <2>8. t \in [0 .. n -> Stages]
    <3>1. \A k \in 0 .. n : k = 0 \/ k \in 1 .. n
      BY <2>1
    <3> HIDE DEF Stages
    <3> QED BY <2>7, <3>1
  <2>9. /\ t[0] = a
        /\ \A k \in 1 .. n : t[k].open = OpenTo(i, first + k - 1) /\ t[k].held = a.held
        /\ t[n] = b
    <3>1. 0 \in 0 .. n /\ n \in 0 .. n /\ n # 0 /\ first + n - 1 = L /\ \A k \in 1 .. n : k \in 0 .. n /\ k # 0
      BY <1>1, <1>6, <2>1 DEF n
    <3> QED BY <3>1
  <2> HIDE DEF t
  <2>10. ASSUME NEW k \in 1 .. n PROVE Emitted(p[k], t[k - 1], t[k])
    <3> DEFINE e == first + k - 1
               prior == IF k = 1 THEN a.open ELSE rounds[k - 1]
    <3>1. /\ e \in 1 .. L /\ k \in DOMAIN rounds /\ rounds[k] = OpenTo(i, e)
          /\ t[k].open = OpenTo(i, e) /\ t[k].held = a.held
      BY <2>1, <2>2, <2>9
    <3>2. t[k - 1].held = a.held /\ t[k - 1].open = prior /\ Leads(prior, i, e)
      <4>1. CASE k = 1
        BY <1>2, <1>6, <2>9, <4>1
      <4>2. CASE k # 1
        <5>1. k - 1 \in 1 .. n /\ first + (k - 1) - 1 = e - 1 /\ e - 1 \in 1 .. L - 1 /\ (e - 1) + 1 = e
          BY <1>1, <1>6, <2>1, <4>2
        <5>2. rounds[k - 1] = OpenTo(i, e - 1) /\ t[k - 1].open = OpenTo(i, e - 1) /\ t[k - 1].held = a.held
          BY <2>2, <2>9, <5>1
        <5>3. Leads(OpenTo(i, e - 1), i, (e - 1) + 1)
          BY <1>1, <5>1, LeadsOn
        <5> QED BY <4>2, <5>1, <5>2, <5>3
      <4> QED BY <4>1, <4>2
    <3>3. p[k] = ShiftDR(layout_bit_length(prior), Reverse(compose_bits(prior, rounds[k], NoScope, 0)),
                         << >>, NoAccess)
      BY <3>1 DEF RoundsFrom
    <3> HIDE DEF p, e, prior
    <3> QED BY <3>1, <3>2, <3>3 DEF Emitted, OpensNext
  <2> HIDE DEF p, b, Stages, Emitted
  <2> QED BY <2>4, <2>5, <2>8, <2>9, <2>10 DEF Leading, Ways!Passage, StepOf, p
<1>7. OpenedBy(a.open, rounds) = b.open /\ b \in Stages /\ Leading(RoundsFrom(a.open, rounds), a, b)
  BY <1>3, <1>4, <1>5, <1>6
<1> HIDE DEF b, Stages
<1> QED BY <1>7, Zenon DEF rounds, b

----------------------------------------------------------------------------
(* Edits.  A field write is a change of some bits of a number, whatever it  *)
(* is above the instrument's width.                                         *)

\* A number in parts: what is above a field and its register, the register's
\* own bits above the field, the field, and what is below it.
InParts(A, S, R, q, x, y, z) ==
  LET AS == A * S
      P == AS * R
      r == (AS * x + A * y) + z
  IN  /\ AS \in Nat \ {0} /\ P \in Nat \ {0} /\ r \in 0 .. P - 1
      /\ P * q + r = A * (S * (R * q + x) + y) + z
      /\ (P * q + r) % P = r
      /\ r \div AS = x /\ r % A = z

\* Splitting a number at both ends of the field and joining it again.
LEMMA NumberInParts ==
  ASSUME NEW A \in Nat \ {0}, NEW S \in Nat \ {0}, NEW R \in Nat \ {0},
         NEW q \in Nat, NEW x \in 0 .. R - 1, NEW y \in 0 .. S - 1, NEW z \in 0 .. A - 1
  PROVE  InParts(A, S, R, q, x, y, z)
<1> DEFINE AS == A * S
           P == AS * R
           r == (AS * x + A * y) + z
<1>1. AS \in Nat \ {0} /\ P \in Nat \ {0}
  <2>1. \A a \in Nat \ {0} : \A b \in Nat \ {0} : a * b \in Nat \ {0}
    OBVIOUS
  <2> QED BY <2>1
<1>2. A * y + z \in 0 .. AS - 1
  <2>1. A * y \in Nat /\ A * y + A <= AS
    <3>1. A * y + A = A * (y + 1) /\ y + 1 <= S
      OBVIOUS
    <3>2. \A a \in Nat : \A b \in Nat : \A c \in Nat : b <= c => a * b <= a * c /\ a * b \in Nat
      OBVIOUS
    <3> QED BY <3>1, <3>2
  <2> QED BY <1>1, <2>1
<1>3. AS * x \in Nat /\ AS * x + AS <= P
  <2> HIDE DEF AS
  <2>1. AS * x + AS = AS * (x + 1) /\ x + 1 <= R
    BY <1>1
  <2>2. \A a \in Nat : \A b \in Nat : \A c \in Nat : b <= c => a * b <= a * c /\ a * b \in Nat
    OBVIOUS
  <2> QED BY <1>1, <2>1, <2>2
<1>4. r \in 0 .. P - 1
  <2>1. PICK f \in 0 .. AS - 1 : f = A * y + z
    BY <1>2
  <2>2. PICK g \in Nat : g = AS * x /\ g + AS <= P
    BY <1>3
  <2>3. r = g + f
    BY <2>1, <2>2
  <2> HIDE DEF r, AS, P
  <2> QED BY <1>1, <2>1, <2>2, <2>3
<1>5. P * q + r = A * (S * (R * q + x) + y) + z
  OBVIOUS
<1>6. (P * q + r) % P = r
  <2> HIDE DEF P, r
  <2> QED BY <1>1, <1>4, DivModUnique
<1>7. r \div AS = x
  <2>1. r = AS * x + (A * y + z)
    OBVIOUS
  <2>2. PICK f \in 0 .. AS - 1 : f = A * y + z
    BY <1>2
  <2>3. r = AS * x + f
    BY <2>1, <2>2
  <2> HIDE DEF r, AS
  <2> QED BY <1>1, <2>3, DivModUnique
<1>8. r % A = z
  <2>1. PICK c \in Nat : c = S * x + y
    OBVIOUS
  <2>2. r = A * c + z
    BY <2>1
  <2> HIDE DEF r
  <2> QED BY <2>2, DivModUnique
<1> QED BY <1>1, <1>4, <1>5, <1>6, <1>7, <1>8 DEF InParts

\* Replacing the field does the same to the register's bits of the number.
Replaces(A, S, R, current, v) ==
  LET AS == A * S
      P == AS * R
      field == (current \div A) % S
      merged == (current - field * A) + v * A
      r == current % P
  IN  /\ merged \in Nat
      /\ merged % P = ((r \div AS) * AS + v * A) + (r % A)

\* _set_bit_range on a number is an edit of the register it is cut to.
LEMMA FieldOfNumber ==
  ASSUME NEW A \in Nat \ {0}, NEW S \in Nat \ {0}, NEW R \in Nat \ {0},
         NEW current \in Nat, NEW v \in 0 .. S - 1
  PROVE  Replaces(A, S, R, current, v)
<1> DEFINE AS == A * S
           P == AS * R
           c == current \div A
           y == c % S
           z == current % A
           d == c \div S
           x == d % R
           q == d \div R
           merged == (current - y * A) + v * A
           r == (AS * x + A * y) + z
           w == (AS * x + A * v) + z
<1>1. c \in Nat /\ z \in 0 .. A - 1 /\ current = A * c + z
  BY DivMod
<1>2. d \in Nat /\ y \in 0 .. S - 1 /\ c = S * d + y
  <2> HIDE DEF c
  <2> QED BY <1>1, DivMod
<1>3. q \in Nat /\ x \in 0 .. R - 1 /\ d = R * q + x
  <2> HIDE DEF d
  <2> QED BY <1>2, DivMod
<1> HIDE DEF c, z, d, y, x, q
<1>0. InParts(A, S, R, q, x, y, z) /\ InParts(A, S, R, q, x, v, z)
  BY <1>1, <1>2, <1>3, NumberInParts
<1>4. /\ AS \in Nat \ {0} /\ P \in Nat \ {0} /\ r \in 0 .. P - 1
      /\ P * q + r = A * (S * (R * q + x) + y) + z
      /\ (P * q + r) % P = r
      /\ r \div AS = x /\ r % A = z
  BY <1>0, Zenon DEF InParts
<1>5. /\ w \in 0 .. P - 1
      /\ P * q + w = A * (S * (R * q + x) + v) + z
      /\ (P * q + w) % P = w
  BY <1>0, Zenon DEF InParts
<1>6. current = P * q + r
  BY <1>1, <1>2, <1>3, <1>4
<1>7. current % P = r
  BY <1>4, <1>6
<1>8. merged = P * q + w
  <2>1. PICK pq \in Nat : pq = P * q
    <3>1. \A a \in Nat : \A b \in Nat : a * b \in Nat
      OBVIOUS
    <3> HIDE DEF P
    <3> QED BY <1>3, <1>4, <3>1
  <2>2. PICK ax \in Nat : ax = AS * x
    <3>1. \A a \in Nat : \A b \in Nat : a * b \in Nat
      OBVIOUS
    <3> HIDE DEF AS
    <3> QED BY <1>3, <1>4, <3>1
  <2>3. PICK ay \in Nat, av \in Nat : ay = A * y /\ av = A * v /\ y * A = ay /\ v * A = av
    BY <1>2
  <2>4. current = pq + ((ax + ay) + z)
    BY <1>6, <2>1, <2>2, <2>3
  <2>5. merged = (current - ay) + av
    BY <2>3
  <2>6. P * q + w = pq + ((ax + av) + z)
    BY <2>1, <2>2, <2>3
  <2> HIDE DEF merged, P, w
  <2> QED BY <1>1, <2>4, <2>5, <2>6
<1>9. merged \in Nat
  <2>1. P * q \in Nat
    <3>1. \A a \in Nat : \A b \in Nat : a * b \in Nat
      OBVIOUS
    <3> HIDE DEF P
    <3> QED BY <1>3, <1>4, <3>1
  <2> HIDE DEF merged, P, w
  <2> QED BY <1>5, <1>8, <2>1
<1>10. w = (x * AS + v * A) + z
  <2>1. AS * x = x * AS /\ A * v = v * A
    <3>1. \A a \in Nat : \A b \in Nat : a * b = b * a
      OBVIOUS
    <3> HIDE DEF AS
    <3> QED BY <1>3, <1>4, <3>1
  <2> HIDE DEF AS
  <2> QED BY <2>1
<1>11. merged % P = ((r \div AS) * AS + v * A) + (r % A)
  <2> HIDE DEF merged, P, r, AS, w
  <2> QED BY <1>4, <1>5, <1>8, <1>10
<1>12. merged % P = (((current % P) \div AS) * AS + v * A) + ((current % P) % A)
  <2> HIDE DEF merged, P, r, AS
  <2> QED BY <1>7, <1>11
<1> QED BY <1>9, <1>12 DEF Replaces, c, y

\* A field write merged into a pending or committed value is the edit of the
\* register's bits.
LEMMA MergedField ==
  ASSUME NEW W \in Nat, NEW low \in Nat, NEW high \in Nat, low <= high, high < W,
         NEW current \in Nat, NEW value \in Nat
  PROVE  LET merged == SetBitRange(current, low, high, value) IN
         /\ merged \in Nat
         /\ merged % Pow2[W] =
              File!Edited(current % Pow2[W], [low |-> low, high |-> high, value |-> value])
<1> DEFINE A == Pow2[low]  S == Pow2[high - low + 1]  R == Pow2[W - high - 1]
           v == value % S
<1>1. high - low + 1 \in Nat /\ W - high - 1 \in Nat
      /\ (low + (high - low + 1)) + (W - high - 1) = W /\ low + (high - low + 1) \in Nat
  OBVIOUS
<1>2. A \in Nat \ {0} /\ S \in Nat \ {0} /\ R \in Nat \ {0}
  BY <1>1, Pow2Is
<1>3. (A * S) * R = Pow2[W]
  <2>1. Pow2[low + (high - low + 1)] = A * S
    BY <1>1, Pow2Add
  <2>2. Pow2[(low + (high - low + 1)) + (W - high - 1)] = Pow2[low + (high - low + 1)] * R
    BY <1>1, Pow2Add
  <2> QED BY <1>1, <2>1, <2>2
<1>4. v \in 0 .. S - 1
  <2> HIDE DEF S
  <2> QED BY <1>2
<1> DEFINE r == current % ((A * S) * R)
           field == (current \div A) % S
           merged == (current - field * A) + v * A
<1>5. merged \in Nat /\ merged % ((A * S) * R) = ((r \div (A * S)) * (A * S) + v * A) + (r % A)
  <2>1. Replaces(A, S, R, current, v)
    <3> HIDE DEF A, S, R, v
    <3> QED BY <1>2, <1>4, FieldOfNumber
  <2> HIDE DEF A, S, R, v
  <2> QED BY <2>1, Zenon DEF Replaces
<1>6. SetBitRange(current, low, high, value) = merged
  BY DEF SetBitRange
<1>7. File!Edited(r, [low |-> low, high |-> high, value |-> value])
        = ((r \div (A * S)) * (A * S) + v * A) + (r % A)
  BY DEF File!Edited, File!Pow2, Pow2
<1> HIDE DEF A, S, R, v, merged
<1> QED BY <1>3, <1>5, <1>6, <1>7

\* A whole-instrument write is the edit of all of them.
LEMMA WholeWrite ==
  ASSUME NEW W \in Nat \ {0}, NEW x \in 0 .. Pow2[W] - 1, NEW value \in Nat
  PROVE  File!Edited(x, [low |-> 0, high |-> W - 1, value |-> value]) = value % Pow2[W]
<1> DEFINE P == Pow2[W]
<1>1. P \in Nat \ {0} /\ Pow2[0] = 1 /\ (W - 1) - 0 + 1 = W /\ x \in 0 .. P - 1
  BY Pow2Is
<1>2. File!Edited(x, [low |-> 0, high |-> W - 1, value |-> value])
        = ((x \div (1 * P)) * (1 * P) + (value % P) * 1) + (x % 1)
  BY <1>1 DEF File!Edited, File!Pow2, Pow2
<1>3. x \div P = 0
  <2>1. x = P * 0 + x
    BY <1>1
  <2> HIDE DEF P
  <2> QED BY <1>1, <2>1, DivModUnique
<1>4. value % P \in Nat /\ x % 1 = 0 /\ 1 * P = P /\ 0 * P = 0
  BY <1>1
<1> HIDE DEF P
<1>5. File!Edited(x, [low |-> 0, high |-> W - 1, value |-> value]) = value % P
  BY <1>1, <1>2, <1>3, <1>4
<1> QED BY <1>5 DEF P

EditBase(value) == value
EditStep(value, acc, e) == File!Edited(acc, e)
EditFold == INSTANCE InductionLemmas WITH FoldBase <- EditBase, FoldStep <- EditStep

\* Edits are made one after the other.
LEMMA EditsFold ==
  ASSUME NEW value
  PROVE  /\ File!AfterEdits(value, << >>) = value
         /\ \A S : \A changes \in Seq(S) : \A e \in S :
              File!AfterEdits(value, Append(changes, e)) = File!Edited(File!AfterEdits(value, changes), e)
<1>1. \A t : File!AfterEdits(value, t) = EditFold!Fold(value, t)
  BY DEF File!AfterEdits, File!FoldLeft, File!MapThenFoldSet, File!Max, EditBase, EditStep,
         EditFold!Fold, EditFold!FoldLeft, EditFold!MapThenFoldSet, EditFold!Max
<1>2. File!AfterEdits(value, << >>) = EditBase(value)
  BY <1>1, EditFold!FoldEmpty
<1>3. ASSUME NEW S, NEW changes \in Seq(S), NEW e \in S
      PROVE  File!AfterEdits(value, Append(changes, e)) = EditStep(value, File!AfterEdits(value, changes), e)
  BY <1>1, EditFold!FoldAppend
<1> QED BY <1>2, <1>3 DEF EditBase, EditStep

(***************************************************************************)
(* The invariant.  That the network is where the interpreter believes it   *)
(* once nothing is left to play is not inductive: what is left to play     *)
(* must lead there from where the network is.  And a payload is what the   *)
(* edits behind it make of the value committed before them.                *)
(***************************************************************************)
Committed(w) == GetOr(committedWrites, w, 0) % Pow2[Width[w]]

Believed == [open |-> currentlyOpen, held |-> [w \in Writes |-> Committed(w)]]
Physical(open) == [open |-> open, held |-> [w \in Writes |-> po[w]]]

ReadOf(s, r) ==
  r \in File!Edit /\ r.low <= r.high /\ (s \in Instruments => r.high < Width[s])

PdlTypes ==
  /\ scope \in Scopes \cup {NoScope}
  /\ \A s \in DOMAIN pendingWrites : pendingWrites[s] \in Nat
  /\ \A s \in DOMAIN pendingReads : ReadOf(s, pendingReads[s])
  /\ \A w \in DOMAIN committedWrites : committedWrites[w] \in Nat
  /\ edits \in [Scopes -> Seq(File!Edit)]
  /\ DOMAIN po = Latched

EditsBehind ==
  \A w \in Writes :
    IF w \in DOMAIN pendingWrites
      THEN pendingWrites[w] % Pow2[Width[w]] = File!AfterEdits(Committed(w), edits[w])
      ELSE edits[w] = << >>

OnTheWay ==
  /\ Believed \in Stages
  /\ \E open : /\ Physical(open) \in Stages /\ Carries(po, open)
               /\ Leading(program, Physical(open), Believed)

PdlInv == PdlTypes /\ EditsBehind /\ OnTheWay

\* Facts about widths.
LEMMA WritesFit ==
  ASSUME NEW w \in Writes
  PROVE  /\ w \in Instruments /\ w \in Units /\ w \in Scopes /\ w \in Latched /\ w \notin OtherScopes
         /\ Width[w] \in Nat \ {0} /\ Pow2[Width[w]] \in Nat \ {0}
<1>1. w \in Instruments /\ w \in Units /\ w \in Latched /\ w \in Scopes /\ w \notin OtherScopes
  BY NetworkAssumption, PdlAssumption DEF ValidPhysicalGraph, Units, Latched, Scopes
<1>2. Width[w] \in Nat \ {0}
  BY <1>1, CellsOfUnit
<1> QED BY <1>1, <1>2, Pow2Is

\* What is committed is a number that fits.
LEMMA CommittedFits ==
  ASSUME PdlTypes, NEW w \in Writes
  PROVE  GetOr(committedWrites, w, 0) \in Nat /\ Committed(w) \in 0 .. Pow2[Width[w]] - 1
<1>1. GetOr(committedWrites, w, 0) \in Nat
  BY DEF PdlTypes, GetOr
<1>2. Pow2[Width[w]] \in Nat \ {0}
  BY WritesFit
<1> QED BY <1>1, <1>2 DEF Committed

\* Nothing has been applied.
LEMMA InitPdl == ASSUME Init PROVE PdlInv
<1>1. PdlTypes
  <2>1. << >> \in Seq(File!Edit)
    OBVIOUS
  <2>2. \A x : x \notin DOMAIN << >>
    OBVIOUS
  <2> QED BY <2>1, <2>2 DEF Init, PdlInit, PdlTypes, PoZero
<1>2. EditsBehind
  <2>1. \A w \in Writes : w \in Scopes
    BY WritesFit
  <2>2. \A x : x \notin DOMAIN << >>
    OBVIOUS
  <2> QED BY <2>1, <2>2 DEF Init, PdlInit, EditsBehind
<1>3. Believed = Physical(<< >>) /\ Believed \in Stages
  <2>1. \A w \in Writes : Committed(w) = 0 /\ po[w] = 0
    <3> SUFFICES ASSUME NEW w \in Writes PROVE Committed(w) = 0 /\ po[w] = 0
      OBVIOUS
    <3>1. w \in Latched /\ Pow2[Width[w]] \in Nat \ {0}
      BY WritesFit
    <3>2. 0 % Pow2[Width[w]] = 0
      BY <3>1
    <3>3. \A x : x \notin DOMAIN << >>
      OBVIOUS
    <3> QED BY <3>1, <3>2, <3>3 DEF Init, PdlInit, PoZero, Committed, GetOr
  <2>2. currentlyOpen = << >>
    BY DEF Init, PdlInit
  <2> QED BY <2>1, <2>2 DEF Believed, Physical, Stages
<1>4. Carries(po, << >>)
  BY DEF Init, PoZero, Carries, Latched
<1>5. Leading(program, Physical(<< >>), Believed)
  <2> HIDE DEF Stages
  <2>1. program = << >>
    BY DEF Init, PdlInit
  <2> QED BY <1>3, <2>1, LeadNone
<1> QED BY <1>1, <1>2, <1>3, <1>4, <1>5 DEF PdlInv, OnTheWay

\* A command that emits nothing leaves the way as it is.
LEMMA SameWay ==
  ASSUME OnTheWay, UNCHANGED <<program, currentlyOpen, committedWrites, po>>
  PROVE  OnTheWay'
<1>1. Believed' = Believed
  BY DEF Believed, Committed
<1>2. \A open : Physical(open)' = Physical(open)
  BY DEF Physical
<1> HIDE DEF Stages
<1> QED BY <1>1, <1>2 DEF OnTheWay

\* Nothing happens.
LEMMA StutterPdl == ASSUME PdlInv, UNCHANGED vars PROVE PdlInv'
<1>1. OnTheWay'
  BY SameWay DEF PdlInv, vars, pdlVars
<1>2. PdlTypes'
  BY DEF PdlInv, vars, pdlVars, PdlTypes
<1>3. EditsBehind'
  BY DEF PdlInv, vars, pdlVars, EditsBehind, Committed
<1> QED BY <1>1, <1>2, <1>3 DEF PdlInv

\* iTarget only changes the scope.
LEMMA TargetPdl == ASSUME PdlInv, NEW s \in Scopes, iTarget(s), UNCHANGED <<shift, po, verdict>> PROVE PdlInv'
<1>1. OnTheWay'
  BY SameWay DEF PdlInv, iTarget
<1>2. PdlTypes'
  BY DEF PdlInv, iTarget, PdlTypes
<1>3. EditsBehind'
  BY DEF PdlInv, iTarget, EditsBehind, Committed
<1> QED BY <1>1, <1>2, <1>3 DEF PdlInv

\* A pending write and the edit behind it.
LEMMA EditPdl ==
  ASSUME PdlInv, UNCHANGED <<scope, pendingReads, committedWrites, currentlyOpen, program, shift, po, verdict>>,
         scope \in Scopes, NEW v \in Nat, NEW e \in File!Edit,
         pendingWrites' = With(pendingWrites, scope, v),
         edits' = [edits EXCEPT ![scope] = Append(@, e)],
         scope \in Writes =>
           v % Pow2[Width[scope]] = File!Edited(File!AfterEdits(Committed(scope), edits[scope]), e)
  PROVE  PdlInv'
<1>1. OnTheWay'
  BY SameWay DEF PdlInv
<1>2. PdlTypes'
  <2>1. edits' \in [Scopes -> Seq(File!Edit)]
    BY DEF PdlInv, PdlTypes
  <2>2. \A s \in DOMAIN pendingWrites' : pendingWrites'[s] \in Nat
    BY DEF PdlInv, PdlTypes, With
  <2> QED BY <2>1, <2>2 DEF PdlInv, PdlTypes
<1>3. EditsBehind'
  <2> SUFFICES ASSUME NEW w \in Writes
               PROVE  IF w \in DOMAIN pendingWrites'
                        THEN pendingWrites'[w] % Pow2[Width[w]]
                               = File!AfterEdits(Committed(w), edits'[w])
                        ELSE edits'[w] = << >>
    BY DEF EditsBehind, Committed
  <2>0. w \in Scopes /\ edits \in [Scopes -> Seq(File!Edit)]
    BY WritesFit DEF PdlInv, PdlTypes
  <2>1. CASE w = scope
    <3>1. w \in DOMAIN pendingWrites' /\ pendingWrites'[w] = v /\ edits'[w] = Append(edits[w], e)
      BY <2>0, <2>1 DEF With
    <3>2. File!AfterEdits(Committed(w), Append(edits[w], e))
            = File!Edited(File!AfterEdits(Committed(w), edits[w]), e)
      <4>1. edits[w] \in Seq(File!Edit) /\ e \in File!Edit
        BY <2>0
      <4>2. \A x : \A S : \A changes \in Seq(S) : \A y \in S :
              File!AfterEdits(x, Append(changes, y)) = File!Edited(File!AfterEdits(x, changes), y)
        BY EditsFold
      <4> QED BY <4>1, <4>2, Zenon
    <3> QED BY <2>1, <3>1, <3>2
  <2>2. CASE w # scope
    <3>1. (w \in DOMAIN pendingWrites' <=> w \in DOMAIN pendingWrites) /\ edits'[w] = edits[w]
      BY <2>0, <2>2 DEF With
    <3>2. w \in DOMAIN pendingWrites => pendingWrites'[w] = pendingWrites[w]
      BY <2>2 DEF With
    <3> QED BY <3>1, <3>2 DEF PdlInv, EditsBehind
  <2> QED BY <2>1, <2>2
<1> QED BY <1>1, <1>2, <1>3 DEF PdlInv

\* A whole write is the one edit its payload needs.
LEMMA WritePdl ==
  ASSUME PdlInv, NEW value \in WriteValues, iWrite(value), UNCHANGED <<shift, po, verdict>>
  PROVE  PdlInv'
<1> DEFINE e == [low |-> 0, value |-> value, high |-> IF scope \in Instruments THEN Width[scope] - 1 ELSE 0]
<1>1. scope \in Scopes /\ value \in Nat
  BY PdlAssumption DEF PdlInv, PdlTypes, iWrite
<1>2. e \in File!Edit
  <2>1. scope \in Instruments => Width[scope] \in Nat \ {0}
    BY CellsOfUnit DEF Units
  <2> QED BY <1>1, <2>1 DEF File!Edit
<1>3. ASSUME scope \in Writes
      PROVE  value % Pow2[Width[scope]] = File!Edited(File!AfterEdits(Committed(scope), edits[scope]), e)
  <2>1. scope \in Instruments /\ Width[scope] \in Nat \ {0} /\ Pow2[Width[scope]] \in Nat \ {0}
    BY <1>3, WritesFit
  <2>2. File!AfterEdits(Committed(scope), edits[scope]) \in 0 .. Pow2[Width[scope]] - 1
    <3>1. CASE scope \in DOMAIN pendingWrites
      <4>1. pendingWrites[scope] \in Nat
        BY <3>1 DEF PdlInv, PdlTypes
      <4>2. pendingWrites[scope] % Pow2[Width[scope]] = File!AfterEdits(Committed(scope), edits[scope])
        BY <1>3, <3>1 DEF PdlInv, EditsBehind
      <4> QED BY <2>1, <4>1, <4>2
    <3>2. CASE scope \notin DOMAIN pendingWrites
      <4>1. edits[scope] = << >>
        BY <1>3, <3>2 DEF PdlInv, EditsBehind
      <4>2. Committed(scope) \in 0 .. Pow2[Width[scope]] - 1
        BY <1>3, CommittedFits DEF PdlInv
      <4> QED BY <4>1, <4>2, EditsFold
    <3> QED BY <3>1, <3>2
  <2>3. e = [low |-> 0, high |-> Width[scope] - 1, value |-> value]
    BY <2>1
  <2> HIDE DEF e
  <2> QED BY <1>1, <2>1, <2>2, <2>3, WholeWrite
<1>4. /\ UNCHANGED <<scope, pendingReads, committedWrites, currentlyOpen, program, shift, po, verdict>>
      /\ pendingWrites' = With(pendingWrites, scope, value)
      /\ edits' = [edits EXCEPT ![scope] = Append(@, e)]
  BY DEF iWrite
<1> HIDE DEF e
<1> QED BY <1>1, <1>2, <1>3, <1>4, EditPdl

\* A field write merges into what is pending, or what was last committed.
LEMMA WriteFieldPdl ==
  ASSUME PdlInv, NEW value \in WriteValues, NEW f, iWriteField(f, value), UNCHANGED <<shift, po, verdict>>
  PROVE  PdlInv'
<1> DEFINE e == [low |-> f.low, high |-> f.high, value |-> value]
           current == GetOr(pendingWrites, scope, GetOr(committedWrites, scope, 0))
           merged == SetBitRange(current, f.low, f.high, value)
<1>1. /\ scope \in Instruments /\ scope \in Scopes /\ value \in Nat
      /\ f.low \in Nat /\ f.high \in Nat /\ f.low <= f.high /\ f.high < Width[scope]
  <2>1. scope \in Instruments /\ f \in Fields[scope] /\ scope \in Scopes /\ value \in Nat
    BY PdlAssumption DEF iWriteField, Scopes
  <2>2. f \in [low : Nat, high : Nat] /\ f.low <= f.high /\ f.high < Width[scope]
    BY <2>1, PdlAssumption
  <2> QED BY <2>1, <2>2
<1>2. e \in File!Edit
  BY <1>1 DEF File!Edit
<1>3. Width[scope] \in Nat /\ current \in Nat
  <2>1. Width[scope] \in Nat
    BY <1>1, CellsOfUnit DEF Units
  <2>2. current \in Nat
    BY DEF PdlInv, PdlTypes, GetOr
  <2> QED BY <2>1, <2>2
<1>4. merged \in Nat /\ merged % Pow2[Width[scope]] = File!Edited(current % Pow2[Width[scope]], e)
  <2> HIDE DEF current
  <2> QED BY <1>1, <1>3, MergedField
<1>5. ASSUME scope \in Writes
      PROVE  current % Pow2[Width[scope]] = File!AfterEdits(Committed(scope), edits[scope])
  <2>1. CASE scope \in DOMAIN pendingWrites
    BY <1>5, <2>1 DEF PdlInv, EditsBehind, GetOr
  <2>2. CASE scope \notin DOMAIN pendingWrites
    <3>1. edits[scope] = << >> /\ current = GetOr(committedWrites, scope, 0)
      BY <1>5, <2>2 DEF PdlInv, EditsBehind, GetOr
    <3> QED BY <3>1, EditsFold DEF Committed
  <2> QED BY <2>1, <2>2
<1>6. /\ UNCHANGED <<scope, pendingReads, committedWrites, currentlyOpen, program, shift, po, verdict>>
      /\ pendingWrites' = With(pendingWrites, scope, merged)
      /\ edits' = [edits EXCEPT ![scope] = Append(@, e)]
  BY DEF iWriteField
<1> HIDE DEF e, merged, current
<1>7. scope \in Writes => merged % Pow2[Width[scope]] = File!Edited(File!AfterEdits(Committed(scope), edits[scope]), e)
  BY <1>4, <1>5
<1> QED BY <1>1, <1>2, <1>4, <1>6, <1>7, EditPdl

\* A pending read.
LEMMA ReadingPdl ==
  ASSUME PdlInv, NEW r, ReadOf(scope, r), pendingReads' = With(pendingReads, scope, r),
         UNCHANGED <<scope, pendingWrites, committedWrites, currentlyOpen, program, edits, shift, po, verdict>>
  PROVE  PdlInv'
<1>1. OnTheWay'
  BY SameWay DEF PdlInv
<1>2. PdlTypes'
  <2>1. \A s \in DOMAIN pendingReads' : ReadOf(s, pendingReads'[s])
    BY DEF PdlInv, PdlTypes, With
  <2> QED BY <2>1 DEF PdlInv, PdlTypes
<1>3. EditsBehind'
  BY DEF PdlInv, EditsBehind, Committed
<1> QED BY <1>1, <1>2, <1>3 DEF PdlInv

\* A read is within the instrument it asks.
LEMMA ReadPdl ==
  ASSUME PdlInv, NEW value \in ReadValues,
         iRead(value) \/ (\E f : iReadField(f, value)), UNCHANGED <<shift, po, verdict>>
  PROVE  PdlInv'
<1>0. value \in Nat
  BY PdlAssumption
<1>1. CASE iRead(value)
  <2> DEFINE r == [low |-> 0, high |-> IF scope \in Instruments THEN Width[scope] - 1 ELSE 0, value |-> value]
  <2>1. scope \in Instruments => Width[scope] \in Nat \ {0}
    BY CellsOfUnit DEF Units
  <2>2. ReadOf(scope, r)
    BY <1>0, <2>1 DEF ReadOf, File!Edit
  <2>3. /\ pendingReads' = With(pendingReads, scope, r)
        /\ UNCHANGED <<scope, pendingWrites, committedWrites, currentlyOpen, program, edits, shift, po, verdict>>
    BY <1>1 DEF iRead
  <2> HIDE DEF r
  <2> QED BY <2>2, <2>3, ReadingPdl
<1>2. ASSUME NEW f, iReadField(f, value) PROVE PdlInv'
  <2> DEFINE r == [low |-> f.low, high |-> f.high, value |-> value]
  <2>1. f \in [low : Nat, high : Nat] /\ f.low <= f.high /\ f.high < Width[scope]
    <3>1. scope \in Instruments /\ f \in Fields[scope]
      BY <1>2 DEF iReadField
    <3> QED BY <3>1, PdlAssumption
  <2>2. ReadOf(scope, r)
    BY <1>0, <2>1 DEF ReadOf, File!Edit
  <2>3. /\ pendingReads' = With(pendingReads, scope, r)
        /\ UNCHANGED <<scope, pendingWrites, committedWrites, currentlyOpen, program, edits, shift, po, verdict>>
    BY <1>2 DEF iReadField
  <2> HIDE DEF r
  <2> QED BY <2>2, <2>3, ReadingPdl
<1> QED BY <1>1, <1>2

\* A wait lengthens the way by a step that stays.
LEMMA RunLoopPdl == ASSUME PdlInv, iRunLoop, UNCHANGED <<shift, po, verdict>> PROVE PdlInv'
<1>1. PdlTypes'
  BY DEF PdlInv, iRunLoop, PdlTypes
<1>2. EditsBehind'
  BY DEF PdlInv, iRunLoop, EditsBehind, Committed
<1>3. Believed' = Believed /\ \A open : Physical(open)' = Physical(open)
  BY DEF iRunLoop, Believed, Committed, Physical
<1>4. PICK open : /\ Physical(open) \in Stages /\ Carries(po, open)
                  /\ Leading(program, Physical(open), Believed)
  BY DEF PdlInv, OnTheWay
<1>5. Believed \in Stages
  BY DEF PdlInv, OnTheWay
<1> HIDE DEF Stages
<1>6. Leading(program', Physical(open), Believed)
  <2> DEFINE op == [kind |-> "runtest"]
  <2>1. Emitted(op, Believed, Believed)
    BY DEF Emitted, Waits
  <2>2. program' = Append(program, op)
    BY DEF iRunLoop
  <2> HIDE DEF op
  <2>3. Leading(Append(program, op), Physical(open), Believed)
    BY <1>4, <1>5, <2>1, LeadAppend
  <2> QED BY <2>2, <2>3
<1>7. OnTheWay'
  <2>1. Carries(po', open)
    BY <1>4 DEF iRunLoop
  <2> QED BY <1>3, <1>4, <1>5, <1>6, <2>1 DEF OnTheWay
<1> QED BY <1>1, <1>2, <1>7 DEF PdlInv

\* iApply emits the rounds that open the instrument and the scan that delivers
\* its payload.
LEMMA ApplyPdl == ASSUME PdlInv, iApply, UNCHANGED <<shift, po, verdict>> PROVE PdlInv'
<1> DEFINE i == scope
           L == Len(Path[i])
           rounds == stage_open_sequence(AsMap(ToSet(open_path_to(i))), currentlyOpen)
           opened == OpenedBy(currentlyOpen, rounds)
           payload == Payload(i)
           expect == IF i \in DOMAIN pendingReads THEN ExpectedTdo(opened, i, pendingReads[i]) ELSE << >>
           access == [inst |-> i, edits |-> edits[i],
                      expects |-> IF i \in DOMAIN pendingReads THEN {pendingReads[i]} ELSE {}]
           phaseTwo == ShiftDR(layout_bit_length(opened),
                               Reverse(compose_bits(opened, opened, Gate(i).slot, payload)),
                               expect, access)
           b == [open |-> OpenTo(i, L), held |-> Believed.held]
           c == [open |-> OpenTo(i, L),
                 held |-> [w \in Writes |-> IF w = i THEN payload % Pow2[Width[i]] ELSE Believed.held[w]]]
<1>1. /\ scope \in Instruments
      /\ program' = program \o RoundsFrom(currentlyOpen, rounds) \o <<phaseTwo>>
      /\ currentlyOpen' = opened
      /\ committedWrites' = IF i \in Writes THEN With(committedWrites, i, payload) ELSE committedWrites
      /\ pendingWrites' = Without(pendingWrites, i) /\ pendingReads' = Without(pendingReads, i)
      /\ edits' = [edits EXCEPT ![i] = << >>] /\ scope' = scope
  BY DEF iApply, PhaseOne, RoundsFrom, OpenedBy
<1>2. i \in Scopes /\ L \in Nat /\ edits \in [Scopes -> Seq(File!Edit)]
  BY <1>1, GateStep DEF Scopes, Units, PdlInv, PdlTypes
<1>3. payload \in Nat
  BY DEF PdlInv, PdlTypes, Payload, GetOr
<1>4. Believed \in Stages /\ Believed.open = currentlyOpen
      /\ Believed.held = [w \in Writes |-> Committed(w)]
  BY DEF PdlInv, OnTheWay, Believed
<1>5. opened = OpenTo(i, L) /\ b \in Stages /\ Leading(RoundsFrom(currentlyOpen, rounds), Believed, b)
  <2> DEFINE a == Believed
             away == stage_open_sequence(AsMap(ToSet(open_path_to(i))), a.open)
  <2>1. a \in Stages
    BY <1>4
  <2> HIDE DEF a, Stages
  <2>2. /\ OpenedBy(a.open, away) = OpenTo(i, L)
        /\ [open |-> OpenTo(i, L), held |-> a.held] \in Stages
        /\ Leading(RoundsFrom(a.open, away), a, [open |-> OpenTo(i, L), held |-> a.held])
    BY <1>1, <2>1, RoundsLead
  <2>3. a.open = currentlyOpen
    BY <1>4 DEF a
  <2> HIDE DEF Believed
  <2> QED BY <2>2, <2>3 DEF a
<1>6. c \in Stages
  <2>1. Believed.held \in [Writes -> Nat]
    BY <1>4 DEF Stages
  <2>2. \A w \in Writes : w = i => payload % Pow2[Width[i]] \in Nat
    BY <1>3, WritesFit
  <2> DEFINE held == [w \in Writes |-> IF w = i THEN payload % Pow2[Width[i]] ELSE Believed.held[w]]
  <2>3. held \in [Writes -> Nat]
    BY <2>1, <2>2
  <2>4. L \in 0 .. Len(Path[i])
    BY <1>2
  <2> HIDE DEF held
  <2> QED BY <1>1, <2>3, <2>4, StageAt DEF held
<1>7. /\ PdlTypes'
      /\ \A w \in Writes : Committed(w)' = IF w = i THEN payload % Pow2[Width[w]] ELSE Committed(w)
  <2> HIDE DEF payload, rounds, phaseTwo, opened
  <2>1. \A w \in DOMAIN committedWrites' : committedWrites'[w] \in Nat
    BY <1>1, <1>3 DEF PdlInv, PdlTypes, With
  <2>2. \A s \in DOMAIN pendingWrites' : pendingWrites'[s] \in Nat
    BY <1>1 DEF PdlInv, PdlTypes, Without
  <2>3. \A s \in DOMAIN pendingReads' : ReadOf(s, pendingReads'[s])
    BY <1>1 DEF PdlInv, PdlTypes, Without
  <2>4. edits' \in [Scopes -> Seq(File!Edit)]
    BY <1>1, <1>2
  <2>5. PdlTypes'
    BY <1>1, <2>1, <2>2, <2>3, <2>4 DEF PdlInv, PdlTypes
  <2>6. ASSUME NEW w \in Writes
        PROVE  Committed(w)' = IF w = i THEN payload % Pow2[Width[w]] ELSE Committed(w)
    <3>1. GetOr(committedWrites', w, 0) = IF w = i THEN payload ELSE GetOr(committedWrites, w, 0)
      BY <1>1 DEF With, GetOr
    <3> QED BY <3>1 DEF Committed
  <2> QED BY <2>5, <2>6
<1>8. EditsBehind'
  <2> HIDE DEF payload, rounds, phaseTwo, opened
  <2> SUFFICES ASSUME NEW w \in Writes
               PROVE  IF w \in DOMAIN pendingWrites'
                        THEN pendingWrites'[w] % Pow2[Width[w]]
                               = File!AfterEdits(Committed(w)', edits'[w])
                        ELSE edits'[w] = << >>
    BY DEF EditsBehind
  <2>0. w \in Scopes
    BY WritesFit
  <2>1. CASE w = i
    BY <1>1, <1>2, <2>1 DEF Without
  <2>2. CASE w # i
    <3>1. (w \in DOMAIN pendingWrites' <=> w \in DOMAIN pendingWrites) /\ edits'[w] = edits[w]
      BY <1>1, <1>2, <2>0, <2>2 DEF Without
    <3>2. w \in DOMAIN pendingWrites => pendingWrites'[w] = pendingWrites[w]
      BY <1>1, <2>2 DEF Without
    <3>3. Committed(w)' = Committed(w)
      BY <1>7, <2>2
    <3> QED BY <3>1, <3>2, <3>3 DEF PdlInv, EditsBehind
  <2> QED BY <2>1, <2>2
<1>9. Believed' = c
  <2> HIDE DEF payload, rounds, phaseTwo, opened
  <2>1. Believed' = [open |-> opened, held |-> [w \in Writes |-> Committed(w)']]
    BY <1>1 DEF Believed
  <2>2. \A w \in Writes : Committed(w)' = c.held[w]
    BY <1>4, <1>7
  <2> QED BY <1>5, <2>1, <2>2
<1>10. Asks(access, expect, b.open, i, b.held, payload)
  <2>1. access.inst = i /\ access # NoAccess /\ access.edits = edits[i] /\ access.edits \in Seq(File!Edit)
    BY <1>2 DEF NoAccess
  <2>2. ASSUME i \in Writes
        PROVE  File!AfterEdits(b.held[i], access.edits) = payload % Pow2[Width[i]]
    <3>1. b.held[i] = Committed(i) /\ access.edits = edits[i]
      BY <1>4, <2>2
    <3> HIDE DEF b, access
    <3>2. CASE i \in DOMAIN pendingWrites
      <4>1. payload = pendingWrites[i]
        BY <3>2 DEF Payload
      <4> QED BY <2>2, <3>1, <3>2, <4>1 DEF PdlInv, EditsBehind
    <3>3. CASE i \notin DOMAIN pendingWrites
      <4>1. payload = GetOr(committedWrites, i, 0) /\ edits[i] = << >>
        BY <2>2, <3>3 DEF Payload, PdlInv, EditsBehind
      <4>2. File!AfterEdits(Committed(i), << >>) = Committed(i)
        BY EditsFold
      <4> QED BY <3>1, <4>1, <4>2 DEF Committed
    <3> QED BY <3>2, <3>3
  <2>3. \/ access.expects = {} /\ expect = << >>
        \/ \E r \in File!Edit : /\ r.low <= r.high /\ r.high < Width[i]
                                /\ access.expects = {r} /\ expect = ExpectedTdo(b.open, i, r)
    <3>1. CASE i \notin DOMAIN pendingReads
      BY <3>1
    <3>2. CASE i \in DOMAIN pendingReads
      <4>1. ReadOf(i, pendingReads[i])
        BY <3>2 DEF PdlInv, PdlTypes
      <4>2. access.expects = {pendingReads[i]} /\ expect = ExpectedTdo(b.open, i, pendingReads[i])
        BY <1>5, <3>2
      <4> QED BY <1>1, <4>1, <4>2 DEF ReadOf
    <3> QED BY <3>1, <3>2
  <2> HIDE DEF access, expect, b, payload
  <2> QED BY <2>1, <2>2, <2>3 DEF Asks
<1>11. Delivers(phaseTwo, b, c)
  <2>1. b.open = OpenTo(i, L) /\ c.open = b.open /\ b.held = Believed.held
        /\ c.held = [w \in Writes |-> IF w = i THEN payload % Pow2[Width[i]] ELSE b.held[w]]
    OBVIOUS
  <2>2. phaseTwo = ShiftDR(layout_bit_length(b.open),
                           Reverse(compose_bits(b.open, b.open, Gate(i).slot, payload)), expect, access)
    BY <1>5
  <2> HIDE DEF access, expect, b, c, payload, phaseTwo, opened
  <2> QED BY <1>1, <1>3, <1>10, <2>1, <2>2 DEF Delivers
<1>12. PICK open : /\ Physical(open) \in Stages /\ Carries(po, open)
                   /\ Leading(program, Physical(open), Believed)
  BY DEF PdlInv, OnTheWay
<1>13. Leading(program', Physical(open), c)
  <2> DEFINE one == RoundsFrom(currentlyOpen, rounds)
  <2>1. program' = (program \o one) \o <<phaseTwo>>
    BY <1>1
  <2>2. Emitted(phaseTwo, b, c)
    BY <1>11 DEF Emitted
  <2>3. Leading(one, Believed, b)
    BY <1>5
  <2> HIDE DEF one, phaseTwo, b, c, Stages, Believed, Physical
  <2>4. Leading(program \o one, Physical(open), b)
    BY <1>12, <2>3, LeadMore
  <2>5. Leading((program \o one) \o <<phaseTwo>>, Physical(open), c)
    BY <1>5, <1>6, <1>12, <2>2, <2>4, LeadAppend
  <2> QED BY <2>1, <2>5
<1>14. OnTheWay'
  <2>1. Carries(po', open) /\ Physical(open)' = Physical(open)
    BY <1>12 DEF Physical
  <2> HIDE DEF c, Stages, Physical
  <2> QED BY <1>6, <1>9, <1>12, <1>13, <2>1 DEF OnTheWay
<1> QED BY <1>7, <1>8, <1>14 DEF PdlInv

\* What opens or delivers is a scan.
LEMMA ScansAreShifts ==
  ASSUME NEW op, NEW a, NEW b, OpensNext(op, a, b) \/ Delivers(op, a, b)
  PROVE  op.kind = "shift"
<1>1. \A bits, tdi, expect, access : ShiftDR(bits, tdi, expect, access).kind = "shift"
  BY DEF ShiftDR
<1> HIDE DEF ShiftDR
<1>2. CASE OpensNext(op, a, b)
  <2>1. \E bits, tdi, expect, access : op = ShiftDR(bits, tdi, expect, access)
    BY <1>2, Zenon DEF OpensNext
  <2> QED BY <1>1, <2>1
<1>3. CASE Delivers(op, a, b)
  <2>1. \E bits, tdi, expect, access : op = ShiftDR(bits, tdi, expect, access)
    BY <1>3, Zenon DEF Delivers
  <2> QED BY <1>1, <2>1
<1> QED BY <1>2, <1>3

\* The network and the registers it is played from.
Played == [shift |-> shift, po |-> po]

\* The first operation, and the way that is left after it.
LEMMA FirstOp ==
  ASSUME PdlInv, program # << >>
  PROVE  \E open : \E b \in Stages :
           /\ Physical(open) \in Stages /\ Carries(po, open)
           /\ Emitted(program[1], Physical(open), b) /\ Leading(Tail(program), b, Believed)
<1> HIDE DEF Stages, Emitted
<1>1. PICK open : /\ Physical(open) \in Stages /\ Carries(po, open)
                  /\ Leading(program, Physical(open), Believed)
  BY DEF PdlInv, OnTheWay
<1>2. \E b \in Stages : Emitted(program[1], Physical(open), b) /\ Leading(Tail(program), b, Believed)
  BY <1>1, LeadTail
<1> QED BY <1>1, <1>2

\* What a scan on the way does to the network.
LEMMA ScanOnTheWay ==
  ASSUME MuxesLast, NoArmZero, PdlInv, NEW open, Physical(open) \in Stages, Carries(po, open),
         NEW b \in Stages, NEW op, Emitted(op, Physical(open), b), op.kind = "shift"
  PROVE  /\ op.bits = Len(Layout(po)) /\ Len(op.tdi) = op.bits
         /\ LET new == Update(Scanned(Played, op.tdi).shift, po) IN
            DOMAIN new = Latched /\ Carries(new, b.open) /\ \A w \in Writes : new[w] = b.held[w]
<1> DEFINE a == Physical(open)
           from == Played
           new == Update(Scanned(Played, op.tdi).shift, po)
<1>1. from.po = po /\ from.shift = shift /\ DOMAIN from.po = Latched /\ Carries(from.po, open)
  BY DEF Played, PdlInv, PdlTypes
<1>2. a.open = open /\ a.held = [w \in Writes |-> po[w]]
  BY DEF Physical
<1>3. new = Update(Scanned(from, op.tdi).shift, from.po)
  BY <1>1
<1>4. layout_bit_length(open) = Len(Layout(open)) /\ Layout(po) = Layout(open)
  <2>1. layout_bit_length(open) = Len(Layout(open))
    BY LayoutLength
  <2>2. Layout(po) = Layout(open)
    BY CarriedLayout DEF PdlInv, PdlTypes
  <2> QED BY <2>1, <2>2
<1> HIDE DEF Stages, from, new
<1>5. CASE OpensNext(op, a, b)
  <2>1. PICK i \in Instruments : \E e \in 1 .. Len(Path[i]) :
          /\ b.open = OpenTo(i, e) /\ b.held = a.held /\ Leads(open, i, e)
          /\ op = ShiftDR(layout_bit_length(open), Reverse(compose_bits(open, b.open, NoScope, 0)), << >>, NoAccess)
    BY <1>2, <1>5 DEF OpensNext
  <2>2. PICK e \in 1 .. Len(Path[i]) :
          /\ b.open = OpenTo(i, e) /\ b.held = a.held /\ Leads(open, i, e)
          /\ op = ShiftDR(layout_bit_length(open), Reverse(compose_bits(open, b.open, NoScope, 0)), << >>, NoAccess)
    BY <2>1
  <2>3. PICK u \in Instruments : \E d \in 0 .. Len(Path[u]) : open = OpenTo(u, d)
    BY <1>2, StageIs
  <2>4. PICK d \in 0 .. Len(Path[u]) : open = OpenTo(u, d)
    BY <2>3
  <2>5. u \in Units /\ i \in Units /\ e \in 0 .. Len(Path[i])
    BY GateStep DEF Units
  <2>6. new = After(from, open, OpenTo(i, e), NoScope, 0)
    BY <1>3, <2>2 DEF After, ShiftDR
  <2>7. DOMAIN new = Latched /\ Carries(new, OpenTo(i, e)) /\ \A w \in Writes : new[w] = po[w]
    <3>1. DOMAIN from.po = Latched /\ Carries(from.po, OpenTo(u, d)) /\ Leads(OpenTo(u, d), i, e)
      BY <1>1, <2>2, <2>4
    <3>2. LET q == After(from, OpenTo(u, d), OpenTo(i, e), NoScope, 0) IN
          DOMAIN q = Latched /\ Carries(q, OpenTo(i, e)) /\ \A w \in Writes : q[w] = from.po[w]
      BY <2>5, <3>1, PhaseOneScan
    <3> QED BY <1>1, <2>4, <2>6, <3>2
  <2>8. Len(op.tdi) = Len(Layout(open)) /\ op.bits = Len(Layout(open))
    <3>1. \A s \in DOMAIN OpenTo(i, e) : OpenTo(i, e)[s] \in Nat
      BY <2>5, OpenValues
    <3>2. SendsEach(open, OpenTo(i, e), NoScope, 0)
      BY <3>1, ComposedBits
    <3> QED BY <1>4, <2>2, <3>2 DEF SendsEach, ShiftDR
  <2>9. \A w \in Writes : new[w] = b.held[w]
    BY <1>2, <2>2, <2>7
  <2> QED BY <1>4, <2>2, <2>7, <2>8, <2>9 DEF new
<1>6. CASE Delivers(op, a, b)
  <2>1. PICK i \in Instruments : \E v \in Nat : \E access, expect :
          /\ open = OpenTo(i, Len(Path[i])) /\ b.open = open
          /\ b.held = [w \in Writes |-> IF w = i THEN v % Pow2[Width[i]] ELSE po[w]]
          /\ op = ShiftDR(layout_bit_length(open), Reverse(compose_bits(open, open, Gate(i).slot, v)), expect, access)
    BY <1>2, <1>6 DEF Delivers
  <2>2. PICK v \in Nat : \E access, expect :
          /\ open = OpenTo(i, Len(Path[i])) /\ b.open = open
          /\ b.held = [w \in Writes |-> IF w = i THEN v % Pow2[Width[i]] ELSE po[w]]
          /\ op = ShiftDR(layout_bit_length(open), Reverse(compose_bits(open, open, Gate(i).slot, v)), expect, access)
    BY <2>1
  <2>3. /\ open = OpenTo(i, Len(Path[i])) /\ b.open = open
        /\ b.held = [w \in Writes |-> IF w = i THEN v % Pow2[Width[i]] ELSE po[w]]
        /\ op.bits = layout_bit_length(open) /\ op.tdi = Reverse(compose_bits(open, open, Gate(i).slot, v))
    BY <2>2 DEF ShiftDR
  <2>4. i \in Units /\ Len(Path[i]) \in 0 .. Len(Path[i])
    BY GateStep DEF Units
  <2>5. new = After(from, open, open, Gate(i).slot, v)
    BY <1>3, <2>3 DEF After
  <2>6. /\ DOMAIN new = Latched /\ Carries(new, open)
        /\ \A w \in Writes : new[w] = IF w = i THEN v % Pow2[Width[i]] ELSE po[w]
    <3>1. DOMAIN from.po = Latched /\ Carries(from.po, OpenTo(i, Len(Path[i])))
      BY <1>1, <2>3
    <3>2. LET o == OpenTo(i, Len(Path[i]))
              q == After(from, o, o, Gate(i).slot, v)
          IN  /\ DOMAIN q = Latched /\ Carries(q, o)
              /\ \A w \in Writes : q[w] = IF w = i THEN v % Pow2[Width[i]] ELSE from.po[w]
      BY <3>1, PhaseTwoScan
    <3> QED BY <1>1, <2>3, <2>5, <3>2
  <2>7. Len(op.tdi) = Len(Layout(open))
    <3>1. \A s \in DOMAIN open : open[s] \in Nat
      BY <2>3, <2>4, OpenValues
    <3>2. SendsEach(open, open, Gate(i).slot, v)
      BY <3>1, ComposedBits
    <3> QED BY <2>3, <3>2 DEF SendsEach
  <2> QED BY <1>4, <2>3, <2>6, <2>7 DEF new
<1>7. ~Waits(op, a, b)
  BY DEF Waits
<1> QED BY <1>5, <1>6, <1>7 DEF Emitted

\* Playing a scan moves the network one step along the way.
LEMMA PlayShiftPdl == ASSUME MuxesLast, NoArmZero, PdlInv, PlayShift PROVE PdlInv'
<1>1. program # << >> /\ program[1].kind = "shift"
  BY DEF PlayShift
<1>2. PICK open : \E b \in Stages :
        /\ Physical(open) \in Stages /\ Carries(po, open)
        /\ Emitted(program[1], Physical(open), b) /\ Leading(Tail(program), b, Believed)
  BY <1>1, FirstOp
<1>3. PICK b \in Stages :
        /\ Physical(open) \in Stages /\ Carries(po, open)
        /\ Emitted(program[1], Physical(open), b) /\ Leading(Tail(program), b, Believed)
  BY <1>2
<1>4. po' = Update(Scanned(Played, program[1].tdi).shift, po) /\ program' = Tail(program)
  BY DEF PlayShift, Played
<1> HIDE DEF Stages
<1>5. DOMAIN po' = Latched /\ Carries(po', b.open) /\ \A w \in Writes : po'[w] = b.held[w]
  BY <1>1, <1>3, <1>4, ScanOnTheWay
<1>6. PdlTypes'
  BY <1>5 DEF PdlInv, PdlTypes, PlayShift
<1>7. EditsBehind'
  BY DEF PdlInv, EditsBehind, Committed, PlayShift
<1>8. Believed' = Believed
  BY DEF Believed, Committed, PlayShift
<1>9. Physical(b.open)' = b
  <2>1. b = [open |-> b.open, held |-> b.held] /\ b.held \in [Writes -> Nat]
    BY DEF Stages
  <2>2. [w \in Writes |-> po'[w]] = b.held
    BY <1>5, <2>1
  <2> QED BY <2>1, <2>2 DEF Physical
<1>10. OnTheWay'
  <2>1. Believed \in Stages
    BY DEF PdlInv, OnTheWay
  <2> HIDE DEF Believed, Physical
  <2> QED BY <1>3, <1>4, <1>5, <1>8, <1>9, <2>1 DEF OnTheWay
<1> QED BY <1>6, <1>7, <1>10 DEF PdlInv

\* Playing a wait stays where it is.
LEMMA PlayRuntestPdl == ASSUME PdlInv, PlayRuntest PROVE PdlInv'
<1>1. program # << >> /\ program[1].kind = "runtest"
  BY DEF PlayRuntest
<1>2. PICK open : \E b \in Stages :
        /\ Physical(open) \in Stages /\ Carries(po, open)
        /\ Emitted(program[1], Physical(open), b) /\ Leading(Tail(program), b, Believed)
  BY <1>1, FirstOp
<1>3. PICK b \in Stages :
        /\ Physical(open) \in Stages /\ Carries(po, open)
        /\ Emitted(program[1], Physical(open), b) /\ Leading(Tail(program), b, Believed)
  BY <1>2
<1> HIDE DEF Stages
<1>4. b = Physical(open)
  <2>1. ~OpensNext(program[1], Physical(open), b) /\ ~Delivers(program[1], Physical(open), b)
    BY <1>1, ScansAreShifts
  <2> QED BY <1>3, <2>1 DEF Emitted, Waits
<1>5. Believed' = Believed /\ Physical(open)' = Physical(open) /\ program' = Tail(program) /\ po' = po
  BY DEF Believed, Committed, Physical, PlayRuntest
<1>6. PdlTypes' /\ EditsBehind'
  BY DEF PdlInv, PdlTypes, EditsBehind, Committed, PlayRuntest
<1>7. OnTheWay'
  <2>1. Believed \in Stages
    BY DEF PdlInv, OnTheWay
  <2> HIDE DEF Believed, Physical
  <2> QED BY <1>3, <1>4, <1>5, <2>1 DEF OnTheWay
<1> QED BY <1>6, <1>7 DEF PdlInv

\* No command leaves the invariant.
LEMMA CommandPdl == ASSUME PdlInv, Command, UNCHANGED <<shift, po, verdict>> PROVE PdlInv'
<1>1. CASE \E s \in Scopes : iTarget(s)
  BY <1>1, TargetPdl
<1>2. CASE \E v \in WriteValues : iWrite(v)
  BY <1>2, WritePdl
<1>3. CASE \E v \in WriteValues : \E f \in UNION {Fields[i] : i \in Instruments} : iWriteField(f, v)
  BY <1>3, WriteFieldPdl
<1>4. CASE \E v \in ReadValues : iRead(v)
  BY <1>4, ReadPdl
<1>5. CASE \E v \in ReadValues : \E f \in UNION {Fields[i] : i \in Instruments} : iReadField(f, v)
  BY <1>5, ReadPdl
<1>6. CASE iRunLoop
  BY <1>6, RunLoopPdl
<1>7. CASE iApply
  BY <1>7, ApplyPdl
<1> QED BY <1>1, <1>2, <1>3, <1>4, <1>5, <1>6, <1>7 DEF Command

\* The invariant holds on every network whose muxes meet the two conditions.
THEOREM PdlInvariant == ASSUME MuxesLast, NoArmZero PROVE Spec => []PdlInv
<1>1. PdlInv /\ [Next]_vars => PdlInv'
  <2> SUFFICES ASSUME PdlInv, [Next]_vars PROVE PdlInv'
    OBVIOUS
  <2>1. CASE Command /\ UNCHANGED <<shift, po, verdict>>
    BY <2>1, CommandPdl
  <2>2. CASE PlayShift
    BY <2>2, PlayShiftPdl
  <2>3. CASE PlayRuntest
    BY <2>3, PlayRuntestPdl
  <2>4. CASE UNCHANGED vars
    BY <2>4, StutterPdl
  <2> QED BY <2>1, <2>2, <2>3, <2>4 DEF Next
<1> QED BY <1>1, InitPdl, PTL DEF Spec

\* Every scan is as long as the chain it is played through, although it was
\* sized when it was lowered (layout_bit_length against _live_layout).
THEOREM ScansFitTheChain == ASSUME MuxesLast, NoArmZero PROVE Spec => []ScanFitsChain
<1>1. ASSUME PdlInv PROVE ScanFitsChain
  <2> SUFFICES ASSUME program # << >>, program[1].kind = "shift"
               PROVE  program[1].bits = Len(Layout(po)) /\ Len(program[1].tdi) = program[1].bits
    BY DEF ScanFitsChain
  <2>1. PICK open : \E b \in Stages :
          /\ Physical(open) \in Stages /\ Carries(po, open)
          /\ Emitted(program[1], Physical(open), b) /\ Leading(Tail(program), b, Believed)
    BY <1>1, FirstOp
  <2> QED BY <1>1, <2>1, ScanOnTheWay
<1> QED BY <1>1, PdlInvariant, PTL

\* What the interpreter believes once nothing is left to play.
LEMMA Arrived ==
  ASSUME PdlInv, program = << >>
  PROVE  Carries(po, currentlyOpen) /\ \A w \in Writes : po[w] = Committed(w)
<1> HIDE DEF Stages
<1>1. PICK open : /\ Physical(open) \in Stages /\ Carries(po, open)
                  /\ Leading(program, Physical(open), Believed)
  BY DEF PdlInv, OnTheWay
<1>2. Physical(open) = Believed
  BY <1>1, LeadNone
<1>3. open = currentlyOpen /\ [w \in Writes |-> po[w]] = [w \in Writes |-> Committed(w)]
  BY <1>2 DEF Physical, Believed
<1> QED BY <1>1, <1>3

\* The slots the interpreter tracks as open are the ones the network has
\* committed once nothing is left to play (_currently_open against the pos).
THEOREM TrackedOpenHolds == ASSUME MuxesLast, NoArmZero PROVE Spec => []TrackedOpenIsPhysical
<1>1. PdlInv => TrackedOpenIsPhysical
  BY Arrived DEF TrackedOpenIsPhysical, Carries, GetOr
<1> QED BY <1>1, PdlInvariant, PTL

\* ... and the values it would send again are the ones the WRITE instruments
\* hold (_committed_writes against inst_po).
THEOREM TrackedWritesHold == ASSUME MuxesLast, NoArmZero PROVE Spec => []TrackedWritesArePhysical
<1>1. PdlInv => TrackedWritesArePhysical
  BY Arrived DEF TrackedWritesArePhysical, Committed
<1> QED BY <1>1, PdlInvariant, PTL

(***************************************************************************)
(* The program makes the instruments behave as registers.                  *)
(***************************************************************************)

\* Where a bit of the instrument everything is open to comes out, and what it
\* is: the place is the instrument's own, counted back from the one TDO shows.
CyclesAre(from, open, i, out, base) ==
  /\ base \in Nat
  /\ \A k \in 0 .. Width[i] - 1 :
       /\ ReadCycle(open, i, k) = TailPlace(from.po) - (base + k + 1)
       /\ ReadCycle(open, i, k) \in Nat
       /\ out[ReadCycle(open, i, k) + 1]
            = IF i \in Writes THEN Bit(from.po[i], k) ELSE Bit(CaptureValue[i], k)

\* Where iApply expects a bit of its target is where the scan sends it out
\* (_mux_arm_read_chronological_bits for a matched arm).
LEMMA ReadCycles ==
  ASSUME MuxesLast, NoArmZero, LeafArms, NEW from, DOMAIN from.po = Latched,
         NEW i \in Instruments, Carries(from.po, OpenTo(i, Len(Path[i]))),
         NEW tdi, NEW scan, Moved(from, tdi, scan, Len(Layout(from.po)))
  PROVE  \E base : CyclesAre(from, OpenTo(i, Len(Path[i])), i, scan.out, base)
<1> DEFINE L == Len(Path[i])
           open == OpenTo(i, L)
           layout == Layout(from.po)
           p == TailPlace(from.po)
           W == Width[i]
           start == Capture(from.shift, from.po)
<1>1. i \in Units /\ Nested(i) /\ L \in 0 .. Len(Path[i]) /\ L \in 1 .. Len(Path[i])
  <2>1. i \in Units /\ Nested(i)
    BY NetworkAssumption DEF ValidPhysicalGraph, Units
  <2> QED BY <2>1, GateStep
<1>2. Layout(open) = layout /\ Live(open, i) /\ Live(from.po, i)
  <2>1. Live(open, i)
    BY <1>1, OnlyInstrument
  <2>2. /\ \A u \in Units : Live(from.po, u) <=> Live(open, u)
        /\ layout = Layout(open)
    BY CarriedLayout
  <2> QED BY <1>1, <2>1, <2>2
<1>3. PICK off : Places(from.po, off)
  BY PlacesExist
<1> DEFINE base == off[IndexOf(i) - 1]
           n == Len(layout)
<1>4. /\ W \in Nat \ {0} /\ base \in Nat /\ off[IndexOf(i)] = base + W /\ n = off[N]
      /\ base + W <= n /\ n \in Nat /\ IndexOf(i) \in 1 .. N
      /\ \A j \in 1 .. W : layout[base + j] = <<i, j - 1>>
  <2> DEFINE x == IndexOf(i)
  <2>1. /\ x \in 1 .. N /\ x - 1 \in 0 .. N /\ off[x - 1] \in Nat /\ off[x] \in Nat
        /\ Width[i] \in Nat \ {0} /\ off[x] = off[x - 1] + Width[i]
        /\ off[x] \in 1 .. off[N]
        /\ \A j \in 1 .. Width[i] : /\ off[x - 1] + j \in 1 .. off[N]
                                    /\ Layout(from.po)[off[x - 1] + j] = UnitCells(i)[j]
    BY <1>1, <1>2, <1>3, UnitPlace
  <2>2. \A j \in 1 .. W : UnitCells(i)[j] = <<i, j - 1>>
    BY <1>1, CellsOfUnit
  <2>3. n = off[N] /\ off[N] \in Nat
    <3>1. N \in 0 .. N
      BY OrderIndex
    <3> QED BY <1>3, <3>1 DEF Places
  <2>4. \A j \in 1 .. W : layout[base + j] = <<i, j - 1>>
    BY <2>1, <2>2
  <2> HIDE DEF n, layout, x
  <2>5. base = off[x - 1]
    BY DEF x
  <2>6. off[x] <= off[N]
    BY <2>1, <2>3
  <2> HIDE DEF base
  <2> QED BY <2>1, <2>3, <2>4, <2>5, <2>6 DEF x
<1>5. (CHOOSE m \in DOMAIN Layout(open) : Layout(open)[m] = <<i, 0>>) = base + 1
  <2>1. 1 \in 1 .. W /\ UnitCells(i)[1] = <<i, 0>>
    <3>1. 1 \in 1 .. W
      BY <1>4
    <3>2. \A j \in 1 .. W : UnitCells(i)[j] = <<i, j - 1>>
      BY <1>1, CellsOfUnit
    <3>3. UnitCells(i)[1] = <<i, 1 - 1>>
      BY <3>1, <3>2, Zenon
    <3>4. 1 - 1 = 0
      OBVIOUS
    <3> QED BY <3>1, <3>3, <3>4
  <2>2. (CHOOSE m \in DOMAIN layout : layout[m] = UnitCells(i)[1]) = base + 1
    BY <1>1, <1>2, <1>3, <2>1, OnePlace
  <2> QED BY <1>2, <2>1, <2>2
<1> HIDE DEF base, n, W
<1>6. ASSUME NEW k \in 0 .. Width[i] - 1
      PROVE  ReadCycle(open, i, k) = IF Gate(i).slot \in Muxes THEN Width[i] - 1 - k
                                                               ELSE n - 1 - (base + k)
  <2>1. base + 1 - 1 = base
    BY <1>4
  <2>2. Len(Layout(open)) = n
    BY <1>2 DEF n
  <2> DEFINE first == CHOOSE m \in DOMAIN Layout(open) : Layout(open)[m] = <<i, 0>>
  <2>3. ReadCycle(open, i, k) = IF Gate(i).slot \in Muxes THEN Width[i] - 1 - k
                                ELSE Len(Layout(open)) - 1 - ((first - 1) + k)
    BY Zenon DEF ReadCycle
  <2>4. first = base + 1
    BY <1>5, Zenon
  <2> HIDE DEF first
  <2>5. first - 1 = base
    BY <1>4, <2>4
  <2> QED BY <2>2, <2>3, <2>5
<1>7. ASSUME Gate(i).slot \in Muxes
      PROVE  /\ p <= n /\ base + Width[i] <= p
             /\ \A k \in 0 .. Width[i] - 1 : ReadCycle(open, i, k) = p - (base + k + 1)
  <2> DEFINE m == Gate(i).slot
  <2>1. m \in Muxes /\ m \in Slots /\ m \in Units /\ m = Order[N] /\ IndexOf(m) = N /\ ~Nested(m) /\ N \in Nat \ {0}
    BY <1>7, LastInOrder DEF Slots
  <2>2. from.po[m] = Gate(i).value /\ Gate(i).value \in Arms(m)
    <3>1. m \in DOMAIN open /\ open[m] = Gate(i).value
      <4>1. L \in 1 .. L /\ Gate(i) = Path[i][L]
        BY <1>1, GateStep
      <4> HIDE DEF L
      <4> QED BY <1>1, <4>1, OpenToIs
    <3>2. Gate(i).value \in Arms(m)
      BY <1>1, StepIs, GateStep
    <3> QED BY <2>1, <3>1, <3>2 DEF Carries
  <2>3. Relays(from.po) /\ p = n - Width[m]
    BY <2>1, <2>2 DEF Relays, Matched, TailPlace, n
  <2>4. Live(from.po, m) /\ Width[m] \in Nat /\ off[N] = off[N - 1] + Width[m]
    <3>1. Live(from.po, m)
      BY <2>1, TopUnit
    <3>2. Width[m] \in Nat
      BY <2>1, CellsOfUnit
    <3>3. N \in 1 .. N
      BY <2>1
    <3>4. off[N] = off[N - 1] + Width[Order[N]]
      BY <1>3, <2>1, <3>1, <3>3 DEF Places
    <3> QED BY <2>1, <3>1, <3>2, <3>4
  <2>5. off[N - 1] = off[IndexOf(i)]
    <3> DEFINE v == LastOf(Content(m, from.po[m]))
    <3>1. Nested(v) /\ Gate(v) = [slot |-> m, value |-> from.po[m]] /\ v \in Units
      BY <2>1, <2>2, ContentLast
    <3>2. off[IndexOf(m) - 1] = off[IndexOf(v)]
      BY <1>3, <2>1, <2>2, <2>4, SpliceEnd
    <3>3. Gate(v) = Gate(i)
      <4>1. Gate(i) = [slot |-> m, value |-> Gate(i).value]
        BY <1>1, GateStep DEF Step
      <4> HIDE DEF v
      <4> QED BY <2>2, <3>1, <4>1
    <3>4. v = i
      <4> HIDE DEF v
      <4> QED BY <1>1, <3>1, <3>3, NetworkAssumption DEF ValidPhysicalGraph
    <3> QED BY <2>1, <3>2, <3>4
  <2>6. p = base + Width[i]
    <3>1. off[N - 1] = base + W /\ off[N] = (base + W) + Width[m] /\ p = off[N] - Width[m]
      BY <1>4, <2>3, <2>4, <2>5
    <3> QED BY <1>4, <2>4, <3>1 DEF W
  <2>7. \A k \in 0 .. Width[i] - 1 : ReadCycle(open, i, k) = p - (base + k + 1)
    <3> SUFFICES ASSUME NEW k \in 0 .. Width[i] - 1 PROVE ReadCycle(open, i, k) = p - (base + k + 1)
      OBVIOUS
    <3>1. ReadCycle(open, i, k) = Width[i] - 1 - k
      BY <1>6, <1>7
    <3> HIDE DEF p
    <3> QED BY <1>4, <2>6, <3>1 DEF W
  <2>8. p <= n /\ base + Width[i] <= p
    <3> HIDE DEF p
    <3> QED BY <1>4, <2>6 DEF W
  <2> QED BY <2>7, <2>8
<1>8. ASSUME Gate(i).slot \notin Muxes
      PROVE  /\ p <= n /\ base + Width[i] <= p
             /\ \A k \in 0 .. Width[i] - 1 : ReadCycle(open, i, k) = p - (base + k + 1)
  <2>1. ~Relays(from.po)
    <3> SUFFICES ASSUME NEW m \in Muxes, Matched(from.po, m) PROVE FALSE
      BY DEF Relays
    <3>1. m \in Slots /\ m \in Units /\ ~Nested(m) /\ Len(Path[m]) = 0 /\ from.po[m] \in Arms(m)
      <4>1. m \in Slots /\ m \in Units /\ ~Nested(m) /\ from.po[m] \in Arms(m)
        BY LastInOrder DEF Matched, Slots
      <4> QED BY <4>1, GateStep
    <3>2. m \in DOMAIN open
      BY <3>1 DEF Carries, NoArmZero
    <3>3. PICK j \in 1 .. L : m = Path[i][j].slot
      BY <1>1, <3>2, OpenToIs
    <3>4. j = 1
      <4>1. Len(Path[Path[i][j].slot]) = j - 1
        BY <1>1, <3>3, StepIs
      <4> QED BY <3>1, <3>3, <4>1
    <3>5. CASE L = 1
      BY <1>1, <1>8, <3>3, <3>4, <3>5, GateStep
    <3>6. CASE L # 1
      <4> DEFINE a == Path[i][2].slot
      <4>1. 2 \in 1 .. Len(Path[i]) /\ 1 \in 1 .. 1 /\ 2 - 1 = 1
        <5>1. \A q \in Nat : q # 1 /\ q \in 1 .. q => 2 \in 1 .. q
          OBVIOUS
        <5>2. L \in Nat /\ L \in 1 .. L /\ L = Len(Path[i])
          BY <1>1, GateStep
        <5> HIDE DEF L
        <5>3. 2 \in 1 .. L
          BY <3>6, <5>1, <5>2
        <5>4. 2 \in 1 .. Len(Path[i])
          BY <5>2, <5>3
        <5>5. 1 \in 1 .. 1 /\ 2 - 1 = 1
          OBVIOUS
        <5> QED BY <5>4, <5>5
      <4>2. a \in Slots /\ a \in Units /\ Len(Path[a]) = 1 /\ Path[a][1] = Path[i][1]
        <5>1. /\ a \in Slots /\ a \in Units /\ Len(Path[a]) = 2 - 1
              /\ \A q \in 1 .. 2 - 1 : Path[a][q] = Path[i][q]
          BY <1>1, <4>1, StepIs
        <5> QED BY <4>1, <5>1
      <4>3. Nested(a) /\ Gate(a) = Path[i][1]
        BY <4>2, GateStep
      <4>4. a \in Instruments
        BY <3>3, <3>4, <4>2, <4>3 DEF LeafArms
      <4> QED BY <4>2, <4>4, NetworkAssumption DEF ValidPhysicalGraph
    <3> QED BY <3>5, <3>6
  <2>2. p = n
    BY <2>1 DEF TailPlace, n
  <2>3. \A k \in 0 .. Width[i] - 1 : ReadCycle(open, i, k) = p - (base + k + 1)
    <3> SUFFICES ASSUME NEW k \in 0 .. Width[i] - 1 PROVE ReadCycle(open, i, k) = p - (base + k + 1)
      OBVIOUS
    <3>1. ReadCycle(open, i, k) = n - 1 - (base + k)
      BY <1>6, <1>8
    <3> HIDE DEF p
    <3> QED BY <1>4, <2>2, <3>1 DEF W
  <2>4. p <= n /\ base + Width[i] <= p
    BY <1>4, <2>2 DEF W
  <2> QED BY <2>3, <2>4
<1>9. p <= n /\ base + Width[i] <= p /\ p \in Nat
      /\ \A k \in 0 .. Width[i] - 1 : ReadCycle(open, i, k) = p - (base + k + 1)
  <2>1. TailPlace(from.po) \in 1 .. Len(Layout(from.po))
    <3>1. Len(Layout(from.po)) # 0
      BY <1>1, ChainNotEmpty
    <3> QED BY <3>1, TailReads
  <2>2. p \in Nat
    BY <2>1
  <2> QED BY <1>7, <1>8, <2>2
<1>10. ASSUME NEW k \in 0 .. Width[i] - 1
       PROVE  /\ ReadCycle(open, i, k) \in Nat
              /\ scan.out[ReadCycle(open, i, k) + 1]
                   = IF i \in Writes THEN Bit(from.po[i], k) ELSE Bit(CaptureValue[i], k)
  <2> DEFINE c == ReadCycle(open, i, k)
  <2>1. c = p - (base + k + 1)
    BY <1>9
  <2> HIDE DEF p, c
  <2>2. c \in Nat /\ c + 1 \in 1 .. n /\ c + 1 <= p /\ p - (c + 1) + 1 = base + (k + 1)
        /\ k + 1 \in 1 .. W /\ (k + 1) - 1 = k
    BY <1>4, <1>9, <2>1 DEF W
  <2>3. scan.out[c + 1] = start[layout[p - (c + 1) + 1]]
    BY <2>2 DEF Moved, p, n
  <2>4. layout[p - (c + 1) + 1] = <<i, k>>
    BY <1>4, <2>2
  <2>5. start[<<i, k>>] = CapturedBit(from.po, i, k)
    <3>1. <<i, k>> \in Cells
      BY <1>1, CellsAre
    <3> QED BY <3>1 DEF Capture
  <2>6. i \in Latched <=> i \in Writes
    BY NetworkAssumption DEF ValidPhysicalGraph, Latched
  <2> QED BY <2>2, <2>3, <2>4, <2>5, <2>6 DEF CapturedBit, c
<1> QED BY <1>4, <1>9, <1>10 DEF CyclesAre

AccessBase(p) == << >>
AccessStep(p, acc, op) ==
  IF op.kind = "shift" /\ op.access # NoAccess THEN Append(acc, op.access) ELSE acc
AccessFold == INSTANCE InductionLemmas WITH FoldBase <- AccessBase, FoldStep <- AccessStep

\* The accesses of a longer program.
LEMMA AccessesFold ==
  /\ AccessesOf(<< >>) = << >>
  /\ \A S : \A p \in Seq(S) : \A op \in S :
       AccessesOf(Append(p, op)) = AccessStep(0, AccessesOf(p), op)
<1>1. \A p : AccessesOf(p) = AccessFold!Fold(0, p)
  BY DEF AccessesOf, AccessBase, AccessStep, AccessFold!Fold, FoldLeft, AccessFold!FoldLeft,
         MapThenFoldSet, AccessFold!MapThenFoldSet, Max, AccessFold!Max
<1>2. AccessesOf(<< >>) = AccessBase(0)
  BY <1>1, AccessFold!FoldEmpty
<1>3. ASSUME NEW S, NEW p \in Seq(S), NEW op \in S
      PROVE  AccessesOf(Append(p, op)) = AccessStep(0, AccessesOf(p), op)
  BY <1>1, AccessFold!FoldAppend
<1> QED BY <1>2, <1>3 DEF AccessBase

AccessIn(S) == {op.access : op \in S}

\* Appending to a concatenation appends to its end.
LEMMA AppendConcat ==
  ASSUME NEW T, NEW x \in Seq(T), NEW y \in Seq(T), NEW e \in T
  PROVE  Append(y \o x, e) = y \o Append(x, e)
OBVIOUS

\* They are those of its parts.
LEMMA AccessesConcat ==
  ASSUME NEW S, NEW p \in Seq(S), NEW q \in Seq(S)
  PROVE  /\ AccessesOf(q) \in Seq(AccessIn(S))
         /\ AccessesOf(p) \in Seq(AccessIn(S)) => AccessesOf(p \o q) = AccessesOf(p) \o AccessesOf(q)
<1> DEFINE T == AccessIn(S)
           Sub(k) == SubSeq(q, 1, k)
           G(k) == /\ AccessesOf(Sub(k)) \in Seq(T)
                   /\ AccessesOf(p) \in Seq(T) => AccessesOf(p \o Sub(k)) = AccessesOf(p) \o AccessesOf(Sub(k))
           P == {k \in Nat : k <= Len(q) => G(k)}
<1>1. AccessesOf(<< >>) = << >>
  BY AccessesFold
<1>2. G(0)
  <2>1. Sub(0) = << >> /\ p \o << >> = p
    OBVIOUS
  <2>2. << >> \in Seq(T) /\ (AccessesOf(p) \in Seq(T) => AccessesOf(p) \o << >> = AccessesOf(p))
    OBVIOUS
  <2> HIDE DEF Sub, T
  <2> QED BY <1>1, <2>1, <2>2
<1>3. ASSUME NEW k \in Nat, k + 1 <= Len(q), G(k) PROVE G(k + 1)
  <2> DEFINE e == q[k + 1]
  <2>1. /\ e \in S /\ Sub(k) \in Seq(S) /\ p \o Sub(k) \in Seq(S)
        /\ Sub(k + 1) = Append(Sub(k), e) /\ p \o Sub(k + 1) = Append(p \o Sub(k), e)
    <3>1. e \in S /\ Sub(k) \in Seq(S) /\ Sub(k + 1) = Append(Sub(k), e)
      BY <1>3
    <3> HIDE DEF Sub, e
    <3>2. p \o Append(Sub(k), e) = Append(p \o Sub(k), e) /\ p \o Sub(k) \in Seq(S)
      BY <3>1
    <3> QED BY <3>1, <3>2
  <2>2. e.access \in T
    BY <2>1 DEF AccessIn
  <2> HIDE DEF Sub, e, T
  <2>3. /\ AccessesOf(Append(Sub(k), e)) = AccessStep(0, AccessesOf(Sub(k)), e)
        /\ AccessesOf(Append(p \o Sub(k), e)) = AccessStep(0, AccessesOf(p \o Sub(k)), e)
    BY <2>1, AccessesFold
  <2> DEFINE x == AccessesOf(Sub(k))  y == AccessesOf(p)
  <2>4. x \in Seq(T) /\ (y \in Seq(T) => AccessesOf(p \o Sub(k)) = y \o x)
    BY <1>3
  <2> HIDE DEF x, y
  <2>5. AccessStep(0, x, e) \in Seq(T)
    BY <2>2, <2>4 DEF AccessStep
  <2>6. y \in Seq(T) => AccessStep(0, y \o x, e) = y \o AccessStep(0, x, e)
    <3> SUFFICES ASSUME y \in Seq(T) PROVE AccessStep(0, y \o x, e) = y \o AccessStep(0, x, e)
      OBVIOUS
    <3> DEFINE f == e.access
    <3>1. f \in T
      BY <2>2
    <3> HIDE DEF f
    <3>2. Append(y \o x, f) = y \o Append(x, f)
      BY <2>4, <3>1, AppendConcat
    <3> QED BY <3>2 DEF AccessStep, f
  <2> QED BY <2>1, <2>3, <2>4, <2>5, <2>6 DEF x, y
<1>4. Nat \subseteq P
  <2> HIDE DEF G
  <2>1. 0 \in P
    BY <1>2
  <2>2. \A k \in Nat : k \in P => k + 1 \in P
    BY <1>3
  <2> HIDE DEF P
  <2> QED BY <2>1, <2>2, Induction
<1>5. Len(q) \in Nat /\ Sub(Len(q)) = q
  OBVIOUS
<1>6. G(Len(q))
  <2> HIDE DEF G
  <2> QED BY <1>4, <1>5
<1> HIDE DEF Sub
<1> QED BY <1>5, <1>6

\* A scan that accesses nothing adds none.
LEMMA NoAccesses ==
  ASSUME NEW S, NEW p \in Seq(S), \A op \in S : op.access = NoAccess
  PROVE  AccessesOf(p) = << >>
<1> DEFINE Sub(k) == SubSeq(p, 1, k)
           P == {k \in Nat : k <= Len(p) => AccessesOf(Sub(k)) = << >>}
<1>1. 0 \in P
  <2>1. Sub(0) = << >>
    OBVIOUS
  <2> QED BY <2>1, AccessesFold
<1>2. ASSUME NEW k \in Nat, k \in P PROVE k + 1 \in P
  <2> SUFFICES ASSUME k + 1 <= Len(p) PROVE AccessesOf(Sub(k + 1)) = << >>
    OBVIOUS
  <2> DEFINE e == p[k + 1]
  <2>1. e \in S /\ Sub(k) \in Seq(S) /\ Sub(k + 1) = Append(Sub(k), e)
    OBVIOUS
  <2>2. AccessesOf(Sub(k)) = << >>
    BY <1>2
  <2> HIDE DEF Sub, e
  <2>3. AccessesOf(Append(Sub(k), e)) = AccessStep(0, << >>, e)
    BY <2>1, <2>2, AccessesFold
  <2> QED BY <2>1, <2>3 DEF AccessStep
<1>3. Nat \subseteq P
  <2> HIDE DEF P
  <2> QED BY <1>1, <1>2, Induction
<1>4. Len(p) \in Nat /\ Sub(Len(p)) = p
  OBVIOUS
<1> HIDE DEF Sub
<1> QED BY <1>3, <1>4

\* One operation's.
LEMMA AccessesOne ==
  ASSUME NEW op
  PROVE  AccessesOf(<<op>>) = IF op.kind = "shift" /\ op.access # NoAccess THEN <<op.access>> ELSE << >>
<1>1. << >> \in Seq({op}) /\ op \in {op} /\ <<op>> = Append(<< >>, op)
  OBVIOUS
<1>2. AccessesOf(Append(<< >>, op)) = AccessStep(0, << >>, op)
  BY <1>1, AccessesFold
<1>3. Append(<< >>, op.access) = <<op.access>>
  OBVIOUS
<1> QED BY <1>1, <1>2, <1>3 DEF AccessStep

\* The first operation's, then the others'.
LEMMA AccessesTail ==
  ASSUME NEW S, NEW p \in Seq(S), p # << >>
  PROVE  /\ AccessesOf(Tail(p)) \in Seq(AccessIn(S))
         /\ AccessesOf(p) = IF p[1].kind = "shift" /\ p[1].access # NoAccess
                            THEN <<p[1].access>> \o AccessesOf(Tail(p)) ELSE AccessesOf(Tail(p))
<1> DEFINE op == p[1]  q == Tail(p)  T == AccessIn(S)
<1>1. op \in S /\ q \in Seq(S) /\ <<op>> \in Seq(S) /\ p = <<op>> \o q
  OBVIOUS
<1>2. op.access \in T
  BY <1>1 DEF AccessIn
<1> HIDE DEF op, q, T
<1>3. AccessesOf(<<op>>) = IF op.kind = "shift" /\ op.access # NoAccess THEN <<op.access>> ELSE << >>
  BY AccessesOne
<1>4. AccessesOf(<<op>>) \in Seq(T)
  <2>1. <<op.access>> \in Seq(T) /\ << >> \in Seq(T)
    BY <1>2
  <2> QED BY <1>3, <2>1
<1>5. AccessesOf(q) \in Seq(T) /\ AccessesOf(<<op>> \o q) = AccessesOf(<<op>>) \o AccessesOf(q)
  BY <1>1, <1>4, AccessesConcat DEF T
<1>6. << >> \o AccessesOf(q) = AccessesOf(q)
  BY <1>5
<1> QED BY <1>1, <1>3, <1>5, <1>6 DEF op, q, T

\* The bits asked for come out as expected just when the instrument holds them.
JudgedBy(registers, open, i, out, r) ==
  LET expect == ExpectedTdo(open, i, r)
      held == IF i \in Writes THEN registers[i] ELSE CaptureValue[i]
  IN  /\ DOMAIN expect # {}
      /\ (\A c \in DOMAIN expect : out[c + 1] = expect[c])
           <=> \A k \in r.low .. r.high : Bit(held, k) = Bit(r.value, k - r.low)

\* A read is judged on what its instrument held.
LEMMA Judged ==
  ASSUME NEW from, NEW open, NEW i \in Instruments, NEW out, NEW base, CyclesAre(from, open, i, out, base),
         NEW r \in File!Edit, r.low <= r.high, r.high < Width[i]
  PROVE  JudgedBy(from.po, open, i, out, r)
<1> DEFINE expect == ExpectedTdo(open, i, r)
           held == IF i \in Writes THEN from.po[i] ELSE CaptureValue[i]
           K == r.low .. r.high
           Cycle(k) == ReadCycle(open, i, k)
<1>1. r.low \in Nat /\ r.high \in Nat /\ r.low \in K /\ Width[i] \in Nat
  <2>1. r.low \in Nat /\ r.high \in Nat
    BY DEF File!Edit
  <2>2. Width[i] \in Nat
    BY CellsOfUnit DEF Units
  <2> QED BY <2>1, <2>2
<1>2. \A k \in K : k \in Nat /\ k \in 0 .. Width[i] - 1
  BY <1>1
<1>3. \A k \in K : Cycle(k) = TailPlace(from.po) - (base + k + 1) /\ Cycle(k) \in Nat
                   /\ out[Cycle(k) + 1] = Bit(held, k)
  BY <1>2 DEF CyclesAre
<1>4. TailPlace(from.po) \in Int /\ base \in Nat
  <2>1. base \in Nat
    BY DEF CyclesAre
  <2>2. TailPlace(from.po) \in Int
    <3>1. Len(Layout(from.po)) \in Nat
      BY LayoutLength
    <3>2. Relays(from.po) => Width[Order[N]] \in Nat
      <4> SUFFICES ASSUME NEW m \in Muxes PROVE Width[Order[N]] \in Nat
        BY DEF Relays
      <4>1. N \in Nat /\ m \in Units /\ IndexOf(m) \in 1 .. N /\ \A j \in 1 .. N : Order[j] \in Units
        BY OrderIndex DEF Units, Slots
      <4>2. Order[N] \in Units
        BY <4>1
      <4> QED BY <4>2, CellsOfUnit
    <3> QED BY <3>1, <3>2 DEF TailPlace
  <2> QED BY <2>1, <2>2
<1>5. \A k \in K : \A j \in K : Cycle(j) = Cycle(k) => j = k
  <2> SUFFICES ASSUME NEW k \in K, NEW j \in K, Cycle(j) = Cycle(k) PROVE j = k
    OBVIOUS
  <2>1. TailPlace(from.po) - (base + k + 1) = TailPlace(from.po) - (base + j + 1)
    BY <1>3
  <2> QED BY <1>2, <1>4, <2>1
<1>6. DOMAIN expect = {Cycle(k) : k \in K}
  BY DEF ExpectedTdo
<1>7. ASSUME NEW k \in K PROVE expect[Cycle(k)] = Bit(r.value, k - r.low)
  <2>1. expect[Cycle(k)] = Bit(r.value, (CHOOSE j \in K : Cycle(j) = Cycle(k)) - r.low)
    BY <1>7 DEF ExpectedTdo
  <2> HIDE DEF Cycle, K
  <2>2. (CHOOSE j \in K : Cycle(j) = Cycle(k)) = k
    BY <1>5, <1>7
  <2> QED BY <2>1, <2>2
<1> HIDE DEF expect, Cycle, held
<1>8. DOMAIN expect # {}
  BY <1>1, <1>6
<1>9. (\A c \in DOMAIN expect : out[c + 1] = expect[c]) <=> \A k \in K : Bit(held, k) = Bit(r.value, k - r.low)
  BY <1>3, <1>6, <1>7
<1> QED BY <1>8, <1>9 DEF expect, held, JudgedBy

\* iApply submits one access, and phase 1 none.
LEMMA SubmitPdl == ASSUME PdlInv, iApply, UNCHANGED <<shift, po, verdict>> PROVE File!Submit
<1> DEFINE i == scope
           rounds == stage_open_sequence(AsMap(ToSet(open_path_to(i))), currentlyOpen)
           one == RoundsFrom(currentlyOpen, rounds)
           opened == OpenedBy(currentlyOpen, rounds)
           expect == IF i \in DOMAIN pendingReads THEN ExpectedTdo(opened, i, pendingReads[i]) ELSE << >>
           access == [inst |-> i, edits |-> edits[i],
                      expects |-> IF i \in DOMAIN pendingReads THEN {pendingReads[i]} ELSE {}]
           phaseTwo == ShiftDR(layout_bit_length(opened),
                               Reverse(compose_bits(opened, opened, Gate(i).slot, Payload(i))),
                               expect, access)
<1>1. scope \in Instruments /\ program' = (program \o one) \o <<phaseTwo>>
  BY DEF iApply, PhaseOne, RoundsFrom, OpenedBy
<1>2. \E S : program \in Seq(S)
  BY DEF PdlInv, OnTheWay, Leading, Ways!Passage, StepOf
<1>3. \E S : one \in Seq(S)
  <2> DEFINE a == Believed
             away == stage_open_sequence(AsMap(ToSet(open_path_to(i))), a.open)
  <2>1. a \in Stages
    BY DEF PdlInv, OnTheWay
  <2>2. a.open = currentlyOpen
    BY DEF Believed
  <2> HIDE DEF a, Stages
  <2>3. Leading(RoundsFrom(a.open, away), a, [open |-> OpenTo(i, Len(Path[i])), held |-> a.held])
    BY <1>1, <2>1, RoundsLead
  <2> QED BY <2>2, <2>3 DEF Leading, Ways!Passage, StepOf
<1>4. DOMAIN one = DOMAIN rounds /\ \A k \in DOMAIN rounds : one[k].access = NoAccess
  BY DEF RoundsFrom, ShiftDR
<1> HIDE DEF one, rounds, opened
<1>5. phaseTwo.kind = "shift" /\ phaseTwo.access = access
  BY DEF ShiftDR
<1>6. access # NoAccess
  BY DEF NoAccess
<1>7. File!IsAccess(access)
  <2>1. i \in Scopes
    BY <1>1 DEF Scopes
  <2>2. edits[i] \in Seq(File!Edit)
    BY <2>1 DEF PdlInv, PdlTypes
  <2>3. i \in DOMAIN pendingReads => pendingReads[i] \in File!Edit
    BY DEF PdlInv, PdlTypes, ReadOf
  <2> QED BY <1>1, <2>2, <2>3 DEF File!IsAccess
<1> HIDE DEF phaseTwo, access
<1> DEFINE S2 == {one[k] : k \in DOMAIN one}
<1>8. AccessesOf(one) = << >> /\ one \in Seq(S2)
  <2>1. one \in Seq(S2)
    <3>1. PICK S : one \in Seq(S)
      BY <1>3
    <3>2. Len(one) \in Nat /\ DOMAIN one = 1 .. Len(one) /\ one = [k \in 1 .. Len(one) |-> one[k]]
      BY <3>1
    <3>3. \A k \in 1 .. Len(one) : one[k] \in S2
      BY <3>2
    <3> HIDE DEF S2
    <3> QED BY <3>2, <3>3, FunctionIsSeq
  <2>2. \A op \in S2 : op.access = NoAccess
    BY <1>4
  <2> HIDE DEF S2
  <2> QED BY <2>1, <2>2, NoAccesses
<1>9. PICK S1 : program \in Seq(S1)
  BY <1>2
<1> DEFINE S == (S1 \cup S2) \cup {phaseTwo}
           T == AccessIn(S)
           queue == AccessesOf(program)
<1>10. program \in Seq(S) /\ one \in Seq(S) /\ <<phaseTwo>> \in Seq(S) /\ phaseTwo \in S
  <2>1. phaseTwo \in S /\ S1 \subseteq S /\ S2 \subseteq S
    OBVIOUS
  <2> HIDE DEF S, S2
  <2> QED BY <1>8, <1>9, <2>1
<1>11. access \in T
  BY <1>5, <1>10 DEF AccessIn
<1> HIDE DEF S, S2, T
<1>12. queue \in Seq(T)
  BY <1>10, AccessesConcat DEF T
<1>13. AccessesOf(program \o one) = queue /\ program \o one \in Seq(S)
  <2>1. AccessesOf(program \o one) = queue \o << >>
    BY <1>8, <1>10, <1>12, AccessesConcat DEF T
  <2> HIDE DEF queue
  <2>2. queue \o << >> = queue /\ program \o one \in Seq(S)
    BY <1>10, <1>12
  <2> QED BY <2>1, <2>2 DEF queue
<1>14. AccessesOf((program \o one) \o <<phaseTwo>>) = queue \o <<access>>
  <2> DEFINE two == program \o one
  <2>1. AccessesOf(<<phaseTwo>>) = <<access>>
    BY <1>5, <1>6, AccessesOne
  <2>2. two \in Seq(S) /\ AccessesOf(two) \in Seq(T)
    BY <1>12, <1>13
  <2> HIDE DEF two
  <2>3. AccessesOf(two \o <<phaseTwo>>) = AccessesOf(two) \o AccessesOf(<<phaseTwo>>)
    BY <1>10, <2>2, AccessesConcat DEF T
  <2> QED BY <1>13, <2>1, <2>3 DEF two
<1> HIDE DEF queue
<1>15. queue \o <<access>> = Append(queue, access) /\ queue \o <<access>> # << >>
       /\ (queue \o <<access>>)[Len(queue \o <<access>>)] = access
  BY <1>11, <1>12
<1>16. Accesses = queue /\ Accesses' = Append(queue, access)
  BY <1>1, <1>14, <1>15 DEF Accesses, queue
<1>17. [w \in Writes |-> po[w]]' = [w \in Writes |-> po[w]] /\ verdict' = verdict
  OBVIOUS
<1> QED BY <1>7, <1>15, <1>16, <1>17 DEF File!Submit

\* Opening the way performs no access.
LEMMA OpeningPerformsNone ==
  ASSUME MuxesLast, NoArmZero, PdlInv, PlayShift, NEW open, Physical(open) \in Stages, Carries(po, open),
         NEW b \in Stages, OpensNext(program[1], Physical(open), b)
  PROVE  UNCHANGED <<[w \in Writes |-> po[w]], Accesses, verdict>>
<1> HIDE DEF Stages
<1>1. program # << >> /\ program[1].kind = "shift" /\ program' = Tail(program)
      /\ po' = Update(Scanned(Played, program[1].tdi).shift, po)
  BY DEF PlayShift, Played
<1>2. program[1].access = NoAccess /\ b.held = [w \in Writes |-> po[w]]
  <2>1. Physical(open).held = [w \in Writes |-> po[w]]
    BY DEF Physical
  <2> QED BY <2>1 DEF OpensNext, ShiftDR
<1>3. \A w \in Writes : po'[w] = b.held[w]
  BY <1>1, ScanOnTheWay DEF Emitted
<1>4. AccessesOf(program) = AccessesOf(Tail(program))
  <2>1. PICK S : program \in Seq(S)
    BY DEF PdlInv, OnTheWay, Leading, Ways!Passage, StepOf
  <2> QED BY <1>1, <1>2, <2>1, AccessesTail
<1>5. verdict' = verdict
  BY <1>2 DEF PlayShift
<1> QED BY <1>1, <1>2, <1>3, <1>4, <1>5 DEF Accesses

\* A delivery performs the access it was lowered for.
LEMMA DeliveryPerforms ==
  ASSUME MuxesLast, NoArmZero, LeafArms, PdlInv, PlayShift, NEW open, Physical(open) \in Stages,
         Carries(po, open), NEW b \in Stages, Delivers(program[1], Physical(open), b)
  PROVE  File!Perform
<1> DEFINE op == program[1]
           result == Scanned(Played, op.tdi)
           rest == AccessesOf(Tail(program))
<1>1. /\ program # << >> /\ op.kind = "shift" /\ program' = Tail(program)
      /\ po' = Update(result.shift, po)
      /\ verdict' = CASE op.access = NoAccess -> verdict
                      [] op.access # NoAccess /\ DOMAIN op.expect = {} -> "none"
                      [] OTHER -> IF \A c \in DOMAIN op.expect : result.out[c + 1] = op.expect[c]
                                    THEN "pass" ELSE "fail"
  BY DEF PlayShift, Played
<1>2. Played.po = po /\ Played.shift = shift /\ DOMAIN Played.po = Latched
  BY DEF Played, PdlInv, PdlTypes
<1>3. Physical(open).open = open /\ Physical(open).held = [w \in Writes |-> po[w]]
  BY DEF Physical
<1>4. PICK i \in Instruments : \E v \in Nat : \E access, expect :
        /\ open = OpenTo(i, Len(Path[i]))
        /\ b.held = [w \in Writes |-> IF w = i THEN v % Pow2[Width[i]] ELSE po[w]]
        /\ op = ShiftDR(layout_bit_length(open), Reverse(compose_bits(open, open, Gate(i).slot, v)), expect, access)
        /\ Asks(access, expect, open, i, [w \in Writes |-> po[w]], v)
  BY <1>3 DEF Delivers
<1>5. PICK v \in Nat : \E access, expect :
        /\ open = OpenTo(i, Len(Path[i]))
        /\ b.held = [w \in Writes |-> IF w = i THEN v % Pow2[Width[i]] ELSE po[w]]
        /\ op = ShiftDR(layout_bit_length(open), Reverse(compose_bits(open, open, Gate(i).slot, v)), expect, access)
        /\ Asks(access, expect, open, i, [w \in Writes |-> po[w]], v)
  BY <1>4
<1>6. PICK access, expect :
        /\ open = OpenTo(i, Len(Path[i]))
        /\ b.held = [w \in Writes |-> IF w = i THEN v % Pow2[Width[i]] ELSE po[w]]
        /\ op = ShiftDR(layout_bit_length(open), Reverse(compose_bits(open, open, Gate(i).slot, v)), expect, access)
        /\ Asks(access, expect, open, i, [w \in Writes |-> po[w]], v)
  BY <1>5
<1> HIDE DEF Stages, op, result
<1>7. /\ op.access = access /\ op.expect = expect
      /\ op.tdi = Reverse(compose_bits(open, open, Gate(i).slot, v))
  BY <1>6 DEF ShiftDR
<1>8. access.inst = i /\ access # NoAccess
  BY <1>6 DEF Asks
<1>9. op.bits = Len(Layout(po)) /\ Len(op.tdi) = op.bits /\ \A w \in Writes : po'[w] = b.held[w]
  <2>1. Emitted(op, Physical(open), b)
    BY DEF Emitted, op
  <2> QED BY <1>1, <2>1, ScanOnTheWay DEF result
<1>10. Accesses = <<access>> \o rest /\ Accesses' = rest /\ \E T : rest \in Seq(T)
  <2>1. PICK S : program \in Seq(S)
    BY DEF PdlInv, OnTheWay, Leading, Ways!Passage, StepOf
  <2>2. rest \in Seq(AccessIn(S)) /\ AccessesOf(program) = <<access>> \o rest
    BY <1>1, <1>7, <1>8, <2>1, AccessesTail DEF op
  <2> QED BY <1>1, <2>2 DEF Accesses
<1> HIDE DEF rest
<1>11. Accesses # << >> /\ Accesses' = Tail(Accesses) /\ Head(Accesses) = access
  <2>1. PICK T : rest \in Seq(T)
    BY <1>10
  <2>2. <<access>> \o rest # << >> /\ Tail(<<access>> \o rest) = rest /\ Head(<<access>> \o rest) = access
    BY <2>1
  <2> QED BY <1>10, <2>2
<1>12. (IF i \in Writes THEN [[w \in Writes |-> po[w]] EXCEPT ![i] = File!AfterEdits(@, access.edits)]
                        ELSE [w \in Writes |-> po[w]])
         = [w \in Writes |-> po'[w]]
  <2> DEFINE held == [w \in Writes |-> po[w]]
  <2>1. i \in Writes => File!AfterEdits(held[i], access.edits) = v % Pow2[Width[i]]
    BY <1>6 DEF Asks
  <2>2. \A w \in Writes : po'[w] = IF w = i THEN v % Pow2[Width[i]] ELSE held[w]
    BY <1>6, <1>9
  <2>3. CASE i \in Writes
    <3> DEFINE new == File!AfterEdits(held[i], access.edits)
    <3>1. [held EXCEPT ![i] = File!AfterEdits(@, access.edits)] = [held EXCEPT ![i] = new]
      OBVIOUS
    <3>2. new = v % Pow2[Width[i]]
      BY <2>1, <2>3
    <3> HIDE DEF new
    <3>3. [held EXCEPT ![i] = new] = [w \in Writes |-> po'[w]]
      BY <2>2, <2>3, <3>2
    <3> QED BY <2>3, <3>1, <3>3
  <2>4. CASE i \notin Writes
    BY <2>2, <2>4
  <2> QED BY <2>3, <2>4
<1>13. CASE access.expects = {} /\ expect = << >>
  <2>1. DOMAIN op.expect = {}
    BY <1>7, <1>13
  <2>2. verdict' = "none"
    BY <1>1, <1>7, <1>8, <2>1
  <2> QED BY <1>8, <1>11, <1>12, <1>13, <2>2 DEF File!Perform
<1>14. ASSUME NEW r \in File!Edit, r.low <= r.high, r.high < Width[i],
              access.expects = {r}, expect = ExpectedTdo(open, i, r)
       PROVE  File!Perform
  <2>1. Moved(Played, op.tdi, result, Len(Layout(Played.po)))
    <3>1. i \in Units /\ Len(Path[i]) \in 0 .. Len(Path[i])
      BY GateStep DEF Units
    <3>2. \A s \in DOMAIN open : open[s] \in Nat
      BY <1>6, <3>1, OpenValues
    <3>3. Len(Layout(open)) # 0
      BY <1>2, <3>1, ChainNotEmpty, CarriedLayout
    <3>4. LET tdi == Reverse(compose_bits(open, open, Gate(i).slot, v)) IN
          Len(tdi) = Len(Layout(Played.po)) /\ Moved(Played, tdi, Scanned(Played, tdi), Len(tdi))
      BY <1>2, <3>2, <3>3, ComposedScan
    <3> QED BY <1>7, <3>4 DEF result
  <2>2. PICK base : CyclesAre(Played, open, i, result.out, base)
    BY <1>2, <1>6, <2>1, ReadCycles
  <2> DEFINE held == IF i \in Writes THEN po[i] ELSE CaptureValue[i]
             good == \A c \in DOMAIN expect : result.out[c + 1] = expect[c]
             matches == \A k \in r.low .. r.high : Bit(held, k) = Bit(r.value, k - r.low)
  <2>3. DOMAIN expect # {} /\ (good <=> matches)
    <3> DEFINE heldPlayed == IF i \in Writes THEN Played.po[i] ELSE CaptureValue[i]
               asked == ExpectedTdo(open, i, r)
    <3>0. JudgedBy(Played.po, open, i, result.out, r)
      BY <1>14, <2>2, Judged
    <3>1. /\ DOMAIN asked # {}
          /\ (\A c \in DOMAIN asked : result.out[c + 1] = asked[c])
               <=> \A k \in r.low .. r.high : Bit(heldPlayed, k) = Bit(r.value, k - r.low)
      BY <3>0 DEF JudgedBy
    <3>2. heldPlayed = held
      BY <1>2
    <3>3. expect = asked
      BY <1>14
    <3> HIDE DEF heldPlayed, held, asked
    <3> QED BY <3>1, <3>2, <3>3
  <2>4. [w \in Writes |-> po[w]][i] = po[i] \/ i \notin Writes
    OBVIOUS
  <2>5. \A x, k : File!Bit(x, k) = Bit(x, k)
    BY DEF File!Bit, Bit, File!Pow2, Pow2
  <2> DEFINE heldThere == IF i \in Writes THEN [w \in Writes |-> po[w]][i] ELSE CaptureValue[i]
  <2>6. heldThere = held
    BY <2>4
  <2>7. File!Matches(access) <=> \A k \in r.low .. r.high : Bit(heldThere, k) = Bit(r.value, k - r.low)
    <3> HIDE DEF heldThere
    <3>1. File!Holds(access.inst) = heldThere
      BY <1>8 DEF File!Holds, heldThere
    <3> QED BY <1>14, <2>5, <3>1 DEF File!Matches
  <2>8. File!Matches(access) <=> matches
    <3> HIDE DEF heldThere, held
    <3> QED BY <2>6, <2>7
  <2> HIDE DEF good, matches
  <2>9. verdict' = IF good THEN "pass" ELSE "fail"
    BY <1>1, <1>7, <1>8, <2>3 DEF good
  <2>10. access.expects # {}
    BY <1>14
  <2> QED BY <1>8, <1>11, <1>12, <2>3, <2>8, <2>9, <2>10 DEF File!Perform
<1> QED BY <1>6, <1>13, <1>14 DEF Asks

\* A wait performs no access.
LEMMA WaitPerformsNone ==
  ASSUME PdlInv, PlayRuntest
  PROVE  UNCHANGED <<[i \in Writes |-> po[i]], Accesses, verdict>>
<1>1. program # << >> /\ program[1].kind = "runtest" /\ program' = Tail(program) /\ UNCHANGED <<po, verdict>>
  BY DEF PlayRuntest
<1>2. AccessesOf(program) = AccessesOf(Tail(program))
  <2>1. PICK S : program \in Seq(S)
    BY DEF PdlInv, OnTheWay, Leading, Ways!Passage, StepOf
  <2> QED BY <1>1, <2>1, AccessesTail
<1> QED BY <1>1, <1>2 DEF Accesses

\* Playing a scan is performing an access, or nothing a register shows.
LEMMA PlayingPerforms ==
  ASSUME MuxesLast, NoArmZero, LeafArms, PdlInv, PlayShift
  PROVE  File!Perform \/ UNCHANGED <<[i \in Writes |-> po[i]], Accesses, verdict>>
<1>1. program # << >> /\ program[1].kind = "shift"
  BY DEF PlayShift
<1>2. PICK open : \E b \in Stages :
        /\ Physical(open) \in Stages /\ Carries(po, open)
        /\ Emitted(program[1], Physical(open), b) /\ Leading(Tail(program), b, Believed)
  BY <1>1, FirstOp
<1>3. PICK b \in Stages :
        /\ Physical(open) \in Stages /\ Carries(po, open)
        /\ Emitted(program[1], Physical(open), b) /\ Leading(Tail(program), b, Believed)
  BY <1>2
<1> HIDE DEF Stages
<1>4. ~Waits(program[1], Physical(open), b)
  BY <1>1 DEF Waits
<1>5. CASE OpensNext(program[1], Physical(open), b)
  BY <1>3, <1>5, OpeningPerformsNone
<1>6. CASE Delivers(program[1], Physical(open), b)
  BY <1>3, <1>6, DeliveryPerforms
<1> QED BY <1>3, <1>4, <1>5, <1>6 DEF Emitted

\* Of the commands only iApply has to do with the registers' queue.
LEMMA CommandsSubmit ==
  ASSUME PdlInv, Command, UNCHANGED <<shift, po, verdict>>
  PROVE  File!Submit \/ UNCHANGED <<[i \in Writes |-> po[i]], Accesses, verdict>>
<1>1. ASSUME program' = program PROVE UNCHANGED <<[i \in Writes |-> po[i]], Accesses, verdict>>
  BY <1>1 DEF Accesses
<1>2. CASE iRunLoop
  <2> DEFINE op == [kind |-> "runtest"]
  <2>1. program' = Append(program, op) /\ op.kind = "runtest"
    BY <1>2 DEF iRunLoop
  <2>2. PICK S : program \in Seq(S)
    BY DEF PdlInv, OnTheWay, Leading, Ways!Passage, StepOf
  <2> DEFINE T == S \cup {op}
  <2>3. program \in Seq(T) /\ op \in T
    <3>1. S \subseteq T /\ op \in T
      OBVIOUS
    <3> HIDE DEF T
    <3> QED BY <2>2, <3>1
  <2> HIDE DEF op, T
  <2>4. AccessesOf(Append(program, op)) = AccessesOf(program)
    BY <2>1, <2>3, AccessesFold DEF AccessStep
  <2> QED BY <2>1, <2>4 DEF Accesses
<1>3. CASE iApply
  BY <1>3, SubmitPdl
<1>4. CASE \E s \in Scopes : iTarget(s)
  BY <1>1, <1>4 DEF iTarget
<1>5. CASE \E v \in WriteValues : iWrite(v)
  BY <1>1, <1>5 DEF iWrite
<1>6. CASE \E v \in WriteValues : \E f \in UNION {Fields[i] : i \in Instruments} : iWriteField(f, v)
  BY <1>1, <1>6 DEF iWriteField
<1>7. CASE \E v \in ReadValues : iRead(v)
  BY <1>1, <1>7 DEF iRead
<1>8. CASE \E v \in ReadValues : \E f \in UNION {Fields[i] : i \in Instruments} : iReadField(f, v)
  BY <1>1, <1>8 DEF iReadField
<1> QED BY <1>2, <1>3, <1>4, <1>5, <1>6, <1>7, <1>8 DEF Command

\* Nothing is written, applied or judged.
LEMMA FileStarts == Init => File!FileInit
<1> SUFFICES ASSUME Init PROVE File!FileInit
  OBVIOUS
<1>1. program = << >> /\ po = PoZero /\ verdict = "none"
  BY DEF Init, PdlInit
<1>2. Accesses = << >>
  BY <1>1, AccessesFold DEF Accesses
<1>3. [i \in Writes |-> po[i]] = [w \in Writes |-> 0]
  BY <1>1, WritesFit DEF PoZero
<1> QED BY <1>1, <1>2, <1>3 DEF File!FileInit

\* Programs make the instruments behave as registers (PDLInterpreter.iApply
\* and play against what InstrumentFile promises): on every network whose muxes
\* meet the three conditions, whatever the order of commands and operations.
THEOREM ProgramsActAsRegisters ==
  ASSUME MuxesLast, NoArmZero, LeafArms PROVE Spec => ImplementsInstrumentFile
<1>1. PdlInv /\ [Next]_vars => [File!FileNext]_(File!fileVars)
  <2> SUFFICES ASSUME PdlInv, [Next]_vars
               PROVE  File!FileNext \/ UNCHANGED <<[i \in Writes |-> po[i]], Accesses, verdict>>
    BY DEF File!fileVars
  <2>1. CASE Command /\ UNCHANGED <<shift, po, verdict>>
    BY <2>1, CommandsSubmit DEF File!FileNext
  <2>2. CASE PlayShift
    BY <2>2, PlayingPerforms DEF File!FileNext
  <2>3. CASE PlayRuntest
    BY <2>3, WaitPerformsNone
  <2>4. CASE UNCHANGED vars
    BY <2>4 DEF vars, pdlVars, Accesses
  <2> QED BY <2>1, <2>2, <2>3, <2>4 DEF Next
<1> QED BY <1>1, FileStarts, PdlInvariant, PTL DEF Spec, ImplementsInstrumentFile, File!FileSpec
=============================================================================
