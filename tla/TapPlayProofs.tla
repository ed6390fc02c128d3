---------------------------- MODULE TapPlayProofs ----------------------------
(***************************************************************************)
(* What playing a program does, for every TAP, every network plugged into  *)
(* it and every sequence of operation groups; and what the STIL to_stil    *)
(* writes of the program does when a tester runs it.                       *)
(***************************************************************************)
EXTENDS StilPattern, InductionLemmas

----------------------------------------------------------------------------
(* A scan of the network, one bit at a time.                               *)

ScanBase(from) == [shift |-> Capture(from.shift, from.po), out |-> << >>]
ScanStep(from, scan, bit) ==
  [shift |-> Shift(scan.shift, from.po, bit),
   out |-> Append(scan.out, TailBit(scan.shift, from.po))]

ScanFold == INSTANCE InductionLemmas WITH FoldBase <- ScanBase, FoldStep <- ScanStep

\* A scan captures, and one more bit is one more shift, whose TDO is observed.
LEMMA ScanBits ==
  ASSUME NEW from, NEW tdi \in Seq(Bits), NEW bit \in Bits
  PROVE  /\ NetworkScan(from, << >>) = ScanBase(from)
         /\ NetworkScan(from, Append(tdi, bit)) = ScanStep(from, NetworkScan(from, tdi), bit)
<1>1. \A t : NetworkScan(from, t) = ScanFold!Fold(from, t)
  BY DEF NetworkScan, ScanBase, ScanStep, ScanFold!Fold, FoldLeft, ScanFold!FoldLeft,
         MapThenFoldSet, ScanFold!MapThenFoldSet, Max, ScanFold!Max
<1>2. NetworkScan(from, << >>) = ScanBase(from)
  BY <1>1, ScanFold!FoldEmpty
<1>3. NetworkScan(from, Append(tdi, bit)) = ScanStep(from, NetworkScan(from, tdi), bit)
  BY <1>1, ScanFold!FoldAppend
<1> QED BY <1>2, <1>3

----------------------------------------------------------------------------
(* What is left of a sequence after its first elements.                    *)

Rest(left, whole, done) ==
  done \in 0 .. Len(whole) /\ left = SubSeq(whole, done + 1, Len(whole))

\* Before the first element everything is left, after the last one nothing.
LEMMA RestEnds ==
  ASSUME NEW S, NEW whole \in Seq(S)
  PROVE  /\ Len(whole) \in Nat
         /\ Rest(whole, whole, 0)
         /\ \A left, done : Rest(left, whole, done) => (left = << >> <=> done = Len(whole))
<1>1. Len(whole) \in Nat
  OBVIOUS
<1>2. Rest(whole, whole, 0)
  BY <1>1, SubSeqFull DEF Rest
<1>3. ASSUME NEW left, NEW done, Rest(left, whole, done)
      PROVE  left = << >> <=> done = Len(whole)
  <2>1. done \in 0 .. Len(whole) /\ left = SubSeq(whole, done + 1, Len(whole))
    BY <1>3 DEF Rest
  <2>2. CASE done = Len(whole)
    BY <1>1, <2>1, <2>2, SubSeqEmpty
  <2>3. CASE done # Len(whole)
    <3>1. /\ done + 1 \in Int /\ done + 1 <= Len(whole)
          /\ \A i \in done + 1 .. Len(whole) : whole[i] \in S
      BY <1>1, <2>1, <2>3
    <3>2. Len(left) = Len(whole) - (done + 1) + 1
      BY <1>1, <2>1, <3>1, SubSeqProperties
    <3>3. Len(whole) - (done + 1) + 1 # 0
      <4>1. done \in Nat /\ done < Len(whole)
        BY <1>1, <2>1, <2>3
      <4> QED BY <1>1, <4>1
    <3> QED BY <2>3, <3>2, <3>3, EmptySeq
  <2> QED BY <2>2, <2>3
<1> QED BY <1>1, <1>2, <1>3

\* The next element, and what is left after it.
LEMMA RestNext ==
  ASSUME NEW S, NEW whole \in Seq(S), NEW left, NEW done, Rest(left, whole, done), left # << >>
  PROVE  /\ done \in Nat /\ done + 1 \in 1 .. Len(whole) /\ done < Len(whole)
         /\ Head(left) = whole[done + 1] /\ Rest(Tail(left), whole, done + 1)
<1>1. Len(whole) \in Nat /\ done \in 0 .. Len(whole) /\ done # Len(whole)
  BY RestEnds DEF Rest
<1>2. done + 1 \in 1 .. Len(whole) /\ Len(whole) \in done + 1 .. Len(whole)
  BY <1>1
<1>3. /\ Head(SubSeq(whole, done + 1, Len(whole))) = whole[done + 1]
      /\ Tail(SubSeq(whole, done + 1, Len(whole))) = SubSeq(whole, (done + 1) + 1, Len(whole))
  BY <1>2, HeadTailOfSubSeq
<1> QED BY <1>1, <1>2, <1>3 DEF Rest

\* The first elements and the next one.
LEMMA OneLonger ==
  ASSUME NEW S, NEW seq \in Seq(S), NEW k \in Nat, k < Len(seq)
  PROVE  /\ SubSeq(seq, 1, k) \in Seq(S) /\ seq[k + 1] \in S
         /\ SubSeq(seq, 1, k + 1) = Append(SubSeq(seq, 1, k), seq[k + 1])
         /\ SubSeq(seq, 1, 0) = << >>
<1>1. Len(seq) \in Nat /\ k + 1 \in 1 .. Len(seq) /\ (k + 1) - 1 = k /\ k \in Int
  OBVIOUS
<1>2. \A i \in 1 .. k : seq[i] \in S
  BY <1>1
<1>3. SubSeq(seq, 1, k) \in Seq(S) /\ seq[k + 1] \in S
  BY <1>1, <1>2, SubSeqProperties
<1>4. SubSeq(seq, 1, k + 1) = SubSeq(seq, 1, k) \o << seq[k + 1] >>
  <2>1. 1 \in 1 .. Len(seq) /\ k + 1 \in 1 .. Len(seq)
    BY <1>1
  <2> QED BY <1>1, <2>1, SubSeqRecursiveSecond
<1>5. SubSeq(seq, 1, k) \o << seq[k + 1] >> = Append(SubSeq(seq, 1, k), seq[k + 1])
  BY <1>3
<1>6. SubSeq(seq, 1, 0) = << >>
  BY SubSeqEmpty
<1> QED BY <1>3, <1>4, <1>5, <1>6

\* A value that is a sequence, whatever it is a sequence of.
Sequence(s) == \E S : s \in Seq(S)

\* Sequences stay sequences.
LEMMA StillSequence ==
  ASSUME NEW s, Sequence(s), NEW e
  PROVE  /\ Sequence(Append(s, e)) /\ Append(s, e) # << >>
         /\ Last(Append(s, e)) = e /\ Append(s, e)[Len(Append(s, e))] = e
         /\ Sequence([s EXCEPT ![Len(s)] = e])
         /\ s # << >> => /\ [s EXCEPT ![Len(s)] = e] # << >>
                         /\ Last([s EXCEPT ![Len(s)] = e]) = e
<1>1. PICK S : s \in Seq(S)
  BY DEF Sequence
<1> DEFINE T == S \cup {e}
<1>2. s \in Seq(T) /\ e \in T /\ Len(s) \in Nat
  BY <1>1
<1> HIDE DEF T
<1>3. Append(s, e) \in Seq(T) /\ Len(Append(s, e)) = Len(s) + 1 /\ Append(s, e)[Len(s) + 1] = e
  BY <1>2
<1>4. ASSUME s # << >>
      PROVE  /\ Sequence([s EXCEPT ![Len(s)] = e])
             /\ [s EXCEPT ![Len(s)] = e] # << >>
             /\ Last([s EXCEPT ![Len(s)] = e]) = e
  <2>1. Len(s) \in 1 .. Len(s)
    BY <1>2, <1>4
  <2>2. /\ [s EXCEPT ![Len(s)] = e] \in Seq(T)
        /\ Len([s EXCEPT ![Len(s)] = e]) = Len(s)
        /\ [s EXCEPT ![Len(s)] = e][Len(s)] = e
    BY <1>2, <2>1, ExceptSeq
  <2>3. [s EXCEPT ![Len(s)] = e] # << >>
    BY <1>2, <2>1, <2>2, EmptySeq
  <2> QED BY <2>2, <2>3 DEF Sequence, Last
<1>5. Append(s, e) # << >>
  BY <1>2, <1>3, EmptySeq
<1>6. CASE s = << >>
  <2>1. [s EXCEPT ![Len(s)] = e] = s
    BY <1>6
  <2> QED BY <1>2, <1>3, <1>5, <1>6, <2>1 DEF Sequence, Last
<1>7. CASE s # << >>
  BY <1>2, <1>3, <1>4, <1>5, <1>7 DEF Sequence, Last
<1> QED BY <1>6, <1>7

----------------------------------------------------------------------------
(* One TCK.                                                                *)

Selected == Tap!network_access_instruction

\* What one TCK does to the TAP and the network, from any state of the TAP.
LEMMA TickEffect ==
  ASSUME state \in Tap!TapState, NEW tms \in Bits, NEW tdi \in Bits,
         Tap!Tick(tms, tdi, TailBit(shift, po)), NetworkTick(tdi)
  PROVE  /\ ~Tap!NoActiveDr
         /\ state' = Tap!next_state(state, tms) /\ state' \in Tap!TapState
         /\ instruction' = CASE state = "TEST_LOGIC_RESET" -> Tap!reset_instruction
                             [] state = "UPDATE_IR" -> Tap!decode_instruction(irShift)
                             [] OTHER -> instruction
         /\ irShift' = CASE state = "CAPTURE_IR" -> Tap!CAPTURE_IR_PATTERN
                         [] state = "SHIFT_IR" -> Tap!Shifted(irShift, IrWidth, tdi)
                         [] OTHER -> irShift
         /\ state = "SHIFT_IR" => tdo' = irShift[0]
         /\ state = "SHIFT_DR" =>
              tdo' = CASE instruction = "BYPASS" -> bypassBit
                       [] instruction = "IDCODE" -> idcodeShift[0]
                       [] OTHER -> TailBit(shift, po)
         /\ state = "CAPTURE_DR" /\ instruction = "BYPASS" => bypassBit' = 0
         /\ state = "CAPTURE_DR" /\ instruction = "IDCODE" => idcodeShift' = IdcodeValue
         /\ state = "SHIFT_DR" /\ instruction = "BYPASS" => bypassBit' = tdi
         /\ state = "SHIFT_DR" /\ instruction = "IDCODE" =>
              idcodeShift' = Tap!Shifted(idcodeShift, IdcodeWidth, tdi)
         /\ state \notin {"CAPTURE_DR", "SHIFT_DR"} =>
              bypassBit' = bypassBit /\ idcodeShift' = idcodeShift
         /\ shift' = CASE instruction = Selected /\ state = "CAPTURE_DR" -> Capture(shift, po)
                       [] instruction = Selected /\ state = "SHIFT_DR" -> Shift(shift, po, tdi)
                       [] OTHER -> shift
         /\ po' = IF instruction = Selected /\ state = "UPDATE_DR" THEN Update(shift, po) ELSE po
<1>1. /\ ~Tap!NoActiveDr /\ state' = Tap!next_state(state, tms)
      /\ Tap!TickDispatch(tdi, TailBit(shift, po))
  BY DEF Tap!Tick
<1>2. state' \in Tap!TapState
  BY <1>1 DEF Tap!TapState, Bits, Tap!next_state, Tap!TRANSITIONS
<1>3. /\ instruction' = CASE state = "TEST_LOGIC_RESET" -> Tap!reset_instruction
                          [] state = "UPDATE_IR" -> Tap!decode_instruction(irShift)
                          [] OTHER -> instruction
      /\ irShift' = CASE state = "CAPTURE_IR" -> Tap!CAPTURE_IR_PATTERN
                      [] state = "SHIFT_IR" -> Tap!Shifted(irShift, IrWidth, tdi)
                      [] OTHER -> irShift
  BY <1>1 DEF Tap!TickDispatch, Tap!TickInReset, Tap!TickCaptureIr, Tap!TickShiftIr,
     Tap!TickUpdateIr, Tap!TickCaptureDr, Tap!TickShiftDr, Tap!TickElsewhere
<1>4. /\ state = "SHIFT_IR" => tdo' = irShift[0]
      /\ state = "SHIFT_DR" =>
           tdo' = CASE instruction = "BYPASS" -> bypassBit
                    [] instruction = "IDCODE" -> idcodeShift[0]
                    [] OTHER -> TailBit(shift, po)
  BY <1>1 DEF Tap!TickDispatch, Tap!TickInReset, Tap!TickCaptureIr, Tap!TickShiftIr,
     Tap!TickUpdateIr, Tap!TickCaptureDr, Tap!TickShiftDr, Tap!TickElsewhere
<1>5. /\ state = "CAPTURE_DR" /\ instruction = "BYPASS" => bypassBit' = 0
      /\ state = "CAPTURE_DR" /\ instruction = "IDCODE" => idcodeShift' = IdcodeValue
      /\ state = "SHIFT_DR" /\ instruction = "BYPASS" => bypassBit' = tdi
      /\ state = "SHIFT_DR" /\ instruction = "IDCODE" =>
           idcodeShift' = Tap!Shifted(idcodeShift, IdcodeWidth, tdi)
      /\ state \notin {"CAPTURE_DR", "SHIFT_DR"} =>
           bypassBit' = bypassBit /\ idcodeShift' = idcodeShift
  BY <1>1 DEF Tap!TickDispatch, Tap!TickInReset, Tap!TickCaptureIr, Tap!TickShiftIr,
     Tap!TickUpdateIr, Tap!TickCaptureDr, Tap!TickShiftDr, Tap!TickElsewhere
<1>6. /\ shift' = CASE instruction = Selected /\ state = "CAPTURE_DR" -> Capture(shift, po)
                    [] instruction = Selected /\ state = "SHIFT_DR" -> Shift(shift, po, tdi)
                    [] OTHER -> shift
      /\ po' = IF instruction = Selected /\ state = "UPDATE_DR" THEN Update(shift, po) ELSE po
  BY DEF NetworkTick, NetworkSelected, Selected
<1> QED BY <1>1, <1>2, <1>3, <1>4, <1>5, <1>6

----------------------------------------------------------------------------
(* The operations' cycles.                                                 *)

Cycle == Bits \X Bits
Walk(tms) == [i \in DOMAIN tms |-> <<tms[i], 0>>]
ShiftCycles(tdi) ==
  LET tms == shift_tms(Len(tdi)) IN [i \in DOMAIN tms |-> <<tms[i], tdi[i]>>]
Idling == [i \in 1 .. 4 |-> <<0, 0>>]

\* The walks a navigation takes, edge by edge.
LEMMA Walks ==
  /\ /\ Walk(<<1, 0, 0>>) \in Seq(Cycle) /\ Len(Walk(<<1, 0, 0>>)) = 3
     /\ \A i \in 1 .. 3 : Walk(<<1, 0, 0>>)[i] = <<IF i = 1 THEN 1 ELSE 0, 0>>
  /\ /\ Walk(<<1, 1, 0, 0>>) \in Seq(Cycle) /\ Len(Walk(<<1, 1, 0, 0>>)) = 4
     /\ \A i \in 1 .. 4 : Walk(<<1, 1, 0, 0>>)[i] = <<IF i <= 2 THEN 1 ELSE 0, 0>>
  /\ /\ Walk(<<1, 1, 1, 1, 1>>) \in Seq(Cycle) /\ Len(Walk(<<1, 1, 1, 1, 1>>)) = 5
     /\ \A i \in 1 .. 5 : Walk(<<1, 1, 1, 1, 1>>)[i] = <<1, 0>>
  /\ /\ Walk(<<1, 0>>) \in Seq(Cycle) /\ Len(Walk(<<1, 0>>)) = 2
     /\ \A i \in 1 .. 2 : Walk(<<1, 0>>)[i] = <<IF i = 1 THEN 1 ELSE 0, 0>>
  /\ /\ Walk(<< 0 >>) \in Seq(Cycle) /\ Len(Walk(<< 0 >>)) = 1
     /\ \A i \in 1 .. 1 : Walk(<< 0 >>)[i] = <<0, 0>>
  /\ /\ Idling \in Seq(Cycle) /\ Len(Idling) = 4
     /\ \A i \in 1 .. 4 : Idling[i] = <<0, 0>>
<1> USE DEF Walk, Cycle, Bits
<1>1. /\ Walk(<<1, 0, 0>>) \in Seq(Cycle) /\ Len(Walk(<<1, 0, 0>>)) = 3
      /\ \A i \in 1 .. 3 : Walk(<<1, 0, 0>>)[i] = <<IF i = 1 THEN 1 ELSE 0, 0>>
  <2>1. DOMAIN <<1, 0, 0>> = 1 .. 3
    OBVIOUS
  <2>2. Walk(<<1, 0, 0>>) \in [1 .. 3 -> Cycle]
    BY <2>1
  <2>3. \A i \in 1 .. 3 : Walk(<<1, 0, 0>>)[i] = <<IF i = 1 THEN 1 ELSE 0, 0>>
    BY <2>1
  <2> QED BY <2>2, <2>3, FunctionIsSeq
<1>2. /\ Walk(<<1, 1, 0, 0>>) \in Seq(Cycle) /\ Len(Walk(<<1, 1, 0, 0>>)) = 4
      /\ \A i \in 1 .. 4 : Walk(<<1, 1, 0, 0>>)[i] = <<IF i <= 2 THEN 1 ELSE 0, 0>>
  <2>1. DOMAIN <<1, 1, 0, 0>> = 1 .. 4
    OBVIOUS
  <2>2. Walk(<<1, 1, 0, 0>>) \in [1 .. 4 -> Cycle]
    BY <2>1
  <2>3. \A i \in 1 .. 4 : Walk(<<1, 1, 0, 0>>)[i] = <<IF i <= 2 THEN 1 ELSE 0, 0>>
    BY <2>1
  <2> QED BY <2>2, <2>3, FunctionIsSeq
<1>3. /\ Walk(<<1, 1, 1, 1, 1>>) \in Seq(Cycle) /\ Len(Walk(<<1, 1, 1, 1, 1>>)) = 5
      /\ \A i \in 1 .. 5 : Walk(<<1, 1, 1, 1, 1>>)[i] = <<1, 0>>
  <2>1. DOMAIN <<1, 1, 1, 1, 1>> = 1 .. 5
    OBVIOUS
  <2>2. Walk(<<1, 1, 1, 1, 1>>) \in [1 .. 5 -> Cycle]
    BY <2>1
  <2>3. \A i \in 1 .. 5 : Walk(<<1, 1, 1, 1, 1>>)[i] = <<1, 0>>
    BY <2>1
  <2> QED BY <2>2, <2>3, FunctionIsSeq
<1>4. /\ Walk(<<1, 0>>) \in Seq(Cycle) /\ Len(Walk(<<1, 0>>)) = 2
      /\ \A i \in 1 .. 2 : Walk(<<1, 0>>)[i] = <<IF i = 1 THEN 1 ELSE 0, 0>>
  <2>1. DOMAIN <<1, 0>> = 1 .. 2
    OBVIOUS
  <2>2. Walk(<<1, 0>>) \in [1 .. 2 -> Cycle]
    BY <2>1
  <2>3. \A i \in 1 .. 2 : Walk(<<1, 0>>)[i] = <<IF i = 1 THEN 1 ELSE 0, 0>>
    BY <2>1
  <2> QED BY <2>2, <2>3, FunctionIsSeq
<1>5. /\ Walk(<< 0 >>) \in Seq(Cycle) /\ Len(Walk(<< 0 >>)) = 1
      /\ \A i \in 1 .. 1 : Walk(<< 0 >>)[i] = <<0, 0>>
  <2>1. DOMAIN << 0 >> = 1 .. 1
    OBVIOUS
  <2>2. Walk(<< 0 >>) \in [1 .. 1 -> Cycle]
    BY <2>1
  <2>3. \A i \in 1 .. 1 : Walk(<< 0 >>)[i] = <<0, 0>>
    BY <2>1
  <2> QED BY <2>2, <2>3, FunctionIsSeq
<1>6. /\ Idling \in Seq(Cycle) /\ Len(Idling) = 4
      /\ \A i \in 1 .. 4 : Idling[i] = <<0, 0>>
  <2>1. Idling \in [1 .. 4 -> Cycle]
    BY DEF Idling
  <2> QED BY <2>1, FunctionIsSeq DEF Idling
<1> QED BY <1>1, <1>2, <1>3, <1>4, <1>5, <1>6

\* The cycles of a scan's bits, the last of which leaves the shift state.
LEMMA ShiftWalk ==
  ASSUME NEW tdi \in Seq(Bits)
  PROVE  /\ Len(tdi) \in Nat
         /\ ShiftCycles(tdi) \in Seq(Cycle) /\ Len(ShiftCycles(tdi)) = Len(tdi)
         /\ \A i \in 1 .. Len(tdi) :
              ShiftCycles(tdi)[i] = <<IF i = Len(tdi) THEN 1 ELSE 0, tdi[i]>>
<1>1. Len(tdi) \in Nat /\ \A i \in 1 .. Len(tdi) : tdi[i] \in Bits
  OBVIOUS
<1>2. DOMAIN shift_tms(Len(tdi)) = 1 .. Len(tdi)
  BY DEF shift_tms
<1>3. /\ ShiftCycles(tdi) \in [1 .. Len(tdi) -> Cycle]
      /\ \A i \in 1 .. Len(tdi) :
           ShiftCycles(tdi)[i] = <<IF i = Len(tdi) THEN 1 ELSE 0, tdi[i]>>
  BY <1>1, <1>2 DEF ShiftCycles, shift_tms, Cycle, Bits
<1> QED BY <1>1, <1>3, FunctionIsSeq

\* What each operation sends, and where it raises instead.
LEMMA OperationCycles ==
  /\ /\ ~NavigationRaises("RUN_TEST_IDLE", "SHIFT_DR")
     /\ CyclesOf(Goto("SHIFT_DR"), "RUN_TEST_IDLE") = Walk(<<1, 0, 0>>)
  /\ /\ ~NavigationRaises("RUN_TEST_IDLE", "SHIFT_IR")
     /\ CyclesOf(Goto("SHIFT_IR"), "RUN_TEST_IDLE") = Walk(<<1, 1, 0, 0>>)
  /\ \A s : /\ ~NavigationRaises(s, "TEST_LOGIC_RESET")
            /\ CyclesOf(Goto("TEST_LOGIC_RESET"), s) = Walk(<<1, 1, 1, 1, 1>>)
  /\ \A s \in {"EXIT1_DR", "EXIT1_IR"} :
       /\ ~NavigationRaises(s, "RUN_TEST_IDLE")
       /\ CyclesOf(Goto("RUN_TEST_IDLE"), s) = Walk(<<1, 0>>)
  /\ /\ ~NavigationRaises("TEST_LOGIC_RESET", "RUN_TEST_IDLE")
     /\ CyclesOf(Goto("RUN_TEST_IDLE"), "TEST_LOGIC_RESET") = Walk(<< 0 >>)
  /\ \A s, tdi : CyclesOf(ShiftBits(tdi), s) = ShiftCycles(tdi)
  /\ \A s : CyclesOf(Runtest(4), s) = Idling
  /\ \A s, op : op.kind \in {"pins", "pulse"} => CyclesOf(op, s) = << >>
<1>1. \A s, tdi : CyclesOf(ShiftBits(tdi), s) = ShiftCycles(tdi)
  BY DEF CyclesOf, ShiftBits, ShiftCycles
<1>2. \A s : CyclesOf(Runtest(4), s) = Idling
  BY DEF CyclesOf, Runtest, Idling
<1>3. \A s, op : op.kind \in {"pins", "pulse"} => CyclesOf(op, s) = << >>
  BY DEF CyclesOf
<1>4. \A s, target : CyclesOf(Goto(target), s) = Walk(navigation_tms(s, target))
  BY DEF CyclesOf, Goto, Walk
<1>5. /\ navigation_tms("RUN_TEST_IDLE", "SHIFT_DR") = <<1, 0, 0>>
      /\ navigation_tms("RUN_TEST_IDLE", "SHIFT_IR") = <<1, 1, 0, 0>>
      /\ \A s : navigation_tms(s, "TEST_LOGIC_RESET") = <<1, 1, 1, 1, 1>>
      /\ \A s \in {"EXIT1_DR", "EXIT1_IR"} : navigation_tms(s, "RUN_TEST_IDLE") = <<1, 0>>
      /\ navigation_tms("TEST_LOGIC_RESET", "RUN_TEST_IDLE") = << 0 >>
  <2>1. navigation_tms("RUN_TEST_IDLE", "SHIFT_DR") = <<1, 0, 0>>
    BY DEF navigation_tms
  <2>2. navigation_tms("RUN_TEST_IDLE", "SHIFT_IR") = <<1, 1, 0, 0>>
    BY DEF navigation_tms
  <2>3. \A s : navigation_tms(s, "TEST_LOGIC_RESET") = <<1, 1, 1, 1, 1>>
    BY DEF navigation_tms
  <2>4. navigation_tms("EXIT1_DR", "RUN_TEST_IDLE") = <<1, 0>>
    BY DEF navigation_tms
  <2>5. navigation_tms("EXIT1_IR", "RUN_TEST_IDLE") = <<1, 0>>
    BY DEF navigation_tms
  <2>6. navigation_tms("TEST_LOGIC_RESET", "RUN_TEST_IDLE") = << 0 >>
    BY DEF navigation_tms
  <2> QED BY <2>1, <2>2, <2>3, <2>4, <2>5, <2>6
<1>6. /\ ~NavigationRaises("RUN_TEST_IDLE", "SHIFT_DR")
      /\ ~NavigationRaises("RUN_TEST_IDLE", "SHIFT_IR")
      /\ \A s : ~NavigationRaises(s, "TEST_LOGIC_RESET")
      /\ \A s \in {"EXIT1_DR", "EXIT1_IR"} : ~NavigationRaises(s, "RUN_TEST_IDLE")
      /\ ~NavigationRaises("TEST_LOGIC_RESET", "RUN_TEST_IDLE")
  BY DEF NavigationRaises
<1> QED BY <1>1, <1>2, <1>3, <1>4, <1>5, <1>6

\* The groups of operations, one by one.
LEMMA Programs ==
  /\ \A tdi : LET p == DrScan(tdi) IN
       /\ p \in Seq({p[1], p[2], p[3]}) /\ Len(p) = 3
       /\ p[1] = Goto("SHIFT_DR") /\ p[2] = ShiftBits(tdi) /\ p[3] = Goto("RUN_TEST_IDLE")
  /\ \A opcode : LET p == select_instruction(opcode) IN
       /\ p \in Seq({p[1], p[2], p[3]}) /\ Len(p) = 3
       /\ p[1] = Goto("SHIFT_IR") /\ p[2] = ShiftBits([i \in 1 .. IrWidth |-> opcode[i - 1]])
       /\ p[3] = Goto("RUN_TEST_IDLE")
  /\ LET p == TmsReset IN
       /\ p \in Seq({p[1], p[2]}) /\ Len(p) = 2
       /\ p[1] = Goto("TEST_LOGIC_RESET") /\ p[2] = Goto("RUN_TEST_IDLE")
  /\ LET p == UnsettledReset IN
       /\ p \in Seq({p[1]}) /\ Len(p) = 1 /\ p[1] = Goto("TEST_LOGIC_RESET")
  /\ \A op : <<op>> \in Seq({op}) /\ Len(<<op>>) = 1 /\ <<op>>[1] = op
<1>1. \A x, y, z : /\ <<x, y, z>> \in Seq({x, y, z}) /\ Len(<<x, y, z>>) = 3
                  /\ <<x, y, z>>[1] = x /\ <<x, y, z>>[2] = y /\ <<x, y, z>>[3] = z
  OBVIOUS
<1>2. \A x, y : /\ <<x, y>> \in Seq({x, y}) /\ Len(<<x, y>>) = 2
               /\ <<x, y>>[1] = x /\ <<x, y>>[2] = y
  OBVIOUS
<1>3. \A x : <<x>> \in Seq({x}) /\ Len(<<x>>) = 1 /\ <<x>>[1] = x
  OBVIOUS
<1>4. \A tdi : LET p == DrScan(tdi) IN
       /\ p \in Seq({p[1], p[2], p[3]}) /\ Len(p) = 3
       /\ p[1] = Goto("SHIFT_DR") /\ p[2] = ShiftBits(tdi) /\ p[3] = Goto("RUN_TEST_IDLE")
  BY <1>1 DEF DrScan
<1>5. \A opcode : LET p == select_instruction(opcode) IN
       /\ p \in Seq({p[1], p[2], p[3]}) /\ Len(p) = 3
       /\ p[1] = Goto("SHIFT_IR") /\ p[2] = ShiftBits([i \in 1 .. IrWidth |-> opcode[i - 1]])
       /\ p[3] = Goto("RUN_TEST_IDLE")
  BY <1>1 DEF select_instruction
<1> QED BY <1>2, <1>3, <1>4, <1>5 DEF TmsReset, UnsettledReset

----------------------------------------------------------------------------
(* How far a group of operations has got.                                  *)

Stable == {"RUN_TEST_IDLE", "TEST_LOGIC_RESET"}

\* The group is emitted; n of its operations are started, and done cycles of
\* the last one, of this kind, are sent.
Waiting(program) == Rest(ops, program, 0) /\ cycles = << >>
Doing(program, n, kind, whole, done) ==
  /\ Rest(ops, program, n) /\ Rest(cycles, whole, done)
  /\ log # << >> /\ log[Len(log)].kind = kind

\* What starting the next operation does.
LEMMA StartEffect ==
  ASSUME StartOp, NEW S, NEW program \in Seq(S), NEW n, Rest(ops, program, n)
  PROVE  LET op == program[n + 1] IN
         /\ n + 1 \in 1 .. Len(program) /\ cycles = << >> /\ ~raised
         /\ \/ /\ op.kind = "goto" /\ NavigationRaises(state, op.state)
               /\ raised' = TRUE /\ UNCHANGED <<ops, cycles, log, observed, pins, applied>>
            \/ /\ ~(op.kind = "goto" /\ NavigationRaises(state, op.state))
               /\ Rest(ops', program, n + 1) /\ cycles' = CyclesOf(op, state)
               /\ log' = Append(log, op)
               /\ observed' = IF op.kind = "shift" THEN Append(observed, << >>) ELSE observed
               /\ pins' = PinsAfter(op)
               /\ applied' = IF op.kind = "pulse" THEN applied \o Pulses(op) ELSE applied
               /\ raised' = raised
         /\ UNCHANGED <<tapVars, shift, po, trace, block, before, blocks, plan, visited>>
<1>1. ops # << >> /\ cycles = << >> /\ ~raised
  BY DEF StartOp
<1>2. /\ n + 1 \in 1 .. Len(program) /\ Head(ops) = program[n + 1]
      /\ Rest(Tail(ops), program, n + 1)
  BY <1>1, RestNext
<1> QED BY <1>1, <1>2 DEF StartOp

\* What sending the next cycle of an operation does.
LEMMA CycleEffect ==
  ASSUME PlayTick, NEW whole \in Seq(Cycle), NEW done, Rest(cycles, whole, done)
  PROVE  LET tms == whole[done + 1][1]  tdi == whole[done + 1][2] IN
         /\ done \in Nat /\ done + 1 \in 1 .. Len(whole) /\ done < Len(whole)
         /\ tms \in Bits /\ tdi \in Bits
         /\ Tap!Tick(tms, tdi, TailBit(shift, po)) /\ NetworkTick(tdi)
         /\ Rest(cycles', whole, done + 1)
         /\ observed' = IF log[Len(log)].kind = "shift"
                           THEN [observed EXCEPT ![Len(observed)] = Append(@, tdo')]
                           ELSE observed
         /\ trace' = Append(trace, tdo')
         /\ \E bit : applied' = Append(applied, Edge("tck", tms, tdi, bit, pins))
         /\ ~raised /\ UNCHANGED <<ops, raised, log, block, before, blocks, pins, plan>>
<1>1. cycles # << >> /\ ~raised
  BY DEF PlayTick
<1>2. /\ done \in Nat /\ done + 1 \in 1 .. Len(whole) /\ done < Len(whole)
      /\ Head(cycles) = whole[done + 1] /\ Rest(Tail(cycles), whole, done + 1)
  BY <1>1, RestNext
<1>3. whole[done + 1][1] \in Bits /\ whole[done + 1][2] \in Bits
  <2>1. whole[done + 1] \in Cycle
    BY <1>2
  <2> QED BY <2>1 DEF Cycle
<1> QED BY <1>1, <1>2, <1>3 DEF PlayTick

----------------------------------------------------------------------------
(* A scan.                                                                 *)

\* The bits a built-in register passes on: what it captured, then what is fed.
Stream(from, tdi) ==
  (IF from.instruction = "IDCODE" THEN [i \in 1 .. IdcodeWidth |-> IdcodeValue[i - 1]]
                                  ELSE << 0 >>) \o tdi

Same ==
  shift = before.shift /\ po = before.po /\ instruction = before.instruction

\* What the registers hold, and what has been observed, after k of the bits.
ScanHolds(tdi, k) ==
  /\ instruction = before.instruction /\ instruction \in DataRegisters
  /\ po = before.po
  /\ shift = IF instruction = Selected THEN NetworkScan(before, SubSeq(tdi, 1, k)).shift
                                       ELSE before.shift
  /\ instruction = "BYPASS" => bypassBit = Stream(before, tdi)[k + 1]
  /\ instruction = "IDCODE" =>
       idcodeShift = [i \in 0 .. IdcodeWidth - 1 |-> Stream(before, tdi)[k + 1 + i]]
ScanShows(tdi, k) ==
  /\ observed # << >>
  /\ Last(observed) = IF before.instruction = Selected
                        THEN NetworkScan(before, SubSeq(tdi, 1, k)).out
                        ELSE SubSeq(Stream(before, tdi), 1, k)

\* The scan is over.
ScanEnded(tdi) ==
  LET scan == NetworkScan(before, tdi) IN
  /\ instruction = before.instruction
  /\ po = IF instruction = Selected THEN Update(scan.shift, before.po) ELSE before.po
  /\ shift = IF instruction = Selected THEN scan.shift ELSE before.shift

ScanEntering(tdi, j) ==
  /\ Doing(DrScan(tdi), 1, "goto", Walk(<<1, 0, 0>>), j)
  /\ \/ j = 0 /\ state = "RUN_TEST_IDLE" /\ Same
     \/ j = 1 /\ state = "SELECT_DR_SCAN" /\ Same
     \/ j = 2 /\ state = "CAPTURE_DR" /\ Same
     \/ j = 3 /\ state = "SHIFT_DR" /\ ScanHolds(tdi, 0)
ScanShifting(tdi, k) ==
  /\ Doing(DrScan(tdi), 2, "shift", ShiftCycles(tdi), k)
  /\ state = IF k = Len(tdi) THEN "EXIT1_DR" ELSE "SHIFT_DR"
  /\ ScanHolds(tdi, k) /\ ScanShows(tdi, k)
ScanLeaving(tdi, j) ==
  /\ Doing(DrScan(tdi), 3, "goto", Walk(<<1, 0>>), j)
  /\ ScanShows(tdi, Len(tdi))
  /\ \/ j = 0 /\ state = "EXIT1_DR" /\ ScanHolds(tdi, Len(tdi))
     \/ j = 1 /\ state = "UPDATE_DR" /\ ScanHolds(tdi, Len(tdi))
     \/ j = 2 /\ state = "RUN_TEST_IDLE" /\ ScanEnded(tdi)

Scanning(tdi) ==
  \/ Waiting(DrScan(tdi)) /\ state \in Stable /\ Same
  \/ \E j \in 0 .. 3 : ScanEntering(tdi, j)
  \/ \E k \in 0 .. Len(tdi) : ScanShifting(tdi, k)
  \/ \E j \in 0 .. 2 : ScanLeaving(tdi, j)

\* play has raised, and where it may.
Misuse == Tap!NoActiveDr \/ (state = "TEST_LOGIC_RESET" /\ cycles = << >>)

\* The captured bits come first, then what is fed.
LEMMA Streamed ==
  ASSUME NEW from, NEW tdi \in Seq(Bits)
  PROVE  LET stream == Stream(from, tdi)
             w == IF from.instruction = "IDCODE" THEN IdcodeWidth ELSE 1 IN
         /\ stream \in Seq(Bits) /\ w \in Nat \ {0} /\ Len(stream) = w + Len(tdi)
         /\ from.instruction = "IDCODE" => \A i \in 1 .. w : stream[i] = IdcodeValue[i - 1]
         /\ from.instruction # "IDCODE" => stream[1] = 0
         /\ \A i \in 1 .. Len(tdi) : stream[w + i] = tdi[i]
<1> DEFINE idcode == [i \in 1 .. IdcodeWidth |-> IdcodeValue[i - 1]]
           captured == IF from.instruction = "IDCODE" THEN idcode ELSE << 0 >>
           w == IF from.instruction = "IDCODE" THEN IdcodeWidth ELSE 1
<1>1. IdcodeWidth \in Nat \ {0} /\ IdcodeValue \in [0 .. IdcodeWidth - 1 -> Bits]
  BY PlayAssumption DEF Tap!ValidIdcode, Tap!Register, Tap!Bits, Bits
<1>2. idcode \in Seq(Bits) /\ Len(idcode) = IdcodeWidth
  <2>1. idcode \in [1 .. IdcodeWidth -> Bits]
    BY <1>1
  <2> QED BY <1>1, <2>1, FunctionIsSeq
<1>3. << 0 >> \in Seq(Bits) /\ Len(<< 0 >>) = 1 /\ << 0 >>[1] = 0
  BY DEF Bits
<1>4. captured \in Seq(Bits) /\ Len(captured) = w /\ w \in Nat \ {0} /\ Len(tdi) \in Nat
  BY <1>1, <1>2, <1>3
<1>5. /\ captured \o tdi \in Seq(Bits) /\ Len(captured \o tdi) = w + Len(tdi)
      /\ \A i \in 1 .. w + Len(tdi) :
           (captured \o tdi)[i] = IF i <= w THEN captured[i] ELSE tdi[i - w]
  <2> HIDE DEF captured, w
  <2> QED BY <1>4, ConcatProperties
<1>6. \A i \in 1 .. Len(tdi) : (captured \o tdi)[w + i] = tdi[i]
  <2> HIDE DEF captured, w
  <2> TAKE i \in 1 .. Len(tdi)
  <2>1. w + i \in 1 .. w + Len(tdi) /\ ~(w + i <= w) /\ (w + i) - w = i
    BY <1>4
  <2> QED BY <1>5, <2>1
<1>7. \A i \in 1 .. w : (captured \o tdi)[i] = captured[i]
  <2> HIDE DEF captured, w
  <2> QED BY <1>4, <1>5
<1>8. from.instruction # "IDCODE" => captured[1] = 0 /\ 1 \in 1 .. w
  BY <1>3
<1>9. from.instruction = "IDCODE" => \A i \in 1 .. w : captured[i] = IdcodeValue[i - 1]
  OBVIOUS
<1> QED BY <1>4, <1>5, <1>6, <1>7, <1>8, <1>9 DEF Stream

\* The edges a program's operations take.
LEMMA Transitions ==
  /\ Tap!next_state("TEST_LOGIC_RESET", 0) = "RUN_TEST_IDLE"
  /\ Tap!next_state("RUN_TEST_IDLE", 0) = "RUN_TEST_IDLE"
  /\ Tap!next_state("RUN_TEST_IDLE", 1) = "SELECT_DR_SCAN"
  /\ Tap!next_state("SELECT_DR_SCAN", 0) = "CAPTURE_DR"
  /\ Tap!next_state("CAPTURE_DR", 0) = "SHIFT_DR"
  /\ Tap!next_state("SHIFT_DR", 0) = "SHIFT_DR"
  /\ Tap!next_state("SHIFT_DR", 1) = "EXIT1_DR"
  /\ Tap!next_state("EXIT1_DR", 1) = "UPDATE_DR"
  /\ Tap!next_state("UPDATE_DR", 0) = "RUN_TEST_IDLE"
  /\ Tap!next_state("SELECT_DR_SCAN", 1) = "SELECT_IR_SCAN"
  /\ Tap!next_state("SELECT_IR_SCAN", 0) = "CAPTURE_IR"
  /\ Tap!next_state("CAPTURE_IR", 0) = "SHIFT_IR"
  /\ Tap!next_state("SHIFT_IR", 0) = "SHIFT_IR"
  /\ Tap!next_state("SHIFT_IR", 1) = "EXIT1_IR"
  /\ Tap!next_state("EXIT1_IR", 1) = "UPDATE_IR"
  /\ Tap!next_state("UPDATE_IR", 0) = "RUN_TEST_IDLE"
BY DEF Tap!next_state, Tap!TRANSITIONS

\* The network's instruction is not a built-in register's.
LEMMA SelectedIsNotBuiltIn ==
  /\ Selected \notin {"BYPASS", "IDCODE"}
  /\ DataRegisters \subseteq {"BYPASS", "IDCODE", Selected}
BY PlayAssumption DEF Selected, Tap!network_access_instruction

\* Capture-DR loads what a scan starts from.
LEMMA ScanCaptures ==
  ASSUME state = "CAPTURE_DR", Same, UNCHANGED before, NEW tdi \in Seq(Bits), NEW tms \in Bits,
         Tap!Tick(tms, 0, TailBit(shift, po)), NetworkTick(0)
  PROVE  ScanHolds(tdi, 0)'
<1>1. state \in Tap!TapState /\ 0 \in Bits
  BY DEF Tap!TapState, Bits
<1>2. /\ ~Tap!NoActiveDr /\ instruction' = instruction
      /\ instruction = "BYPASS" => bypassBit' = 0
      /\ instruction = "IDCODE" => idcodeShift' = IdcodeValue
      /\ shift' = (IF instruction = Selected THEN Capture(shift, po) ELSE shift)
      /\ po' = po
  BY <1>1, TickEffect
<1>3. instruction \in DataRegisters
  BY <1>2 DEF Tap!NoActiveDr
<1>4. shift' = IF instruction' = Selected THEN NetworkScan(before', SubSeq(tdi, 1, 0)).shift
                                         ELSE (before').shift
  <2>1. SubSeq(tdi, 1, 0) = << >>
    BY SubSeqEmpty
  <2>2. NetworkScan(before, << >>).shift = Capture(before.shift, before.po)
    <3>1. 0 \in Bits
      BY DEF Bits
    <3>2. NetworkScan(before, << >>) = ScanBase(before)
      BY <3>1, ScanBits
    <3> QED BY <3>2 DEF ScanBase
  <2> QED BY <1>2, <2>1, <2>2 DEF Same
<1>5. ASSUME instruction = "BYPASS" PROVE bypassBit' = Stream(before, tdi)[0 + 1]
  <2>1. Stream(before, tdi)[1] = 0
    BY <1>5, Streamed DEF Same
  <2> QED BY <1>2, <1>5, <2>1
<1>6. ASSUME instruction = "IDCODE"
      PROVE  idcodeShift' = [i \in 0 .. IdcodeWidth - 1 |-> Stream(before, tdi)[0 + 1 + i]]
  <2>1. IdcodeWidth \in Nat \ {0} /\ IdcodeValue \in [0 .. IdcodeWidth - 1 -> Bits]
    BY PlayAssumption DEF Tap!ValidIdcode, Tap!Register, Tap!Bits, Bits
  <2>2. \A i \in 1 .. IdcodeWidth : Stream(before, tdi)[i] = IdcodeValue[i - 1]
    BY <1>6, Streamed DEF Same
  <2>3. \A i \in 0 .. IdcodeWidth - 1 : Stream(before, tdi)[0 + 1 + i] = IdcodeValue[i]
    <3> TAKE i \in 0 .. IdcodeWidth - 1
    <3>1. 0 + 1 + i \in 1 .. IdcodeWidth /\ (0 + 1 + i) - 1 = i
      BY <2>1
    <3> QED BY <2>2, <3>1
  <2>4. IdcodeValue = [i \in 0 .. IdcodeWidth - 1 |-> IdcodeValue[i]]
    BY <2>1
  <2> QED BY <1>2, <1>6, <2>3, <2>4
<1>7. /\ instruction' = (before').instruction /\ instruction' \in DataRegisters
      /\ po' = (before').po
  BY <1>2, <1>3 DEF Same
<1> QED BY <1>2, <1>4, <1>5, <1>6, <1>7 DEF ScanHolds

\* A bit shifted is a bit of the scan.
LEMMA ScanShifts ==
  ASSUME state = "SHIFT_DR", UNCHANGED before, NEW tdi \in Seq(Bits), NEW tms \in Bits,
         NEW k \in Nat, k < Len(tdi), ScanHolds(tdi, k), ScanShows(tdi, k), Sequence(observed),
         Tap!Tick(tms, tdi[k + 1], TailBit(shift, po)), NetworkTick(tdi[k + 1]),
         observed' = [observed EXCEPT ![Len(observed)] = Append(@, tdo')]
  PROVE  ScanHolds(tdi, k + 1)' /\ ScanShows(tdi, k + 1)'
<1> DEFINE bit == tdi[k + 1]  stream == Stream(before, tdi)  scan == NetworkScan(before, SubSeq(tdi, 1, k))
<1>1. /\ state \in Tap!TapState /\ bit \in Bits /\ SubSeq(tdi, 1, k) \in Seq(Bits)
      /\ SubSeq(tdi, 1, k + 1) = Append(SubSeq(tdi, 1, k), bit)
  BY OneLonger DEF Tap!TapState
<1>2. /\ instruction' = instruction /\ po' = po
      /\ tdo' = CASE instruction = "BYPASS" -> bypassBit
                  [] instruction = "IDCODE" -> idcodeShift[0]
                  [] OTHER -> TailBit(shift, po)
      /\ instruction = "BYPASS" => bypassBit' = bit
      /\ instruction = "IDCODE" => idcodeShift' = Tap!Shifted(idcodeShift, IdcodeWidth, bit)
      /\ shift' = (IF instruction = Selected THEN Shift(shift, po, bit) ELSE shift)
  BY <1>1, TickEffect
<1>3. instruction = before.instruction /\ instruction \in {"BYPASS", "IDCODE", Selected}
  BY SelectedIsNotBuiltIn DEF ScanHolds
<1>4. NetworkScan(before, SubSeq(tdi, 1, k + 1)) = ScanStep(before, scan, bit)
  BY <1>1, ScanBits
<1>5. /\ NetworkScan(before, SubSeq(tdi, 1, k + 1)).shift = Shift(scan.shift, before.po, bit)
      /\ NetworkScan(before, SubSeq(tdi, 1, k + 1)).out
           = Append(scan.out, TailBit(scan.shift, before.po))
  BY <1>4 DEF ScanStep
<1>6. /\ stream \in Seq(Bits) /\ Len(tdi) \in Nat /\ IdcodeWidth \in Nat \ {0}
      /\ Len(stream) = (IF instruction = "IDCODE" THEN IdcodeWidth ELSE 1) + Len(tdi)
      /\ \A i \in 1 .. Len(tdi) :
           stream[(IF instruction = "IDCODE" THEN IdcodeWidth ELSE 1) + i] = tdi[i]
  BY <1>3, Streamed, PlayAssumption
<1>7. shift' = IF instruction' = Selected
                 THEN NetworkScan(before', SubSeq(tdi, 1, k + 1)).shift ELSE (before').shift
  BY <1>2, <1>5 DEF ScanHolds
<1>8. ASSUME instruction = "BYPASS" PROVE bypassBit' = stream[(k + 1) + 1]
  <2>1. k + 1 \in 1 .. Len(tdi) /\ 1 + (k + 1) = (k + 1) + 1
    BY <1>6
  <2>2. stream[1 + (k + 1)] = tdi[k + 1]
    BY <1>6, <1>8, <2>1
  <2> QED BY <1>2, <1>8, <2>1, <2>2
<1>9. ASSUME instruction = "IDCODE"
      PROVE  idcodeShift' = [i \in 0 .. IdcodeWidth - 1 |-> stream[(k + 1) + 1 + i]]
  <2>1. idcodeShift = [i \in 0 .. IdcodeWidth - 1 |-> stream[k + 1 + i]]
    BY <1>9 DEF ScanHolds
  <2>2. idcodeShift' = [i \in 0 .. IdcodeWidth - 1 |->
                          IF i = IdcodeWidth - 1 THEN bit ELSE idcodeShift[i + 1]]
    BY <1>2, <1>9 DEF Tap!Shifted
  <2>3. ASSUME NEW i \in 0 .. IdcodeWidth - 1
        PROVE  (IF i = IdcodeWidth - 1 THEN bit ELSE idcodeShift[i + 1]) = stream[(k + 1) + 1 + i]
    <3>1. CASE i = IdcodeWidth - 1
      <4>1. k + 1 \in 1 .. Len(tdi) /\ (k + 1) + 1 + i = IdcodeWidth + (k + 1)
        BY <1>6, <3>1
      <4>2. stream[IdcodeWidth + (k + 1)] = tdi[k + 1]
        BY <1>6, <1>9, <4>1
      <4> QED BY <3>1, <4>1, <4>2
    <3>2. CASE i # IdcodeWidth - 1
      <4>1. i + 1 \in 0 .. IdcodeWidth - 1 /\ k + 1 + (i + 1) = (k + 1) + 1 + i
        <5> HIDE DEF stream, bit
        <5>1. IdcodeWidth \in Nat /\ i \in Nat /\ i < IdcodeWidth - 1
          BY <1>6, <3>2
        <5> QED BY <5>1
      <4>2. idcodeShift[i + 1] = stream[k + 1 + (i + 1)]
        BY <2>1, <4>1
      <4> QED BY <3>2, <4>1, <4>2
    <3> QED BY <3>1, <3>2
  <2> HIDE DEF stream, bit
  <2> QED BY <2>2, <2>3
<1>10. ScanHolds(tdi, k + 1)'
  <2>1. /\ instruction' = (before').instruction /\ instruction' \in DataRegisters
        /\ po' = (before').po
    BY <1>2 DEF ScanHolds
  <2> QED BY <1>2, <1>7, <1>8, <1>9, <2>1 DEF ScanHolds
<1>11. tdo' = IF instruction = Selected THEN TailBit(scan.shift, before.po) ELSE stream[k + 1]
  <2>1. CASE instruction = Selected
    BY <1>2, <2>1, SelectedIsNotBuiltIn DEF ScanHolds
  <2>2. CASE instruction = "BYPASS"
    BY <1>2, <2>2, SelectedIsNotBuiltIn DEF ScanHolds
  <2>3. CASE instruction = "IDCODE"
    <3>1. 0 \in 0 .. IdcodeWidth - 1 /\ k + 1 + 0 = k + 1
      BY <1>6
    <3>2. idcodeShift[0] = stream[k + 1 + 0]
      BY <2>3, <3>1 DEF ScanHolds
    <3> QED BY <1>2, <2>3, <3>1, <3>2, SelectedIsNotBuiltIn
  <2> QED BY <1>3, <2>1, <2>2, <2>3
<1>12. Last(observed') = IF instruction = Selected
                           THEN NetworkScan(before, SubSeq(tdi, 1, k + 1)).out
                           ELSE SubSeq(stream, 1, k + 1)
  <2>1. Last(observed') = Append(Last(observed), tdo')
    <3>1. observed' = [observed EXCEPT ![Len(observed)] = Append(observed[Len(observed)], tdo')]
      OBVIOUS
    <3>2. observed # << >>
      BY DEF ScanShows
    <3> DEFINE e == Append(observed[Len(observed)], tdo')
    <3> HIDE DEF e
    <3>3. Last([observed EXCEPT ![Len(observed)] = e]) = e
      BY <3>2, StillSequence
    <3>4. Last(observed') = e
      BY <3>1, <3>3 DEF e
    <3> QED BY <3>4 DEF Last, e
  <2>2. k < Len(stream) /\ k \in Nat
    BY <1>6
  <2>3. SubSeq(stream, 1, k + 1) = Append(SubSeq(stream, 1, k), stream[k + 1])
    BY <1>6, <2>2, OneLonger
  <2> QED BY <1>3, <1>5, <1>11, <2>1, <2>3 DEF ScanShows
<1>13. observed' # << >>
  BY StillSequence DEF ScanShows
<1>14. ScanShows(tdi, k + 1)'
  BY <1>3, <1>12, <1>13 DEF ScanShows
<1> QED BY <1>10, <1>14

\* A cycle of a scan takes it one step further.
LEMMA ScanTicks ==
  ASSUME PlayTick, NEW tdi \in Seq(Bits) \ {<< >>}, Scanning(tdi), Sequence(observed)
  PROVE  Scanning(tdi)'
<1> DEFINE program == DrScan(tdi)
<1>1. cycles # << >> /\ Len(tdi) \in Nat /\ Len(tdi) # 0
  BY EmptySeq DEF PlayTick
<1>2. CASE Waiting(program)
  BY <1>1, <1>2 DEF Waiting
<1>3. ASSUME NEW j \in 0 .. 3, ScanEntering(tdi, j) PROVE Scanning(tdi)'
  <2> DEFINE whole == Walk(<<1, 0, 0>>)
  <2>1. Doing(program, 1, "goto", whole, j) /\ whole \in Seq(Cycle) /\ Len(whole) = 3
    BY <1>3, Walks DEF ScanEntering
  <2> HIDE DEF whole
  <2>2. /\ j + 1 \in 1 .. 3 /\ j \in {0, 1, 2}
        /\ Tap!Tick(whole[j + 1][1], whole[j + 1][2], TailBit(shift, po))
        /\ NetworkTick(whole[j + 1][2])
        /\ Rest(cycles', whole, j + 1) /\ UNCHANGED <<ops, log, before>>
    BY <2>1, CycleEffect DEF Doing
  <2>3. Doing(program, 1, "goto", whole, j + 1)'
    BY <2>1, <2>2 DEF Doing
  <2>4. whole[j + 1] = <<IF j + 1 = 1 THEN 1 ELSE 0, 0>>
    BY <2>2, Walks DEF whole
  <2>5. CASE j = 0
    <3>1. state = "RUN_TEST_IDLE" /\ Same /\ Tap!Tick(1, 0, TailBit(shift, po)) /\ NetworkTick(0)
      BY <1>3, <2>2, <2>4, <2>5 DEF ScanEntering
    <3>2. state' = "SELECT_DR_SCAN" /\ Same'
      BY <2>2, <3>1, TickEffect, Transitions DEF Tap!TapState, Bits, Same
    <3>3. ScanEntering(tdi, 1)'
      BY <2>3, <2>5, <3>2 DEF ScanEntering, whole
    <3> QED BY <3>3 DEF Scanning
  <2>6. CASE j = 1
    <3>1. state = "SELECT_DR_SCAN" /\ Same /\ Tap!Tick(0, 0, TailBit(shift, po)) /\ NetworkTick(0)
      BY <1>3, <2>2, <2>4, <2>6 DEF ScanEntering
    <3>2. state' = "CAPTURE_DR" /\ Same'
      BY <2>2, <3>1, TickEffect, Transitions DEF Tap!TapState, Bits, Same
    <3>3. ScanEntering(tdi, 2)'
      BY <2>3, <2>6, <3>2 DEF ScanEntering, whole
    <3> QED BY <3>3 DEF Scanning
  <2>7. CASE j = 2
    <3>1. state = "CAPTURE_DR" /\ Same /\ Tap!Tick(0, 0, TailBit(shift, po)) /\ NetworkTick(0)
      BY <1>3, <2>2, <2>4, <2>7 DEF ScanEntering
    <3>2. state' = "SHIFT_DR"
      BY <3>1, TickEffect, Transitions DEF Tap!TapState, Bits
    <3>3. ScanHolds(tdi, 0)'
      BY <2>2, <3>1, ScanCaptures DEF Bits
    <3>4. ScanEntering(tdi, 3)'
      BY <2>3, <2>7, <3>2, <3>3 DEF ScanEntering, whole
    <3> QED BY <3>4 DEF Scanning
  <2> QED BY <2>2, <2>5, <2>6, <2>7
<1>4. ASSUME NEW k \in 0 .. Len(tdi), ScanShifting(tdi, k) PROVE Scanning(tdi)'
  <2> DEFINE whole == ShiftCycles(tdi)
  <2>1. /\ Doing(program, 2, "shift", whole, k) /\ whole \in Seq(Cycle) /\ Len(whole) = Len(tdi)
        /\ ScanHolds(tdi, k) /\ ScanShows(tdi, k)
    BY <1>4, ShiftWalk DEF ScanShifting
  <2> HIDE DEF whole
  <2>2. /\ k + 1 \in 1 .. Len(tdi) /\ k \in Nat /\ k < Len(tdi)
        /\ Tap!Tick(whole[k + 1][1], whole[k + 1][2], TailBit(shift, po))
        /\ NetworkTick(whole[k + 1][2])
        /\ Rest(cycles', whole, k + 1) /\ UNCHANGED <<ops, log, before>>
        /\ observed' = [observed EXCEPT ![Len(observed)] = Append(@, tdo')]
        /\ whole[k + 1][1] \in Bits
    BY <2>1, CycleEffect DEF Doing
  <2>3. whole[k + 1] = <<IF k + 1 = Len(tdi) THEN 1 ELSE 0, tdi[k + 1]>>
    BY <2>2, ShiftWalk DEF whole
  <2>4. state = "SHIFT_DR"
    BY <1>4, <2>2 DEF ScanShifting
  <2>5. /\ Tap!Tick(IF k + 1 = Len(tdi) THEN 1 ELSE 0, tdi[k + 1], TailBit(shift, po))
        /\ NetworkTick(tdi[k + 1])
        /\ (IF k + 1 = Len(tdi) THEN 1 ELSE 0) \in Bits /\ tdi[k + 1] \in Bits
    BY <2>2, <2>3 DEF Bits
  <2>6. ScanHolds(tdi, k + 1)' /\ ScanShows(tdi, k + 1)'
    BY <2>1, <2>2, <2>4, <2>5, ScanShifts
  <2>7. state' = IF k + 1 = Len(tdi) THEN "EXIT1_DR" ELSE "SHIFT_DR"
    <3>1. state' = Tap!next_state("SHIFT_DR", IF k + 1 = Len(tdi) THEN 1 ELSE 0)
      BY <2>4, <2>5 DEF Tap!Tick
    <3> QED BY <3>1, Transitions
  <2>8. Doing(program, 2, "shift", whole, k + 1)'
    BY <2>1, <2>2 DEF Doing
  <2>9. ScanShifting(tdi, k + 1)' /\ k + 1 \in 0 .. Len(tdi)
    BY <2>2, <2>6, <2>7, <2>8 DEF ScanShifting, whole
  <2> QED BY <2>9 DEF Scanning
<1>5. ASSUME NEW j \in 0 .. 2, ScanLeaving(tdi, j) PROVE Scanning(tdi)'
  <2> DEFINE whole == Walk(<<1, 0>>)
  <2>1. /\ Doing(program, 3, "goto", whole, j) /\ whole \in Seq(Cycle) /\ Len(whole) = 2
        /\ ScanShows(tdi, Len(tdi))
    BY <1>5, Walks DEF ScanLeaving
  <2> HIDE DEF whole
  <2>2. /\ j + 1 \in 1 .. 2 /\ j \in {0, 1}
        /\ Tap!Tick(whole[j + 1][1], whole[j + 1][2], TailBit(shift, po))
        /\ NetworkTick(whole[j + 1][2])
        /\ Rest(cycles', whole, j + 1) /\ UNCHANGED <<ops, log, before>>
        /\ observed' = observed
    BY <2>1, CycleEffect DEF Doing
  <2>3. Doing(program, 3, "goto", whole, j + 1)'
    BY <2>1, <2>2 DEF Doing
  <2>4. whole[j + 1] = <<IF j + 1 = 1 THEN 1 ELSE 0, 0>>
    BY <2>2, Walks DEF whole
  <2>5. ScanShows(tdi, Len(tdi))'
    BY <2>1, <2>2 DEF ScanShows
  <2>6. CASE j = 0
    <3>1. /\ state = "EXIT1_DR" /\ ScanHolds(tdi, Len(tdi))
          /\ Tap!Tick(1, 0, TailBit(shift, po)) /\ NetworkTick(0)
      BY <1>5, <2>2, <2>4, <2>6 DEF ScanLeaving
    <3>2. /\ state' = "UPDATE_DR"
          /\ UNCHANGED <<instruction, shift, po, bypassBit, idcodeShift>>
      BY <3>1, TickEffect, Transitions DEF Tap!TapState, Bits
    <3>3. ScanHolds(tdi, Len(tdi))'
      BY <2>2, <3>1, <3>2 DEF ScanHolds
    <3>4. ScanLeaving(tdi, 1)'
      BY <2>3, <2>5, <2>6, <3>2, <3>3 DEF ScanLeaving, whole
    <3> QED BY <3>4 DEF Scanning
  <2>7. CASE j = 1
    <3>1. /\ state = "UPDATE_DR" /\ ScanHolds(tdi, Len(tdi))
          /\ Tap!Tick(0, 0, TailBit(shift, po)) /\ NetworkTick(0)
      BY <1>5, <2>2, <2>4, <2>7 DEF ScanLeaving
    <3>2. /\ state' = "RUN_TEST_IDLE" /\ instruction' = instruction /\ shift' = shift
          /\ po' = (IF instruction = Selected THEN Update(shift, po) ELSE po)
      BY <3>1, TickEffect, Transitions DEF Tap!TapState, Bits
    <3>3. SubSeq(tdi, 1, Len(tdi)) = tdi
      BY SubSeqFull
    <3>4. ScanEnded(tdi)'
      BY <2>2, <3>1, <3>2, <3>3 DEF ScanHolds, ScanEnded
    <3>5. ScanLeaving(tdi, 2)'
      BY <2>3, <2>5, <2>7, <3>2, <3>4 DEF ScanLeaving, whole
    <3> QED BY <3>5 DEF Scanning
  <2> QED BY <2>2, <2>6, <2>7
<1> QED BY <1>2, <1>3, <1>4, <1>5 DEF Scanning

\* Starting an operation of a scan takes it one step further, except out of an
\* unsettled reset, where play raises.
LEMMA ScanStarts ==
  ASSUME StartOp, NEW tdi \in Seq(Bits) \ {<< >>}, Scanning(tdi), Sequence(observed), Sequence(log)
  PROVE  (Scanning(tdi)' /\ ~raised') \/ (raised' /\ Misuse')
<1> DEFINE program == DrScan(tdi)
<1> DEFINE S == {program[1], program[2], program[3]}
<1>1. /\ program \in Seq(S) /\ Len(program) = 3 /\ program[1] = Goto("SHIFT_DR")
      /\ program[2] = ShiftBits(tdi) /\ program[3] = Goto("RUN_TEST_IDLE")
  BY Programs
<1>2. cycles = << >> /\ ~raised /\ Len(tdi) \in Nat
  BY DEF StartOp
<1>3. /\ Goto("SHIFT_DR").kind = "goto" /\ Goto("SHIFT_DR").state = "SHIFT_DR"
      /\ Goto("RUN_TEST_IDLE").kind = "goto" /\ Goto("RUN_TEST_IDLE").state = "RUN_TEST_IDLE"
      /\ ShiftBits(tdi).kind = "shift"
  BY DEF Goto, ShiftBits
<1> HIDE DEF program, S
<1>4. CASE Waiting(program) /\ state \in Stable /\ Same
  <2>1. /\ Rest(ops, program, 0) /\ 0 + 1 = 1
    BY <1>4 DEF Waiting
  <2>2. CASE raised'
    <3>1. /\ NavigationRaises(state, "SHIFT_DR") /\ UNCHANGED <<cycles, tapVars>>
      BY <1>1, <1>2, <1>3, <2>1, <2>2, StartEffect
    <3>2. state' = "TEST_LOGIC_RESET" /\ cycles' = << >>
      BY <1>2, <1>4, <3>1 DEF NavigationRaises, Stable, tapVars
    <3> QED BY <2>2, <3>2 DEF Misuse
  <2>3. CASE ~raised'
    <3>1. /\ ~NavigationRaises(state, "SHIFT_DR") /\ Rest(ops', program, 1)
          /\ cycles' = CyclesOf(Goto("SHIFT_DR"), state) /\ log' = Append(log, Goto("SHIFT_DR"))
          /\ UNCHANGED <<tapVars, shift, po, before>>
      BY <1>1, <1>2, <1>3, <2>1, <2>3, StartEffect
    <3>2. state = "RUN_TEST_IDLE"
      BY <1>4, <3>1 DEF NavigationRaises, Stable
    <3>3. cycles' = Walk(<<1, 0, 0>>) /\ Rest(cycles', Walk(<<1, 0, 0>>), 0)
      BY <3>1, <3>2, OperationCycles, Walks, RestEnds
    <3>4. log' # << >> /\ log'[Len(log')] = Goto("SHIFT_DR")
      BY <3>1, StillSequence
    <3>5. Doing(program, 1, "goto", Walk(<<1, 0, 0>>), 0)'
      BY <1>3, <3>1, <3>3, <3>4 DEF Doing
    <3>6. state' = "RUN_TEST_IDLE" /\ Same'
      BY <1>4, <3>1, <3>2 DEF Same, tapVars
    <3>7. ScanEntering(tdi, 0)'
      BY <3>5, <3>6 DEF ScanEntering, program
    <3> QED BY <2>3, <3>7 DEF Scanning
  <2> QED BY <2>2, <2>3
<1>5. ASSUME NEW j \in 0 .. 3, ScanEntering(tdi, j) PROVE Scanning(tdi)' /\ ~raised'
  <2>1. Doing(program, 1, "goto", Walk(<<1, 0, 0>>), j)
    BY <1>5 DEF ScanEntering, program
  <2>2. j = 3
    BY <1>2, <2>1, Walks, RestEnds DEF Doing
  <2>3. state = "SHIFT_DR" /\ ScanHolds(tdi, 0)
    BY <1>5, <2>2 DEF ScanEntering
  <2>4. /\ Rest(ops', program, 2) /\ cycles' = CyclesOf(ShiftBits(tdi), state)
        /\ log' = Append(log, ShiftBits(tdi)) /\ observed' = Append(observed, << >>)
        /\ ~raised' /\ UNCHANGED <<tapVars, shift, po, before>>
    <3>1. Rest(ops, program, 1) /\ 1 + 1 = 2
      BY <2>1 DEF Doing
    <3> QED BY <1>1, <1>2, <1>3, <3>1, StartEffect
  <2>5. Rest(cycles', ShiftCycles(tdi), 0)
    BY <2>4, OperationCycles, ShiftWalk, RestEnds
  <2>6. /\ log' # << >> /\ log'[Len(log')] = ShiftBits(tdi)
        /\ observed' # << >> /\ Last(observed') = << >>
    BY <2>4, StillSequence
  <2>7. Doing(program, 2, "shift", ShiftCycles(tdi), 0)'
    BY <1>3, <2>4, <2>5, <2>6 DEF Doing
  <2>8. ScanHolds(tdi, 0)' /\ state' = "SHIFT_DR"
    BY <2>3, <2>4 DEF ScanHolds, tapVars
  <2>9. ScanShows(tdi, 0)'
    <3>1. 0 \in Bits /\ SubSeq(tdi, 1, 0) = << >>
      BY SubSeqEmpty DEF Bits
    <3>2. \A from : NetworkScan(from, << >>).out = << >>
      <4> TAKE from
      <4>1. NetworkScan(from, << >>) = ScanBase(from)
        BY <3>1, ScanBits
      <4> QED BY <4>1 DEF ScanBase
    <3>3. NetworkScan(before', SubSeq(tdi, 1, 0)).out = << >>
      BY <3>1, <3>2
    <3>4. SubSeq(Stream(before', tdi), 1, 0) = << >>
      BY SubSeqEmpty
    <3> QED BY <2>6, <3>3, <3>4 DEF ScanShows
  <2>10. 0 # Len(tdi) /\ 0 \in 0 .. Len(tdi)
    BY <1>2, EmptySeq
  <2>11. ScanShifting(tdi, 0)'
    BY <2>7, <2>8, <2>9, <2>10 DEF ScanShifting, program
  <2> QED BY <2>4, <2>10, <2>11 DEF Scanning
<1>6. ASSUME NEW k \in 0 .. Len(tdi), ScanShifting(tdi, k) PROVE Scanning(tdi)' /\ ~raised'
  <2>1. Doing(program, 2, "shift", ShiftCycles(tdi), k)
    BY <1>6 DEF ScanShifting, program
  <2>2. k = Len(tdi)
    BY <1>2, <2>1, ShiftWalk, RestEnds DEF Doing
  <2>3. state = "EXIT1_DR" /\ ScanHolds(tdi, Len(tdi)) /\ ScanShows(tdi, Len(tdi))
    BY <1>6, <2>2 DEF ScanShifting
  <2>4. ~NavigationRaises(state, "RUN_TEST_IDLE")
    BY <2>3, OperationCycles
  <2>5. /\ Rest(ops', program, 3) /\ cycles' = CyclesOf(Goto("RUN_TEST_IDLE"), state)
        /\ log' = Append(log, Goto("RUN_TEST_IDLE")) /\ observed' = observed
        /\ ~raised' /\ UNCHANGED <<tapVars, shift, po, before>>
    <3>1. Rest(ops, program, 2) /\ 2 + 1 = 3
      BY <2>1 DEF Doing
    <3> QED BY <1>1, <1>2, <1>3, <2>4, <3>1, StartEffect
  <2>6. Rest(cycles', Walk(<<1, 0>>), 0)
    BY <2>3, <2>5, OperationCycles, Walks, RestEnds
  <2>7. log' # << >> /\ log'[Len(log')] = Goto("RUN_TEST_IDLE")
    BY <2>5, StillSequence
  <2>8. Doing(program, 3, "goto", Walk(<<1, 0>>), 0)'
    BY <1>3, <2>5, <2>6, <2>7 DEF Doing
  <2>9. ScanHolds(tdi, Len(tdi))' /\ state' = "EXIT1_DR" /\ ScanShows(tdi, Len(tdi))'
    BY <2>3, <2>5 DEF ScanHolds, ScanShows, tapVars
  <2>10. ScanLeaving(tdi, 0)'
    BY <2>8, <2>9 DEF ScanLeaving, program
  <2> QED BY <2>5, <2>10 DEF Scanning
<1>7. ASSUME NEW j \in 0 .. 2, ScanLeaving(tdi, j) PROVE FALSE
  <2>1. Rest(ops, program, 3)
    BY <1>7 DEF ScanLeaving, Doing, program
  <2>2. 3 + 1 \in 1 .. Len(program)
    BY <1>1, <2>1, StartEffect
  <2> QED BY <1>1, <2>2
<1> QED BY <1>4, <1>5, <1>6, <1>7 DEF Scanning, program

\* A scan that is over has done what ScanIsAtomic says.
LEMMA ScanOver ==
  ASSUME Idle, NEW tdi \in Seq(Bits) \ {<< >>}, Scanning(tdi)
  PROVE  /\ state = "RUN_TEST_IDLE" /\ ScanEnded(tdi) /\ ScanShows(tdi, Len(tdi))
<1> DEFINE program == DrScan(tdi)
<1> DEFINE S == {program[1], program[2], program[3]}
<1>1. program \in Seq(S) /\ Len(program) = 3
  BY Programs
<1>2. ops = << >> /\ cycles = << >>
  BY DEF Idle
<1> HIDE DEF program, S
<1>3. \A n : Rest(ops, program, n) => n = 3
  BY <1>1, <1>2, RestEnds
<1>4. PICK j \in 0 .. 2 : ScanLeaving(tdi, j)
  BY <1>3 DEF Scanning, Waiting, ScanEntering, ScanShifting, Doing, program
<1>5. Rest(cycles, Walk(<<1, 0>>), j)
  BY <1>4 DEF ScanLeaving, Doing
<1>6. j = 2
  BY <1>2, <1>5, Walks, RestEnds
<1> QED BY <1>4, <1>6 DEF ScanLeaving

----------------------------------------------------------------------------
(* An instruction loaded.                                                  *)

\* The bits the instruction register passes on.
IrStream(tdi) == [i \in 1 .. IrWidth |-> Tap!CAPTURE_IR_PATTERN[i - 1]] \o tdi

\* What the instruction register holds, and what has been observed, after k of
\* the bits; the network holds what it did.
LoadHolds(tdi, k) ==
  /\ shift = before.shift /\ po = before.po
  /\ irShift = [i \in 0 .. IrWidth - 1 |-> IrStream(tdi)[k + 1 + i]]
LoadShows(tdi, k) == observed # << >> /\ Last(observed) = SubSeq(IrStream(tdi), 1, k)

Untouched == shift = before.shift /\ po = before.po

LoadEntering(tdi, program, j) ==
  /\ Doing(program, 1, "goto", Walk(<<1, 1, 0, 0>>), j)
  /\ \/ j = 0 /\ state = "RUN_TEST_IDLE" /\ Untouched
     \/ j = 1 /\ state = "SELECT_DR_SCAN" /\ Untouched
     \/ j = 2 /\ state = "SELECT_IR_SCAN" /\ Untouched
     \/ j = 3 /\ state = "CAPTURE_IR" /\ Untouched
     \/ j = 4 /\ state = "SHIFT_IR" /\ LoadHolds(tdi, 0)
LoadShifting(tdi, program, k) ==
  /\ Doing(program, 2, "shift", ShiftCycles(tdi), k)
  /\ state = IF k = Len(tdi) THEN "EXIT1_IR" ELSE "SHIFT_IR"
  /\ LoadHolds(tdi, k) /\ LoadShows(tdi, k)
LoadLeaving(tdi, program, j) ==
  /\ Doing(program, 3, "goto", Walk(<<1, 0>>), j)
  /\ LoadShows(tdi, Len(tdi))
  /\ \/ j = 0 /\ state = "EXIT1_IR" /\ LoadHolds(tdi, Len(tdi))
     \/ j = 1 /\ state = "UPDATE_IR" /\ LoadHolds(tdi, Len(tdi))
     \/ /\ j = 2 /\ state = "RUN_TEST_IDLE" /\ Untouched
        /\ instruction = Tap!decode_instruction([i \in 0 .. IrWidth - 1 |-> tdi[i + 1]])

Loading(tdi, program) ==
  \/ Waiting(program) /\ state \in Stable /\ Untouched
  \/ \E j \in 0 .. 4 : LoadEntering(tdi, program, j)
  \/ \E k \in 0 .. Len(tdi) : LoadShifting(tdi, program, k)
  \/ \E j \in 0 .. 2 : LoadLeaving(tdi, program, j)

\* A program that loads the bits tdi.
LoadProgram(tdi, program) ==
  /\ tdi \in Seq(Bits) /\ Len(tdi) = IrWidth
  /\ program \in Seq({program[1], program[2], program[3]}) /\ Len(program) = 3
  /\ program[1] = Goto("SHIFT_IR") /\ program[2] = ShiftBits(tdi)
  /\ program[3] = Goto("RUN_TEST_IDLE")

\* select_instruction is one.
LEMMA SelectLoads ==
  ASSUME NEW opcode \in Tap!Register(IrWidth)
  PROVE  LoadProgram([i \in 1 .. IrWidth |-> opcode[i - 1]], select_instruction(opcode))
<1> DEFINE tdi == [i \in 1 .. IrWidth |-> opcode[i - 1]]
<1>1. IrWidth \in Nat
  BY PlayAssumption
<1>2. tdi \in [1 .. IrWidth -> Bits]
  <2>1. ASSUME NEW i \in 1 .. IrWidth PROVE opcode[i - 1] \in Bits
    <3>1. i - 1 \in 0 .. IrWidth - 1
      BY <1>1
    <3> QED BY <3>1 DEF Tap!Register, Tap!Bits, Bits
  <2> QED BY <2>1
<1>3. tdi \in Seq(Bits) /\ Len(tdi) = IrWidth
  BY <1>1, <1>2, FunctionIsSeq
<1> QED BY <1>3, Programs DEF LoadProgram

\* The captured pattern comes first, then what is fed.
LEMMA IrStreamed ==
  ASSUME NEW tdi \in Seq(Bits), Len(tdi) = IrWidth
  PROVE  /\ IrWidth \in Nat \ {0}
         /\ IrStream(tdi) \in Seq(Bits) /\ Len(IrStream(tdi)) = IrWidth + IrWidth
         /\ \A i \in 1 .. IrWidth : IrStream(tdi)[i] = Tap!CAPTURE_IR_PATTERN[i - 1]
         /\ \A i \in 1 .. IrWidth : IrStream(tdi)[IrWidth + i] = tdi[i]
         /\ Tap!CAPTURE_IR_PATTERN = [i \in 0 .. IrWidth - 1 |-> Tap!CAPTURE_IR_PATTERN[i]]
<1> DEFINE pattern == [i \in 1 .. IrWidth |-> Tap!CAPTURE_IR_PATTERN[i - 1]]
<1>1. IrWidth \in Nat \ {0}
  BY PlayAssumption
<1>2. Tap!CAPTURE_IR_PATTERN \in [0 .. IrWidth - 1 -> Bits]
  BY DEF Tap!CAPTURE_IR_PATTERN, Tap!OPCODE_IDCODE, Bits
<1>3. pattern \in Seq(Bits) /\ Len(pattern) = IrWidth
  <2>1. pattern \in [1 .. IrWidth -> Bits]
    BY <1>1, <1>2
  <2> QED BY <1>1, <2>1, FunctionIsSeq
<1>4. \A i \in 1 .. IrWidth : pattern[i] = Tap!CAPTURE_IR_PATTERN[i - 1]
  OBVIOUS
<1> HIDE DEF pattern
<1>5. /\ pattern \o tdi \in Seq(Bits) /\ Len(pattern \o tdi) = IrWidth + IrWidth
      /\ \A i \in 1 .. IrWidth + IrWidth :
           (pattern \o tdi)[i] = IF i <= IrWidth THEN pattern[i] ELSE tdi[i - IrWidth]
  <2>1. /\ pattern \o tdi \in Seq(Bits) /\ Len(pattern \o tdi) = Len(pattern) + Len(tdi)
        /\ \A i \in 1 .. Len(pattern) + Len(tdi) :
             (pattern \o tdi)[i] = IF i <= Len(pattern) THEN pattern[i] ELSE tdi[i - Len(pattern)]
    BY <1>3, ConcatProperties
  <2>2. Len(pattern) = IrWidth /\ Len(tdi) = IrWidth
    BY <1>3
  <2> QED BY <2>1, <2>2
<1>6. \A i \in 1 .. IrWidth : (pattern \o tdi)[i] = Tap!CAPTURE_IR_PATTERN[i - 1]
  BY <1>1, <1>4, <1>5
<1>7. \A i \in 1 .. IrWidth : (pattern \o tdi)[IrWidth + i] = tdi[i]
  <2> TAKE i \in 1 .. IrWidth
  <2>1. IrWidth + i \in 1 .. IrWidth + IrWidth /\ ~(IrWidth + i <= IrWidth) /\ (IrWidth + i) - IrWidth = i
    BY <1>1
  <2> QED BY <1>5, <2>1
<1>8. Tap!CAPTURE_IR_PATTERN = [i \in 0 .. IrWidth - 1 |-> Tap!CAPTURE_IR_PATTERN[i]]
  BY <1>2
<1> QED BY <1>1, <1>5, <1>6, <1>7, <1>8 DEF IrStream, pattern

\* A bit shifted is a bit of the load.
LEMMA LoadShifts ==
  ASSUME state = "SHIFT_IR", UNCHANGED before, NEW tdi \in Seq(Bits), Len(tdi) = IrWidth,
         NEW tms \in Bits, NEW k \in Nat, k < Len(tdi), LoadHolds(tdi, k), LoadShows(tdi, k),
         Sequence(observed),
         Tap!Tick(tms, tdi[k + 1], TailBit(shift, po)), NetworkTick(tdi[k + 1]),
         observed' = [observed EXCEPT ![Len(observed)] = Append(@, tdo')]
  PROVE  LoadHolds(tdi, k + 1)' /\ LoadShows(tdi, k + 1)'
<1> DEFINE bit == tdi[k + 1]  stream == IrStream(tdi)
<1>1. /\ IrWidth \in Nat \ {0} /\ stream \in Seq(Bits) /\ Len(stream) = IrWidth + IrWidth
      /\ \A i \in 1 .. IrWidth : stream[IrWidth + i] = tdi[i]
  BY IrStreamed
<1>2. state \in Tap!TapState /\ bit \in Bits
  BY OneLonger DEF Tap!TapState
<1>3. /\ tdo' = irShift[0] /\ shift' = shift /\ po' = po
      /\ irShift' = Tap!Shifted(irShift, IrWidth, bit)
  BY <1>2, TickEffect
<1>4. irShift = [i \in 0 .. IrWidth - 1 |-> stream[k + 1 + i]]
  BY DEF LoadHolds
<1>5. irShift' = [i \in 0 .. IrWidth - 1 |-> IF i = IrWidth - 1 THEN bit ELSE irShift[i + 1]]
  BY <1>3 DEF Tap!Shifted
<1>6. ASSUME NEW i \in 0 .. IrWidth - 1
      PROVE  (IF i = IrWidth - 1 THEN bit ELSE irShift[i + 1]) = stream[(k + 1) + 1 + i]
  <2>1. CASE i = IrWidth - 1
    <3>1. k + 1 \in 1 .. IrWidth /\ (k + 1) + 1 + i = IrWidth + (k + 1)
      BY <1>1, <2>1
    <3>2. stream[IrWidth + (k + 1)] = tdi[k + 1]
      BY <1>1, <3>1
    <3> QED BY <2>1, <3>1, <3>2
  <2>2. CASE i # IrWidth - 1
    <3>1. i + 1 \in 0 .. IrWidth - 1 /\ k + 1 + (i + 1) = (k + 1) + 1 + i
      <4> HIDE DEF stream, bit
      <4>1. IrWidth \in Nat /\ i \in Nat /\ i < IrWidth - 1
        BY <1>1, <2>2
      <4> QED BY <4>1
    <3>2. irShift[i + 1] = stream[k + 1 + (i + 1)]
      BY <1>4, <3>1
    <3> QED BY <2>2, <3>1, <3>2
  <2> QED BY <2>1, <2>2
<1>7. irShift' = [i \in 0 .. IrWidth - 1 |-> stream[(k + 1) + 1 + i]]
  <2> HIDE DEF stream, bit
  <2> QED BY <1>5, <1>6
<1>8. LoadHolds(tdi, k + 1)'
  BY <1>3, <1>7 DEF LoadHolds
<1>9. tdo' = stream[k + 1]
  <2>1. 0 \in 0 .. IrWidth - 1 /\ k + 1 + 0 = k + 1
    BY <1>1
  <2> QED BY <1>3, <1>4, <2>1
<1>10. Last(observed') = Append(Last(observed), tdo')
  <2>1. observed' = [observed EXCEPT ![Len(observed)] = Append(observed[Len(observed)], tdo')]
    OBVIOUS
  <2>2. observed # << >>
    BY DEF LoadShows
  <2> DEFINE e == Append(observed[Len(observed)], tdo')
  <2> HIDE DEF e
  <2>3. Last([observed EXCEPT ![Len(observed)] = e]) = e
    BY <2>2, StillSequence
  <2>4. Last(observed') = e
    BY <2>1, <2>3 DEF e
  <2> QED BY <2>4 DEF Last, e
<1>11. SubSeq(stream, 1, k + 1) = Append(SubSeq(stream, 1, k), stream[k + 1])
  <2>1. k < Len(stream) /\ k \in Nat
    BY <1>1
  <2> QED BY <1>1, <2>1, OneLonger
<1>12. observed' # << >>
  BY StillSequence DEF LoadShows
<1>13. LoadShows(tdi, k + 1)'
  BY <1>9, <1>10, <1>11, <1>12 DEF LoadShows
<1> QED BY <1>8, <1>13

\* A cycle of a load takes it one step further.
LEMMA LoadTicks ==
  ASSUME PlayTick, NEW tdi, NEW program, LoadProgram(tdi, program), Loading(tdi, program),
         Sequence(observed)
  PROVE  Loading(tdi, program)'
<1>1. /\ cycles # << >> /\ tdi \in Seq(Bits) /\ Len(tdi) \in Nat /\ Len(tdi) = IrWidth
      /\ IrWidth \in Nat /\ IrWidth # 0
  BY PlayAssumption DEF PlayTick, LoadProgram
<1>2. CASE Waiting(program)
  BY <1>1, <1>2 DEF Waiting
<1>3. ASSUME NEW j \in 0 .. 4, LoadEntering(tdi, program, j) PROVE Loading(tdi, program)'
  <2> DEFINE whole == Walk(<<1, 1, 0, 0>>)
  <2>1. Doing(program, 1, "goto", whole, j) /\ whole \in Seq(Cycle) /\ Len(whole) = 4
    BY <1>3, Walks DEF LoadEntering
  <2> HIDE DEF whole
  <2>2. /\ j + 1 \in 1 .. 4 /\ j \in {0, 1, 2, 3}
        /\ Tap!Tick(whole[j + 1][1], whole[j + 1][2], TailBit(shift, po))
        /\ NetworkTick(whole[j + 1][2])
        /\ Rest(cycles', whole, j + 1) /\ UNCHANGED <<ops, log, before>>
    BY <2>1, CycleEffect DEF Doing
  <2>3. Doing(program, 1, "goto", whole, j + 1)'
    BY <2>1, <2>2 DEF Doing
  <2>4. whole[j + 1] = <<IF j + 1 <= 2 THEN 1 ELSE 0, 0>>
    BY <2>2, Walks DEF whole
  <2>5. CASE j = 0
    <3>1. /\ state = "RUN_TEST_IDLE" /\ Untouched
          /\ Tap!Tick(1, 0, TailBit(shift, po)) /\ NetworkTick(0)
      BY <1>3, <2>2, <2>4, <2>5 DEF LoadEntering
    <3>2. state' = "SELECT_DR_SCAN" /\ Untouched'
      BY <2>2, <3>1, TickEffect, Transitions DEF Tap!TapState, Bits, Untouched
    <3>3. LoadEntering(tdi, program, 1)'
      BY <2>3, <2>5, <3>2 DEF LoadEntering, whole
    <3> QED BY <3>3 DEF Loading
  <2>6. CASE j = 1
    <3>1. /\ state = "SELECT_DR_SCAN" /\ Untouched
          /\ Tap!Tick(1, 0, TailBit(shift, po)) /\ NetworkTick(0)
      BY <1>3, <2>2, <2>4, <2>6 DEF LoadEntering
    <3>2. state' = "SELECT_IR_SCAN" /\ Untouched'
      BY <2>2, <3>1, TickEffect, Transitions DEF Tap!TapState, Bits, Untouched
    <3>3. LoadEntering(tdi, program, 2)'
      BY <2>3, <2>6, <3>2 DEF LoadEntering, whole
    <3> QED BY <3>3 DEF Loading
  <2>7. CASE j = 2
    <3>1. /\ state = "SELECT_IR_SCAN" /\ Untouched
          /\ Tap!Tick(0, 0, TailBit(shift, po)) /\ NetworkTick(0)
      BY <1>3, <2>2, <2>4, <2>7 DEF LoadEntering
    <3>2. state' = "CAPTURE_IR" /\ Untouched'
      BY <2>2, <3>1, TickEffect, Transitions DEF Tap!TapState, Bits, Untouched
    <3>3. LoadEntering(tdi, program, 3)'
      BY <2>3, <2>7, <3>2 DEF LoadEntering, whole
    <3> QED BY <3>3 DEF Loading
  <2>8. CASE j = 3
    <3>1. /\ state = "CAPTURE_IR" /\ Untouched
          /\ Tap!Tick(0, 0, TailBit(shift, po)) /\ NetworkTick(0)
      BY <1>3, <2>2, <2>4, <2>8 DEF LoadEntering
    <3>2. state' = "SHIFT_IR" /\ Untouched' /\ irShift' = Tap!CAPTURE_IR_PATTERN
      BY <2>2, <3>1, TickEffect, Transitions DEF Tap!TapState, Bits, Untouched
    <3>3. \A i \in 0 .. IrWidth - 1 : IrStream(tdi)[0 + 1 + i] = Tap!CAPTURE_IR_PATTERN[i]
      <4> TAKE i \in 0 .. IrWidth - 1
      <4>1. 0 + 1 + i \in 1 .. IrWidth /\ (0 + 1 + i) - 1 = i
        BY <1>1
      <4> QED BY <1>1, <4>1, IrStreamed
    <3>4. irShift' = [i \in 0 .. IrWidth - 1 |-> IrStream(tdi)[0 + 1 + i]]
      BY <1>1, <3>2, <3>3, IrStreamed
    <3>5. LoadHolds(tdi, 0)'
      BY <3>2, <3>4 DEF LoadHolds, Untouched
    <3>6. LoadEntering(tdi, program, 4)'
      BY <2>3, <2>8, <3>2, <3>5 DEF LoadEntering, whole
    <3> QED BY <3>6 DEF Loading
  <2> QED BY <2>2, <2>5, <2>6, <2>7, <2>8
<1>4. ASSUME NEW k \in 0 .. Len(tdi), LoadShifting(tdi, program, k) PROVE Loading(tdi, program)'
  <2> DEFINE whole == ShiftCycles(tdi)
  <2>1. /\ Doing(program, 2, "shift", whole, k) /\ whole \in Seq(Cycle) /\ Len(whole) = Len(tdi)
        /\ LoadHolds(tdi, k) /\ LoadShows(tdi, k)
    BY <1>1, <1>4, ShiftWalk DEF LoadShifting
  <2> HIDE DEF whole
  <2>2. /\ k + 1 \in 1 .. Len(tdi) /\ k \in Nat /\ k < Len(tdi)
        /\ Tap!Tick(whole[k + 1][1], whole[k + 1][2], TailBit(shift, po))
        /\ NetworkTick(whole[k + 1][2])
        /\ Rest(cycles', whole, k + 1) /\ UNCHANGED <<ops, log, before>>
        /\ observed' = [observed EXCEPT ![Len(observed)] = Append(@, tdo')]
        /\ whole[k + 1][1] \in Bits
    BY <2>1, CycleEffect DEF Doing
  <2>3. whole[k + 1] = <<IF k + 1 = Len(tdi) THEN 1 ELSE 0, tdi[k + 1]>>
    BY <1>1, <2>2, ShiftWalk DEF whole
  <2>4. state = "SHIFT_IR"
    BY <1>4, <2>2 DEF LoadShifting
  <2>5. /\ Tap!Tick(IF k + 1 = Len(tdi) THEN 1 ELSE 0, tdi[k + 1], TailBit(shift, po))
        /\ NetworkTick(tdi[k + 1])
        /\ (IF k + 1 = Len(tdi) THEN 1 ELSE 0) \in Bits /\ tdi[k + 1] \in Bits
    BY <1>1, <2>2, <2>3 DEF Bits
  <2>6. LoadHolds(tdi, k + 1)' /\ LoadShows(tdi, k + 1)'
    BY <1>1, <2>1, <2>2, <2>4, <2>5, LoadShifts
  <2>7. state' = IF k + 1 = Len(tdi) THEN "EXIT1_IR" ELSE "SHIFT_IR"
    <3>1. state' = Tap!next_state("SHIFT_IR", IF k + 1 = Len(tdi) THEN 1 ELSE 0)
      BY <2>4, <2>5 DEF Tap!Tick
    <3> QED BY <3>1, Transitions
  <2>8. Doing(program, 2, "shift", whole, k + 1)'
    BY <2>1, <2>2 DEF Doing
  <2>9. LoadShifting(tdi, program, k + 1)' /\ k + 1 \in 0 .. Len(tdi)
    BY <1>1, <2>2, <2>6, <2>7, <2>8 DEF LoadShifting, whole
  <2> QED BY <2>9 DEF Loading
<1>5. ASSUME NEW j \in 0 .. 2, LoadLeaving(tdi, program, j) PROVE Loading(tdi, program)'
  <2> DEFINE whole == Walk(<<1, 0>>)
  <2>1. /\ Doing(program, 3, "goto", whole, j) /\ whole \in Seq(Cycle) /\ Len(whole) = 2
        /\ LoadShows(tdi, Len(tdi))
    BY <1>5, Walks DEF LoadLeaving
  <2> HIDE DEF whole
  <2>2. /\ j + 1 \in 1 .. 2 /\ j \in {0, 1}
        /\ Tap!Tick(whole[j + 1][1], whole[j + 1][2], TailBit(shift, po))
        /\ NetworkTick(whole[j + 1][2])
        /\ Rest(cycles', whole, j + 1) /\ UNCHANGED <<ops, log, before>>
        /\ observed' = observed
    BY <2>1, CycleEffect DEF Doing
  <2>3. Doing(program, 3, "goto", whole, j + 1)'
    BY <2>1, <2>2 DEF Doing
  <2>4. whole[j + 1] = <<IF j + 1 = 1 THEN 1 ELSE 0, 0>>
    BY <2>2, Walks DEF whole
  <2>5. LoadShows(tdi, Len(tdi))'
    BY <2>1, <2>2 DEF LoadShows
  <2>6. CASE j = 0
    <3>1. /\ state = "EXIT1_IR" /\ LoadHolds(tdi, Len(tdi))
          /\ Tap!Tick(1, 0, TailBit(shift, po)) /\ NetworkTick(0)
      BY <1>5, <2>2, <2>4, <2>6 DEF LoadLeaving
    <3>2. state' = "UPDATE_IR" /\ UNCHANGED <<irShift, shift, po>>
      BY <3>1, TickEffect, Transitions DEF Tap!TapState, Bits
    <3>3. LoadHolds(tdi, Len(tdi))'
      BY <2>2, <3>1, <3>2 DEF LoadHolds
    <3>4. LoadLeaving(tdi, program, 1)'
      BY <2>3, <2>5, <2>6, <3>2, <3>3 DEF LoadLeaving, whole
    <3> QED BY <3>4 DEF Loading
  <2>7. CASE j = 1
    <3>1. /\ state = "UPDATE_IR" /\ LoadHolds(tdi, Len(tdi))
          /\ Tap!Tick(0, 0, TailBit(shift, po)) /\ NetworkTick(0)
      BY <1>5, <2>2, <2>4, <2>7 DEF LoadLeaving
    <3>2. /\ state' = "RUN_TEST_IDLE" /\ shift' = shift /\ po' = po
          /\ instruction' = Tap!decode_instruction(irShift)
      BY <3>1, TickEffect, Transitions DEF Tap!TapState, Bits
    <3>3. \A i \in 0 .. IrWidth - 1 : IrStream(tdi)[Len(tdi) + 1 + i] = tdi[i + 1]
      <4> TAKE i \in 0 .. IrWidth - 1
      <4>1. i + 1 \in 1 .. IrWidth /\ Len(tdi) + 1 + i = IrWidth + (i + 1)
        BY <1>1
      <4> QED BY <1>1, <4>1, IrStreamed
    <3>4. irShift = [i \in 0 .. IrWidth - 1 |-> tdi[i + 1]]
      BY <3>1, <3>3 DEF LoadHolds
    <3>5. Untouched'
      BY <2>2, <3>1, <3>2 DEF LoadHolds, Untouched
    <3>6. LoadLeaving(tdi, program, 2)'
      BY <2>3, <2>5, <2>7, <3>2, <3>4, <3>5 DEF LoadLeaving, whole
    <3> QED BY <3>6 DEF Loading
  <2> QED BY <2>2, <2>6, <2>7
<1> QED BY <1>2, <1>3, <1>4, <1>5 DEF Loading

\* Starting an operation of a load takes it one step further, except out of an
\* unsettled reset, where play raises.
LEMMA LoadStarts ==
  ASSUME StartOp, NEW tdi, NEW program, LoadProgram(tdi, program), Loading(tdi, program),
         Sequence(observed), Sequence(log)
  PROVE  (Loading(tdi, program)' /\ ~raised') \/ (raised' /\ Misuse')
<1> DEFINE S == {program[1], program[2], program[3]}
<1>1. /\ program \in Seq(S) /\ Len(program) = 3 /\ program[1] = Goto("SHIFT_IR")
      /\ program[2] = ShiftBits(tdi) /\ program[3] = Goto("RUN_TEST_IDLE")
  BY DEF LoadProgram
<1>2. /\ cycles = << >> /\ ~raised /\ tdi \in Seq(Bits) /\ Len(tdi) \in Nat /\ Len(tdi) # 0
  BY PlayAssumption DEF StartOp, LoadProgram
<1>3. /\ Goto("SHIFT_IR").kind = "goto" /\ Goto("SHIFT_IR").state = "SHIFT_IR"
      /\ Goto("RUN_TEST_IDLE").kind = "goto" /\ Goto("RUN_TEST_IDLE").state = "RUN_TEST_IDLE"
      /\ ShiftBits(tdi).kind = "shift"
  BY DEF Goto, ShiftBits
<1> HIDE DEF S
<1>4. CASE Waiting(program) /\ state \in Stable /\ Untouched
  <2>1. /\ Rest(ops, program, 0) /\ 0 + 1 = 1
    BY <1>4 DEF Waiting
  <2>2. CASE raised'
    <3>1. /\ NavigationRaises(state, "SHIFT_IR") /\ UNCHANGED <<cycles, tapVars>>
      BY <1>1, <1>2, <1>3, <2>1, <2>2, StartEffect
    <3>2. state' = "TEST_LOGIC_RESET" /\ cycles' = << >>
      BY <1>2, <1>4, <3>1 DEF NavigationRaises, Stable, tapVars
    <3> QED BY <2>2, <3>2 DEF Misuse
  <2>3. CASE ~raised'
    <3>1. /\ ~NavigationRaises(state, "SHIFT_IR") /\ Rest(ops', program, 1)
          /\ cycles' = CyclesOf(Goto("SHIFT_IR"), state) /\ log' = Append(log, Goto("SHIFT_IR"))
          /\ UNCHANGED <<tapVars, shift, po, before>>
      BY <1>1, <1>2, <1>3, <2>1, <2>3, StartEffect
    <3>2. state = "RUN_TEST_IDLE"
      BY <1>4, <3>1 DEF NavigationRaises, Stable
    <3>3. cycles' = Walk(<<1, 1, 0, 0>>) /\ Rest(cycles', Walk(<<1, 1, 0, 0>>), 0)
      BY <3>1, <3>2, OperationCycles, Walks, RestEnds
    <3>4. log' # << >> /\ log'[Len(log')] = Goto("SHIFT_IR")
      BY <3>1, StillSequence
    <3>5. Doing(program, 1, "goto", Walk(<<1, 1, 0, 0>>), 0)'
      BY <1>3, <3>1, <3>3, <3>4 DEF Doing
    <3>6. state' = "RUN_TEST_IDLE" /\ Untouched'
      BY <1>4, <3>1, <3>2 DEF Untouched, tapVars
    <3>7. LoadEntering(tdi, program, 0)'
      BY <3>5, <3>6 DEF LoadEntering
    <3> QED BY <2>3, <3>7 DEF Loading
  <2> QED BY <2>2, <2>3
<1>5. ASSUME NEW j \in 0 .. 4, LoadEntering(tdi, program, j)
      PROVE  Loading(tdi, program)' /\ ~raised'
  <2>1. Doing(program, 1, "goto", Walk(<<1, 1, 0, 0>>), j)
    BY <1>5 DEF LoadEntering
  <2>2. j = 4
    BY <1>2, <2>1, Walks, RestEnds DEF Doing
  <2>3. state = "SHIFT_IR" /\ LoadHolds(tdi, 0)
    BY <1>5, <2>2 DEF LoadEntering
  <2>4. /\ Rest(ops', program, 2) /\ cycles' = CyclesOf(ShiftBits(tdi), state)
        /\ log' = Append(log, ShiftBits(tdi)) /\ observed' = Append(observed, << >>)
        /\ ~raised' /\ UNCHANGED <<tapVars, shift, po, before>>
    <3>1. Rest(ops, program, 1) /\ 1 + 1 = 2
      BY <2>1 DEF Doing
    <3> QED BY <1>1, <1>2, <1>3, <3>1, StartEffect
  <2>5. Rest(cycles', ShiftCycles(tdi), 0)
    BY <1>2, <2>4, OperationCycles, ShiftWalk, RestEnds
  <2>6. /\ log' # << >> /\ log'[Len(log')] = ShiftBits(tdi)
        /\ observed' # << >> /\ Last(observed') = << >>
    BY <2>4, StillSequence
  <2>7. Doing(program, 2, "shift", ShiftCycles(tdi), 0)'
    BY <1>3, <2>4, <2>5, <2>6 DEF Doing
  <2>8. LoadHolds(tdi, 0)' /\ state' = "SHIFT_IR"
    BY <2>3, <2>4 DEF LoadHolds, tapVars
  <2>9. LoadShows(tdi, 0)'
    <3>1. SubSeq(IrStream(tdi), 1, 0) = << >>
      BY SubSeqEmpty
    <3> QED BY <2>6, <3>1 DEF LoadShows
  <2>10. 0 # Len(tdi) /\ 0 \in 0 .. Len(tdi)
    BY <1>2
  <2>11. LoadShifting(tdi, program, 0)'
    BY <2>7, <2>8, <2>9, <2>10 DEF LoadShifting
  <2> QED BY <2>4, <2>10, <2>11 DEF Loading
<1>6. ASSUME NEW k \in 0 .. Len(tdi), LoadShifting(tdi, program, k)
      PROVE  Loading(tdi, program)' /\ ~raised'
  <2>1. Doing(program, 2, "shift", ShiftCycles(tdi), k)
    BY <1>6 DEF LoadShifting
  <2>2. k = Len(tdi)
    BY <1>2, <2>1, ShiftWalk, RestEnds DEF Doing
  <2>3. state = "EXIT1_IR" /\ LoadHolds(tdi, Len(tdi)) /\ LoadShows(tdi, Len(tdi))
    BY <1>6, <2>2 DEF LoadShifting
  <2>4. ~NavigationRaises(state, "RUN_TEST_IDLE")
    BY <2>3, OperationCycles
  <2>5. /\ Rest(ops', program, 3) /\ cycles' = CyclesOf(Goto("RUN_TEST_IDLE"), state)
        /\ log' = Append(log, Goto("RUN_TEST_IDLE")) /\ observed' = observed
        /\ ~raised' /\ UNCHANGED <<tapVars, shift, po, before>>
    <3>1. Rest(ops, program, 2) /\ 2 + 1 = 3
      BY <2>1 DEF Doing
    <3> QED BY <1>1, <1>2, <1>3, <2>4, <3>1, StartEffect
  <2>6. Rest(cycles', Walk(<<1, 0>>), 0)
    BY <2>3, <2>5, OperationCycles, Walks, RestEnds
  <2>7. log' # << >> /\ log'[Len(log')] = Goto("RUN_TEST_IDLE")
    BY <2>5, StillSequence
  <2>8. Doing(program, 3, "goto", Walk(<<1, 0>>), 0)'
    BY <1>3, <2>5, <2>6, <2>7 DEF Doing
  <2>9. LoadHolds(tdi, Len(tdi))' /\ state' = "EXIT1_IR" /\ LoadShows(tdi, Len(tdi))'
    BY <2>3, <2>5 DEF LoadHolds, LoadShows, tapVars
  <2>10. LoadLeaving(tdi, program, 0)'
    BY <2>8, <2>9 DEF LoadLeaving
  <2> QED BY <2>5, <2>10 DEF Loading
<1>7. ASSUME NEW j \in 0 .. 2, LoadLeaving(tdi, program, j) PROVE FALSE
  <2>1. Rest(ops, program, 3)
    BY <1>7 DEF LoadLeaving, Doing
  <2>2. 3 + 1 \in 1 .. Len(program)
    BY <1>1, <2>1, StartEffect
  <2> QED BY <1>1, <2>2
<1> QED BY <1>4, <1>5, <1>6, <1>7 DEF Loading

\* A load that is over has done what LoadSelects says.
LEMMA LoadOver ==
  ASSUME Idle, NEW tdi, NEW program, LoadProgram(tdi, program), Loading(tdi, program)
  PROVE  /\ state = "RUN_TEST_IDLE" /\ Untouched
         /\ instruction = Tap!decode_instruction([i \in 0 .. IrWidth - 1 |-> tdi[i + 1]])
         /\ Last(observed) = [i \in 1 .. IrWidth |-> Tap!CAPTURE_IR_PATTERN[i - 1]]
<1> DEFINE S == {program[1], program[2], program[3]}
<1>1. /\ program \in Seq(S) /\ Len(program) = 3 /\ tdi \in Seq(Bits) /\ Len(tdi) = IrWidth
  BY DEF LoadProgram
<1>2. ops = << >> /\ cycles = << >>
  BY DEF Idle
<1> HIDE DEF S
<1>3. \A n : Rest(ops, program, n) => n = 3
  BY <1>1, <1>2, RestEnds
<1>4. PICK j \in 0 .. 2 : LoadLeaving(tdi, program, j)
  BY <1>3 DEF Loading, Waiting, LoadEntering, LoadShifting, Doing
<1>5. Rest(cycles, Walk(<<1, 0>>), j)
  BY <1>4 DEF LoadLeaving, Doing
<1>6. j = 2
  BY <1>2, <1>5, Walks, RestEnds
<1>7. Last(observed) = SubSeq(IrStream(tdi), 1, IrWidth)
  BY <1>1, <1>4 DEF LoadLeaving, LoadShows
<1>8. SubSeq(IrStream(tdi), 1, IrWidth) = [i \in 1 .. IrWidth |-> Tap!CAPTURE_IR_PATTERN[i - 1]]
  <2>1. /\ IrWidth \in Nat /\ IrStream(tdi) \in Seq(Bits) /\ Len(IrStream(tdi)) = IrWidth + IrWidth
        /\ \A i \in 1 .. IrWidth : IrStream(tdi)[i] = Tap!CAPTURE_IR_PATTERN[i - 1]
    BY <1>1, IrStreamed
  <2>2. SubSeq(IrStream(tdi), 1, IrWidth) = [i \in 1 .. IrWidth |-> IrStream(tdi)[i]]
    BY <2>1
  <2> QED BY <2>1, <2>2
<1> QED BY <1>4, <1>6, <1>7, <1>8 DEF LoadLeaving

----------------------------------------------------------------------------
(* A reset, settled or not.                                                *)

\* The edges with TMS = 1 that lead to Test-Logic-Reset.
OnesToReset(s) ==
  CASE s = "TEST_LOGIC_RESET" -> 0
    [] s = "SELECT_IR_SCAN" -> 1
    [] s = "SELECT_DR_SCAN" -> 2
    [] s \in {"RUN_TEST_IDLE", "UPDATE_DR", "UPDATE_IR"} -> 3
    [] s \in {"EXIT1_DR", "EXIT2_DR", "EXIT1_IR", "EXIT2_IR"} -> 4
    [] OTHER -> 5

\* What the network has once the scan found under way is over.
Committed ==
  IF before.state \in InDrScan /\ before.instruction = Selected
    THEN Update(Abandoned(before), before.po)
    ELSE before.po

\* A scan found under way is left with what it has got to, and committed once
\* it has been; it is a scan of a register.
Abandoning ==
  /\ state \in Tap!TapState
  /\ state \in InDrScan =>
       /\ before.state \in InDrScan /\ instruction = before.instruction
       /\ instruction \in DataRegisters /\ po = before.po
       /\ IF state \in {"CAPTURE_DR", "SHIFT_DR"}
            THEN state = before.state /\ shift = before.shift
            ELSE shift = IF instruction = Selected THEN Abandoned(before) ELSE shift
  /\ state \notin InDrScan => po = Committed

Resetting(program) ==
  \/ Waiting(program) /\ Abandoning
  \/ \E j \in 0 .. 5 : /\ Doing(program, 1, "goto", Walk(<<1, 1, 1, 1, 1>>), j)
                       /\ OnesToReset(state) <= 5 - j /\ Abandoning
  \/ \E j \in 0 .. 1 : /\ Doing(program, 2, "goto", Walk(<< 0 >>), j)
                       /\ po = Committed
                       /\ \/ j = 0 /\ state = "TEST_LOGIC_RESET"
                          \/ /\ j = 1 /\ state = "RUN_TEST_IDLE"
                             /\ instruction = Tap!reset_instruction

\* A program that goes to Test-Logic-Reset, and perhaps leaves it.
ResetProgram(program) ==
  /\ program \in Seq({Goto("TEST_LOGIC_RESET"), Goto("RUN_TEST_IDLE")})
  /\ Len(program) \in {1, 2} /\ program[1] = Goto("TEST_LOGIC_RESET")
  /\ Len(program) = 2 => program[2] = Goto("RUN_TEST_IDLE")

\* TmsReset and UnsettledReset are such programs.
LEMMA ResetsReset == ResetProgram(TmsReset) /\ ResetProgram(UnsettledReset)
BY DEF ResetProgram, TmsReset, UnsettledReset

\* An edge with TMS = 1 is one edge nearer Test-Logic-Reset, abandons a scan
\* under way and starts none.
LEMMA OnesAbandon ==
  ASSUME Abandoning, UNCHANGED before,
         Tap!Tick(1, 0, TailBit(shift, po)), NetworkTick(0),
         NEW n \in 1 .. 5, OnesToReset(state) <= n
  PROVE  Abandoning' /\ OnesToReset(state') <= n - 1
<1>1. 1 \in Bits /\ 0 \in Bits /\ state \in Tap!TapState
  BY DEF Bits, Abandoning
<1>2. /\ state' = Tap!next_state(state, 1) /\ state' \in Tap!TapState
      /\ shift' = CASE instruction = Selected /\ state = "CAPTURE_DR" -> Capture(shift, po)
                    [] instruction = Selected /\ state = "SHIFT_DR" -> Shift(shift, po, 0)
                    [] OTHER -> shift
      /\ po' = IF instruction = Selected /\ state = "UPDATE_DR" THEN Update(shift, po) ELSE po
      /\ state \notin {"TEST_LOGIC_RESET", "UPDATE_IR"} => instruction' = instruction
  BY <1>1, TickEffect
<1>3. OnesToReset(state') <= n - 1
  <2>1. OnesToReset(state') < OnesToReset(state) \/ state' = "TEST_LOGIC_RESET"
    BY <1>1, <1>2 DEF Tap!TapState, Tap!next_state, Tap!TRANSITIONS, OnesToReset
  <2>2. /\ OnesToReset(state) \in Nat /\ OnesToReset(state') \in Nat
        /\ OnesToReset("TEST_LOGIC_RESET") = 0
    BY <1>1, <1>2 DEF OnesToReset, Tap!TapState
  <2> QED BY <2>1, <2>2
<1>4. CASE state \in {"CAPTURE_DR", "SHIFT_DR"}
  <2>1. state' = "EXIT1_DR"
    BY <1>2, <1>4 DEF Tap!next_state, Tap!TRANSITIONS
  <2>2. /\ before.state \in InDrScan /\ instruction = before.instruction
        /\ instruction \in DataRegisters /\ po = before.po
        /\ state = before.state /\ shift = before.shift
    BY <1>4 DEF Abandoning, InDrScan
  <2>3. instruction = Selected => shift' = Abandoned(before)
    BY <1>2, <1>4, <2>2 DEF Abandoned
  <2>4. instruction' = instruction /\ po' = po
    BY <1>2, <1>4
  <2>5. Abandoning'
    BY <1>2, <2>1, <2>2, <2>3, <2>4 DEF Abandoning, InDrScan
  <2> QED BY <1>3, <2>5
<1>5. CASE state \in {"EXIT1_DR", "PAUSE_DR", "EXIT2_DR"}
  <2>1. state' \in {"UPDATE_DR", "EXIT2_DR"}
    BY <1>2, <1>5 DEF Tap!next_state, Tap!TRANSITIONS
  <2>2. instruction' = instruction /\ po' = po /\ shift' = shift
    BY <1>2, <1>5
  <2>3. /\ before.state \in InDrScan /\ instruction = before.instruction
        /\ instruction \in DataRegisters /\ po = before.po
        /\ instruction = Selected => shift = Abandoned(before)
    BY <1>5 DEF Abandoning, InDrScan
  <2>4. state' \in InDrScan /\ state' \notin {"CAPTURE_DR", "SHIFT_DR"}
    BY <2>1 DEF InDrScan
  <2>5. Abandoning'
    BY <1>2, <2>2, <2>3, <2>4 DEF Abandoning
  <2> QED BY <1>3, <2>5
<1>6. CASE state = "UPDATE_DR"
  <2>1. state' = "SELECT_DR_SCAN" /\ state' \notin InDrScan
    BY <1>2, <1>6 DEF Tap!next_state, Tap!TRANSITIONS, InDrScan
  <2>2. /\ before.state \in InDrScan /\ instruction = before.instruction /\ po = before.po
        /\ instruction = Selected => shift = Abandoned(before)
    BY <1>6 DEF Abandoning, InDrScan
  <2>3. po' = Committed
    BY <1>2, <1>6, <2>2 DEF Committed
  <2>4. Committed' = Committed
    BY DEF Committed
  <2> QED BY <1>2, <1>3, <2>1, <2>3, <2>4 DEF Abandoning
<1>7. CASE state \notin InDrScan
  <2>1. state' \notin InDrScan
    BY <1>1, <1>2, <1>7 DEF Tap!TapState, Tap!next_state, Tap!TRANSITIONS, InDrScan
  <2>2. po' = po /\ po = Committed
    BY <1>2, <1>7 DEF Abandoning, InDrScan
  <2>3. Committed' = Committed
    BY DEF Committed
  <2> QED BY <1>1, <1>2, <1>3, <1>7, <2>1, <2>2, <2>3 DEF Abandoning
<1> QED BY <1>3, <1>4, <1>5, <1>6, <1>7 DEF InDrScan

\* A cycle of a reset takes it one step further.
LEMMA ResetTicks ==
  ASSUME PlayTick, NEW program, ResetProgram(program), Resetting(program)
  PROVE  Resetting(program)'
<1>1. cycles # << >>
  BY DEF PlayTick
<1>2. CASE Waiting(program)
  BY <1>1, <1>2 DEF Waiting
<1>3. ASSUME NEW j \in 0 .. 5, Doing(program, 1, "goto", Walk(<<1, 1, 1, 1, 1>>), j),
             OnesToReset(state) <= 5 - j, Abandoning
      PROVE  Resetting(program)'
  <2> DEFINE whole == Walk(<<1, 1, 1, 1, 1>>)
  <2>1. whole \in Seq(Cycle) /\ Len(whole) = 5
    BY Walks
  <2> HIDE DEF whole
  <2>2. Rest(cycles, whole, j)
    BY <1>3 DEF Doing, whole
  <2>3. /\ j + 1 \in 1 .. 5 /\ j \in Nat
        /\ Tap!Tick(whole[j + 1][1], whole[j + 1][2], TailBit(shift, po))
        /\ NetworkTick(whole[j + 1][2])
        /\ Rest(cycles', whole, j + 1) /\ UNCHANGED <<ops, log, before>>
    BY <2>1, <2>2, CycleEffect
  <2>4. whole[j + 1] = <<1, 0>>
    BY <2>3, Walks DEF whole
  <2>5. Doing(program, 1, "goto", whole, j + 1)'
    BY <1>3, <2>3 DEF Doing
  <2>6. Tap!Tick(1, 0, TailBit(shift, po)) /\ NetworkTick(0)
    BY <2>3, <2>4
  <2>7. 5 - j \in 1 .. 5 /\ (5 - j) - 1 = 5 - (j + 1) /\ j + 1 \in 0 .. 5
    BY <2>3
  <2>8. Abandoning' /\ OnesToReset(state') <= 5 - (j + 1)
    <3>1. Abandoning' /\ OnesToReset(state') <= (5 - j) - 1
      BY <1>3, <2>3, <2>6, <2>7, OnesAbandon
    <3> QED BY <2>7, <3>1
  <2> QED BY <2>5, <2>7, <2>8 DEF Resetting, whole
<1>4. ASSUME NEW j \in 0 .. 1, Doing(program, 2, "goto", Walk(<< 0 >>), j), po = Committed,
             \/ j = 0 /\ state = "TEST_LOGIC_RESET"
             \/ j = 1 /\ state = "RUN_TEST_IDLE" /\ instruction = Tap!reset_instruction
      PROVE  Resetting(program)'
  <2> DEFINE whole == Walk(<< 0 >>)
  <2>1. whole \in Seq(Cycle) /\ Len(whole) = 1
    BY Walks
  <2> HIDE DEF whole
  <2>2. Rest(cycles, whole, j)
    BY <1>4 DEF Doing, whole
  <2>3. /\ j + 1 \in 1 .. 1 /\ j = 0
        /\ Tap!Tick(whole[j + 1][1], whole[j + 1][2], TailBit(shift, po))
        /\ NetworkTick(whole[j + 1][2])
        /\ Rest(cycles', whole, j + 1) /\ UNCHANGED <<ops, log, before>>
    BY <2>1, <2>2, CycleEffect
  <2>4. whole[j + 1] = <<0, 0>>
    BY <2>3, Walks DEF whole
  <2>5. Doing(program, 2, "goto", whole, 1)'
    BY <1>4, <2>3 DEF Doing
  <2>6. state = "TEST_LOGIC_RESET" /\ Tap!Tick(0, 0, TailBit(shift, po)) /\ NetworkTick(0)
    BY <1>4, <2>3, <2>4
  <2>7. state' = "RUN_TEST_IDLE" /\ instruction' = Tap!reset_instruction /\ po' = po
    BY <2>6, TickEffect, Transitions DEF Tap!TapState, Bits
  <2>8. po' = Committed'
    BY <1>4, <2>3, <2>7 DEF Committed
  <2> QED BY <2>5, <2>7, <2>8 DEF Resetting, whole
<1> QED BY <1>2, <1>3, <1>4 DEF Resetting

\* A reset's cycles never find an instruction with no register.
LEMMA ResetNeverRaises ==
  ASSUME NEW program, Resetting(program)
  PROVE  ~Tap!NoActiveDr
<1>1. CASE Abandoning
  BY <1>1 DEF Abandoning, Tap!NoActiveDr, InDrScan
<1>2. CASE state \in Stable
  BY <1>2 DEF Stable, Tap!NoActiveDr
<1> QED BY <1>1, <1>2 DEF Resetting, Stable

\* Starting an operation of a reset takes it one step further.
LEMMA ResetStarts ==
  ASSUME StartOp, NEW program, ResetProgram(program), Resetting(program), Sequence(log)
  PROVE  Resetting(program)' /\ ~raised'
<1> DEFINE S == {Goto("TEST_LOGIC_RESET"), Goto("RUN_TEST_IDLE")}
<1>1. /\ program \in Seq(S) /\ Len(program) \in {1, 2} /\ program[1] = Goto("TEST_LOGIC_RESET")
      /\ Len(program) = 2 => program[2] = Goto("RUN_TEST_IDLE")
  BY DEF ResetProgram
<1>2. cycles = << >> /\ ~raised
  BY DEF StartOp
<1>3. /\ Goto("TEST_LOGIC_RESET").kind = "goto"
      /\ Goto("TEST_LOGIC_RESET").state = "TEST_LOGIC_RESET"
      /\ Goto("RUN_TEST_IDLE").kind = "goto" /\ Goto("RUN_TEST_IDLE").state = "RUN_TEST_IDLE"
  BY DEF Goto
<1> HIDE DEF S
<1>4. CASE Waiting(program) /\ Abandoning
  <2>1. Rest(ops, program, 0) /\ 0 + 1 = 1
    BY <1>4 DEF Waiting
  <2>2. ~NavigationRaises(state, "TEST_LOGIC_RESET")
    BY OperationCycles
  <2>3. /\ Rest(ops', program, 1) /\ cycles' = CyclesOf(Goto("TEST_LOGIC_RESET"), state)
        /\ log' = Append(log, Goto("TEST_LOGIC_RESET")) /\ ~raised'
        /\ UNCHANGED <<tapVars, shift, po, before>>
    BY <1>1, <1>2, <1>3, <2>1, <2>2, StartEffect
  <2>4. Rest(cycles', Walk(<<1, 1, 1, 1, 1>>), 0)
    BY <2>3, OperationCycles, Walks, RestEnds
  <2>5. log' # << >> /\ log'[Len(log')] = Goto("TEST_LOGIC_RESET")
    BY <2>3, StillSequence
  <2>6. Doing(program, 1, "goto", Walk(<<1, 1, 1, 1, 1>>), 0)'
    BY <1>3, <2>3, <2>4, <2>5 DEF Doing
  <2>7. Abandoning' /\ state' = state
    BY <1>4, <2>3 DEF Abandoning, Committed, tapVars
  <2>8. OnesToReset(state') <= 5 - 0 /\ 0 \in 0 .. 5
    BY DEF OnesToReset
  <2> QED BY <2>3, <2>6, <2>7, <2>8 DEF Resetting
<1>5. ASSUME NEW j \in 0 .. 5, Doing(program, 1, "goto", Walk(<<1, 1, 1, 1, 1>>), j),
             OnesToReset(state) <= 5 - j, Abandoning
      PROVE  Resetting(program)' /\ ~raised'
  <2>1. Rest(ops, program, 1) /\ Rest(cycles, Walk(<<1, 1, 1, 1, 1>>), j) /\ 1 + 1 = 2
    BY <1>5 DEF Doing
  <2>2. j = 5
    BY <1>2, <2>1, Walks, RestEnds
  <2>3. state = "TEST_LOGIC_RESET"
    BY <1>5, <2>2 DEF OnesToReset
  <2>4. 2 \in 1 .. Len(program)
    BY <1>1, <2>1, StartEffect
  <2>5. program[2] = Goto("RUN_TEST_IDLE")
    BY <1>1, <2>4
  <2>6. ~NavigationRaises(state, "RUN_TEST_IDLE")
    BY <2>3, OperationCycles
  <2>7. /\ Rest(ops', program, 2) /\ cycles' = CyclesOf(Goto("RUN_TEST_IDLE"), state)
        /\ log' = Append(log, Goto("RUN_TEST_IDLE")) /\ ~raised'
        /\ UNCHANGED <<tapVars, shift, po, before>>
    BY <1>1, <1>2, <1>3, <2>1, <2>5, <2>6, StartEffect
  <2>8. Rest(cycles', Walk(<< 0 >>), 0)
    BY <2>3, <2>7, OperationCycles, Walks, RestEnds
  <2>9. log' # << >> /\ log'[Len(log')] = Goto("RUN_TEST_IDLE")
    BY <2>7, StillSequence
  <2>10. Doing(program, 2, "goto", Walk(<< 0 >>), 0)'
    BY <1>3, <2>7, <2>8, <2>9 DEF Doing
  <2>11. po = Committed
    BY <1>5, <2>3 DEF Abandoning, InDrScan
  <2>12. po' = Committed' /\ state' = "TEST_LOGIC_RESET" /\ 0 \in 0 .. 1
    BY <2>3, <2>7, <2>11 DEF Committed, tapVars
  <2> QED BY <2>7, <2>10, <2>12 DEF Resetting
<1>6. ASSUME NEW j \in 0 .. 1, Doing(program, 2, "goto", Walk(<< 0 >>), j) PROVE FALSE
  <2>1. Rest(ops, program, 2)
    BY <1>6 DEF Doing
  <2>2. 2 + 1 \in 1 .. Len(program)
    BY <1>1, <2>1, StartEffect
  <2>3. CASE Len(program) = 1
    BY <2>2, <2>3
  <2>4. CASE Len(program) = 2
    BY <2>2, <2>4
  <2> QED BY <1>1, <2>3, <2>4
<1> QED BY <1>4, <1>5, <1>6 DEF Resetting

\* A reset that is over has reset the TAP and committed what it found under way.
LEMMA ResetOver ==
  ASSUME Idle, NEW program, ResetProgram(program), Resetting(program)
  PROVE  /\ state = IF Len(program) = 2 THEN "RUN_TEST_IDLE" ELSE "TEST_LOGIC_RESET"
         /\ Len(program) = 2 => instruction = Tap!reset_instruction
         /\ po = Committed
<1>1. /\ program \in Seq({Goto("TEST_LOGIC_RESET"), Goto("RUN_TEST_IDLE")})
      /\ Len(program) \in {1, 2}
  BY DEF ResetProgram
<1>2. ops = << >> /\ cycles = << >>
  BY DEF Idle
<1>3. \A n : Rest(ops, program, n) => n = Len(program)
  BY <1>1, <1>2, RestEnds
<1>4. CASE Waiting(program)
  BY <1>1, <1>3, <1>4 DEF Waiting
<1>5. ASSUME NEW j \in 0 .. 5, Doing(program, 1, "goto", Walk(<<1, 1, 1, 1, 1>>), j),
             OnesToReset(state) <= 5 - j, Abandoning
      PROVE  state = "TEST_LOGIC_RESET" /\ Len(program) = 1 /\ po = Committed
  <2>1. Len(program) = 1
    BY <1>3, <1>5 DEF Doing
  <2>2. j = 5
    BY <1>2, <1>5, Walks, RestEnds DEF Doing
  <2>3. state = "TEST_LOGIC_RESET"
    BY <1>5, <2>2 DEF OnesToReset
  <2> QED BY <1>5, <2>1, <2>3 DEF Abandoning, InDrScan
<1>6. ASSUME NEW j \in 0 .. 1, Doing(program, 2, "goto", Walk(<< 0 >>), j)
      PROVE  Len(program) = 2 /\ j = 1
  <2>1. Len(program) = 2
    BY <1>3, <1>6 DEF Doing
  <2>2. j = 1
    BY <1>2, <1>6, Walks, RestEnds DEF Doing
  <2> QED BY <2>1, <2>2
<1> QED BY <1>4, <1>5, <1>6 DEF Resetting

----------------------------------------------------------------------------
(* A Runtest, and a pin operation.                                         *)

Resting ==
  \/ Waiting(<< Runtest(4) >>) /\ state \in Stable
  \/ \E j \in 0 .. 4 : /\ Doing(<< Runtest(4) >>, 1, "runtest", Idling, j)
                       /\ state \in Stable

Pinning(op) ==
  /\ state \in Stable /\ cycles = << >>
  /\ \E n \in 0 .. 1 : Rest(ops, << op >>, n)

\* A Runtest starts, and idles.
LEMMA RestingSteps ==
  ASSUME Resting, Sequence(log)
  PROVE  /\ PlayTick => Resting'
         /\ StartOp => Resting' /\ ~raised'
         /\ ~Tap!NoActiveDr
<1> DEFINE program == << Runtest(4) >>
<1>1. program \in Seq({Runtest(4)}) /\ Len(program) = 1 /\ program[1] = Runtest(4)
  BY Programs
<1>2. Runtest(4).kind = "runtest" /\ Idling \in Seq(Cycle) /\ Len(Idling) = 4
  BY Walks DEF Runtest
<1> HIDE DEF program
<1>3. ASSUME PlayTick PROVE Resting'
  <2>1. cycles # << >>
    BY <1>3 DEF PlayTick
  <2>2. PICK j \in 0 .. 4 : Doing(program, 1, "runtest", Idling, j) /\ state \in Stable
    BY <2>1 DEF Resting, Waiting, program
  <2>3. Rest(cycles, Idling, j)
    BY <2>2 DEF Doing
  <2>4. /\ j + 1 \in 1 .. 4
        /\ Tap!Tick(Idling[j + 1][1], Idling[j + 1][2], TailBit(shift, po))
        /\ Rest(cycles', Idling, j + 1) /\ UNCHANGED <<ops, log>>
    BY <1>2, <1>3, <2>3, CycleEffect
  <2>5. Idling[j + 1] = <<0, 0>>
    BY <2>4, Walks
  <2>6. state' = Tap!next_state(state, 0)
    BY <2>4, <2>5 DEF Tap!Tick
  <2>7. state' \in Stable
    BY <2>2, <2>6, Transitions DEF Stable
  <2>8. Doing(program, 1, "runtest", Idling, j + 1)' /\ j + 1 \in 0 .. 4
    BY <2>2, <2>4 DEF Doing
  <2> QED BY <2>7, <2>8 DEF Resting, program
<1>4. ASSUME StartOp PROVE Resting' /\ ~raised'
  <2>1. CASE Waiting(program) /\ state \in Stable
    <3>1. Rest(ops, program, 0) /\ 0 + 1 = 1
      BY <2>1 DEF Waiting
    <3>2. /\ Rest(ops', program, 1) /\ cycles' = CyclesOf(Runtest(4), state)
          /\ log' = Append(log, Runtest(4)) /\ ~raised' /\ UNCHANGED tapVars
      BY <1>1, <1>2, <1>4, <3>1, StartEffect
    <3>3. Rest(cycles', Idling, 0)
      BY <1>2, <3>2, OperationCycles, RestEnds
    <3>4. log' # << >> /\ log'[Len(log')] = Runtest(4)
      BY <3>2, StillSequence
    <3>5. Doing(program, 1, "runtest", Idling, 0)' /\ 0 \in 0 .. 4
      BY <1>2, <3>2, <3>3, <3>4 DEF Doing
    <3>6. state' \in Stable
      BY <2>1, <3>2 DEF tapVars
    <3> QED BY <3>2, <3>5, <3>6 DEF Resting, program
  <2>2. CASE Rest(ops, program, 1)
    <3>1. 1 + 1 \in 1 .. Len(program)
      BY <1>1, <1>4, <2>2, StartEffect
    <3> QED BY <1>1, <3>1
  <2> QED BY <2>1, <2>2 DEF Resting, Doing, program
<1>5. ~Tap!NoActiveDr
  BY DEF Resting, Stable, Tap!NoActiveDr
<1> QED BY <1>3, <1>4, <1>5

\* A pin operation sends nothing.
LEMMA PinningSteps ==
  ASSUME NEW op \in PinOps, Pinning(op)
  PROVE  /\ ~PlayTick /\ ~Tap!NoActiveDr
         /\ StartOp => Pinning(op)' /\ ~raised'
<1> DEFINE program == << op >>
<1>1. program \in Seq({op}) /\ Len(program) = 1 /\ program[1] = op
  BY Programs
<1>2. op.kind \in {"pins", "pulse"}
  BY PlayAssumption
<1> HIDE DEF program
<1>3. ~PlayTick /\ ~Tap!NoActiveDr
  BY DEF Pinning, PlayTick, Stable, Tap!NoActiveDr
<1>4. ASSUME StartOp PROVE Pinning(op)' /\ ~raised'
  <2>1. PICK n \in 0 .. 1 : Rest(ops, program, n)
    BY DEF Pinning, program
  <2>2. n + 1 \in 1 .. 1
    BY <1>1, <1>4, <2>1, StartEffect
  <2>3. n = 0 /\ n + 1 = 1
    BY <2>2
  <2>4. Rest(ops', program, 1) /\ cycles' = CyclesOf(op, state) /\ ~raised' /\ UNCHANGED tapVars
    BY <1>1, <1>2, <1>4, <2>1, <2>3, StartEffect
  <2>5. cycles' = << >>
    BY <1>2, <2>4, OperationCycles
  <2>6. state' \in Stable
    BY <2>4 DEF Pinning, tapVars
  <2> QED BY <2>4, <2>5, <2>6 DEF Pinning, program
<1> QED BY <1>3, <1>4

----------------------------------------------------------------------------
(* The invariant: how far the group being played has got.                  *)

LoadBits(opcode) == [i \in 1 .. IrWidth |-> opcode[i - 1]]

ScanBlock(tdi) == [kind |-> "scan", ops |-> DrScan(tdi)]
LoadBlock(opcode) == [kind |-> "select", ops |-> select_instruction(opcode)]
PinBlock(op) == [kind |-> "pins", ops |-> << op >>]
WaitBlock == [kind |-> "wait", ops |-> << Runtest(4) >>]
ResetBlock == [kind |-> "reset", ops |-> TmsReset]
UnsettledBlock == [kind |-> "unsettled", ops |-> UnsettledReset]

Playing ==
  \/ block = NoBlock /\ ops = << >> /\ cycles = << >> /\ state \in Stable
  \/ \E tdi \in Seq(Bits) \ {<< >>} : block = ScanBlock(tdi) /\ Scanning(tdi)
  \/ \E opcode \in Tap!Register(IrWidth) :
       block = LoadBlock(opcode) /\ Loading(LoadBits(opcode), select_instruction(opcode))
  \/ \E op \in PinOps : block = PinBlock(op) /\ Pinning(op)
  \/ block = WaitBlock /\ Resting
  \/ block = ResetBlock /\ Resetting(TmsReset)
  \/ block = UnsettledBlock /\ Resetting(UnsettledReset)

ProgramInv ==
  /\ Sequence(log) /\ Sequence(observed) /\ plan \in Seq(Tests) /\ raised \in BOOLEAN
  /\ block.kind # "test" =>
       IF raised THEN Misuse /\ block.kind # "reset" ELSE Playing

\* The kinds of the groups tell them apart.
LEMMA Kinds ==
  /\ NoBlock.kind = "none" /\ WaitBlock.kind = "wait" /\ ResetBlock.kind = "reset"
  /\ UnsettledBlock.kind = "unsettled"
  /\ \A tdi : ScanBlock(tdi).kind = "scan" /\ ScanBlock(tdi).ops = DrScan(tdi)
  /\ \A opcode : /\ LoadBlock(opcode).kind = "select"
                 /\ LoadBlock(opcode).ops = select_instruction(opcode)
  /\ \A op : PinBlock(op).kind = "pins"
BY DEF NoBlock, WaitBlock, ResetBlock, UnsettledBlock, ScanBlock, LoadBlock, PinBlock

\* A group that is over leaves the TAP where the next one may start.
LEMMA BetweenGroups ==
  ASSUME Idle, Playing
  PROVE  state \in Stable
<1>1. \A tdi \in Seq(Bits) \ {<< >>} : Scanning(tdi) => state = "RUN_TEST_IDLE"
  BY ScanOver
<1>2. \A opcode \in Tap!Register(IrWidth) :
        Loading(LoadBits(opcode), select_instruction(opcode)) => state = "RUN_TEST_IDLE"
  BY SelectLoads, LoadOver DEF LoadBits
<1>3. \A op : Pinning(op) => state \in Stable
  BY DEF Pinning
<1>4. Resting => state \in Stable
  BY DEF Resting
<1>5. Resetting(TmsReset) \/ Resetting(UnsettledReset) => state \in Stable
  BY ResetsReset, ResetOver DEF Stable
<1> QED BY <1>1, <1>2, <1>3, <1>4, <1>5 DEF Playing, Stable

\* A program starts settled, or with a reset.
LEMMA ProgramInit == Init => ProgramInv
<1> SUFFICES ASSUME Init PROVE ProgramInv
  OBVIOUS
<1>1. Sequence(log) /\ Sequence(observed) /\ raised = FALSE
  BY DEF Init, Sequence
<1>2. plan \in Seq(Tests)
  <2>1. plan \in {<< >>} \cup Plans
    BY DEF Init
  <2>2. Plans \subseteq Seq(Tests)
    BY PlayAssumption
  <2>3. << >> \in Seq(Tests)
    OBVIOUS
  <2> QED BY <2>1, <2>2, <2>3
<1>3. CASE block = NoBlock /\ ops = << >> /\ state = "RUN_TEST_IDLE"
  <2>1. cycles = << >>
    BY DEF Init
  <2> QED BY <1>1, <1>2, <1>3, <2>1 DEF ProgramInv, Playing, Stable
<1>4. CASE /\ state \in Tap!TapState /\ instruction \in DataRegisters
           /\ block = ResetBlock /\ ops = TmsReset
  <2>1. Waiting(TmsReset)
    <3>1. cycles = << >>
      BY DEF Init
    <3>2. TmsReset \in Seq({Goto("TEST_LOGIC_RESET"), Goto("RUN_TEST_IDLE")})
      BY ResetsReset DEF ResetProgram
    <3> QED BY <1>4, <3>1, <3>2, RestEnds DEF Waiting
  <2>2. /\ before.state = state /\ before.instruction = instruction
        /\ before.shift = shift /\ before.po = po
    BY DEF Init, Held
  <2>3. Abandoning
    <3>1. state \notin {"CAPTURE_DR", "SHIFT_DR"} => Abandoned(before) = shift
      BY <2>2 DEF Abandoned
    <3>2. state \notin InDrScan => Committed = po
      BY <2>2 DEF Committed
    <3> QED BY <1>4, <2>2, <3>1, <3>2 DEF Abandoning
  <2> QED BY <1>1, <1>2, <1>4, <2>1, <2>3 DEF ProgramInv, Playing, Resetting
<1> QED BY <1>3, <1>4 DEF Init, ResetBlock

\* A group emitted is a group waiting.
LEMMA GroupEmitted ==
  ASSUME NEW b \in Blocks, Emit(b), state \in Stable
  PROVE  Playing' /\ (block').kind # "test"
<1>1. /\ ops' = b.ops /\ block' = b /\ cycles' = << >> /\ state' = state
      /\ instruction' = instruction /\ shift' = shift /\ po' = po
      /\ before' = Held
  BY DEF Emit, Idle, tapVars
<1>2. state' \in Stable /\ state' \in Tap!TapState /\ state' \notin InDrScan
  BY <1>1 DEF Stable, Tap!TapState, InDrScan
<1>3. Same' /\ Untouched'
  BY <1>1 DEF Held, Same, Untouched
<1>4. Abandoning'
  <2>1. Committed' = po'
    BY <1>1, <1>2 DEF Committed, Held
  <2> QED BY <1>2, <2>1 DEF Abandoning
<1>5. ASSUME NEW t \in UNION {[1 .. n -> Bits] : n \in ScanLengths}, b = ScanBlock(t)
      PROVE  Playing' /\ (block').kind # "test"
  <2>1. t \in Seq(Bits) \ {<< >>}
    <3>1. PICK n \in ScanLengths : t \in [1 .. n -> Bits]
      BY <1>5
    <3>2. n \in Nat \ {0}
      BY PlayAssumption
    <3>3. t \in Seq(Bits) /\ Len(t) = n
      BY <3>1, <3>2, FunctionIsSeq
    <3> QED BY <3>2, <3>3, EmptySeq
  <2>2. b.ops = DrScan(t) /\ b.kind = "scan"
    BY <1>5, Kinds
  <2>3. Waiting(DrScan(t))'
    BY <1>1, <2>2, Programs, RestEnds DEF Waiting
  <2>4. Scanning(t)'
    BY <1>2, <1>3, <2>3 DEF Scanning
  <2> QED BY <1>1, <1>5, <2>1, <2>2, <2>4 DEF Playing
<1>6. ASSUME NEW opcode \in Tap!Register(IrWidth), b = LoadBlock(opcode)
      PROVE  Playing' /\ (block').kind # "test"
  <2>1. b.ops = select_instruction(opcode) /\ b.kind = "select"
    BY <1>6, Kinds
  <2>2. Waiting(select_instruction(opcode))'
    BY <1>1, <2>1, Programs, RestEnds DEF Waiting
  <2>3. Loading(LoadBits(opcode), select_instruction(opcode))'
    BY <1>2, <1>3, <2>2 DEF Loading
  <2> QED BY <1>1, <1>6, <2>1, <2>3 DEF Playing
<1>7. ASSUME NEW op \in PinOps, b = PinBlock(op)
      PROVE  Playing' /\ (block').kind # "test"
  <2>1. b.ops = << op >> /\ b.kind = "pins"
    BY <1>7 DEF PinBlock
  <2>2. Rest(ops', << op >>, 0) /\ 0 \in 0 .. 1
    <3>1. << op >> \in Seq({op})
      BY Programs
    <3>2. Rest(<< op >>, << op >>, 0)
      BY <3>1, RestEnds
    <3> QED BY <1>1, <2>1, <3>2
  <2>3. Pinning(op)'
    BY <1>1, <1>2, <2>2 DEF Pinning
  <2> QED BY <1>1, <1>7, <2>1, <2>3 DEF Playing
<1>8. CASE b = WaitBlock
  <2>1. b.ops = << Runtest(4) >> /\ b.kind = "wait"
    BY <1>8 DEF WaitBlock
  <2>2. Waiting(<< Runtest(4) >>)'
    BY <1>1, <2>1, Programs, RestEnds DEF Waiting
  <2>3. Resting'
    BY <1>2, <2>2 DEF Resting
  <2> QED BY <1>1, <1>8, <2>1, <2>3 DEF Playing
<1>9. CASE b = ResetBlock
  <2>1. b.ops = TmsReset /\ b.kind = "reset"
    BY <1>9 DEF ResetBlock
  <2>2. Waiting(TmsReset)'
    BY <1>1, <2>1, Programs, RestEnds DEF Waiting
  <2>3. Resetting(TmsReset)'
    BY <1>4, <2>2 DEF Resetting
  <2> QED BY <1>1, <1>9, <2>1, <2>3 DEF Playing
<1>10. CASE b = UnsettledBlock
  <2>1. b.ops = UnsettledReset /\ b.kind = "unsettled"
    BY <1>10 DEF UnsettledBlock
  <2>2. Waiting(UnsettledReset)'
    BY <1>1, <2>1, Programs, RestEnds DEF Waiting
  <2>3. Resetting(UnsettledReset)'
    BY <1>4, <2>2 DEF Resetting
  <2> QED BY <1>1, <1>10, <2>1, <2>3 DEF Playing
<1> QED BY <1>5, <1>6, <1>7, <1>8, <1>9, <1>10
        DEF Blocks, ScanBlock, LoadBlock, PinBlock, WaitBlock, ResetBlock, UnsettledBlock

\* Starting an operation takes the group one step further, or raises where it may.
LEMMA GroupStarts ==
  ASSUME StartOp, Playing, Sequence(log), Sequence(observed)
  PROVE  (Playing' /\ ~raised') \/ (raised' /\ Misuse' /\ (block').kind # "reset")
<1>1. block' = block
  BY DEF StartOp
<1>2. CASE block = NoBlock /\ ops = << >>
  BY <1>2 DEF StartOp
<1>3. ASSUME NEW tdi \in Seq(Bits) \ {<< >>}, block = ScanBlock(tdi), Scanning(tdi)
      PROVE  (Playing' /\ ~raised') \/ (raised' /\ Misuse' /\ (block').kind # "reset")
  <2>1. (Scanning(tdi)' /\ ~raised') \/ (raised' /\ Misuse')
    BY <1>3, ScanStarts
  <2>2. block.kind # "reset"
    BY <1>3, Kinds
  <2> QED BY <1>1, <1>3, <2>1, <2>2 DEF Playing
<1>4. ASSUME NEW opcode \in Tap!Register(IrWidth), block = LoadBlock(opcode),
             Loading(LoadBits(opcode), select_instruction(opcode))
      PROVE  (Playing' /\ ~raised') \/ (raised' /\ Misuse' /\ (block').kind # "reset")
  <2>1. LoadProgram(LoadBits(opcode), select_instruction(opcode))
    BY SelectLoads DEF LoadBits
  <2>2. \/ Loading(LoadBits(opcode), select_instruction(opcode))' /\ ~raised'
        \/ raised' /\ Misuse'
    BY <1>4, <2>1, LoadStarts
  <2>3. block.kind # "reset"
    BY <1>4, Kinds
  <2> QED BY <1>1, <1>4, <2>2, <2>3 DEF Playing
<1>5. ASSUME NEW op \in PinOps, block = PinBlock(op), Pinning(op) PROVE Playing' /\ ~raised'
  BY <1>1, <1>5, PinningSteps DEF Playing
<1>6. CASE block = WaitBlock /\ Resting
  BY <1>1, <1>6, RestingSteps DEF Playing
<1>7. CASE block = ResetBlock /\ Resetting(TmsReset)
  BY <1>1, <1>7, ResetsReset, ResetStarts DEF Playing
<1>8. CASE block = UnsettledBlock /\ Resetting(UnsettledReset)
  BY <1>1, <1>8, ResetsReset, ResetStarts DEF Playing
<1> QED BY <1>2, <1>3, <1>4, <1>5, <1>6, <1>7, <1>8 DEF Playing

\* A cycle takes the group one step further.
LEMMA GroupTicks ==
  ASSUME PlayTick, Playing, Sequence(observed), Sequence(log)
  PROVE  Playing'
<1>1. block' = block
  BY DEF PlayTick
<1>2. CASE block = NoBlock /\ cycles = << >>
  BY <1>2 DEF PlayTick
<1>3. ASSUME NEW tdi \in Seq(Bits) \ {<< >>}, block = ScanBlock(tdi), Scanning(tdi)
      PROVE  Playing'
  BY <1>1, <1>3, ScanTicks DEF Playing
<1>4. ASSUME NEW opcode \in Tap!Register(IrWidth), block = LoadBlock(opcode),
             Loading(LoadBits(opcode), select_instruction(opcode))
      PROVE  Playing'
  <2>1. LoadProgram(LoadBits(opcode), select_instruction(opcode))
    BY SelectLoads DEF LoadBits
  <2>2. Loading(LoadBits(opcode), select_instruction(opcode))'
    BY <1>4, <2>1, LoadTicks
  <2> QED BY <1>1, <1>4, <2>2 DEF Playing
<1>5. \A op \in PinOps : ~Pinning(op)
  BY PinningSteps
<1>6. CASE block = WaitBlock /\ Resting
  <2>1. Resting'
    BY <1>6, RestingSteps
  <2> QED BY <1>1, <1>6, <2>1 DEF Playing
<1>7. CASE block = ResetBlock /\ Resetting(TmsReset)
  BY <1>1, <1>7, ResetsReset, ResetTicks DEF Playing
<1>8. CASE block = UnsettledBlock /\ Resetting(UnsettledReset)
  BY <1>1, <1>8, ResetsReset, ResetTicks DEF Playing
<1> QED BY <1>2, <1>3, <1>4, <1>5, <1>6, <1>7, <1>8 DEF Playing

\* Every step keeps the invariant.
LEMMA ProgramStep == ProgramInv /\ [Next]_vars => ProgramInv'
<1> SUFFICES ASSUME ProgramInv, [Next]_vars PROVE ProgramInv'
  OBVIOUS
<1> USE DEF ProgramInv
<1>1. ASSUME NEW b \in Blocks, Emit(b) PROVE ProgramInv'
  <2>1. /\ Idle /\ block.kind # "test" /\ ~raised
        /\ UNCHANGED <<raised, log, observed, plan>>
    BY <1>1 DEF Emit, Idle
  <2>2. state \in Stable
    BY <2>1, BetweenGroups
  <2>3. Playing' /\ (block').kind # "test"
    BY <1>1, <2>2, GroupEmitted
  <2> QED BY <2>1, <2>3
<1>2. CASE EmitTest
  <2>1. /\ plan # << >> /\ block' = Head(plan) /\ plan' = Tail(plan)
        /\ UNCHANGED <<raised, log, observed>>
    BY <1>2 DEF EmitTest
  <2>2. Head(plan) \in Tests /\ Tail(plan) \in Seq(Tests)
    BY <2>1, HeadTailProperties
  <2>3. Head(plan).kind = "test"
    BY <2>2, PlayAssumption
  <2> QED BY <2>1, <2>2, <2>3
<1>3. CASE StartOp
  <2>1. UNCHANGED <<block, plan>> /\ ~raised
    BY <1>3 DEF StartOp
  <2>2. Sequence(log') /\ Sequence(observed') /\ raised' \in BOOLEAN
    <3>1. /\ log' = log \/ \E op : log' = Append(log, op)
          /\ observed' = observed \/ observed' = Append(observed, << >>)
          /\ raised' = TRUE \/ raised' = raised
      BY <1>3 DEF StartOp
    <3>2. /\ \A op : Sequence(Append(log, op))
          /\ Sequence(Append(observed, << >>))
      BY StillSequence
    <3> QED BY <3>1, <3>2
  <2>3. block.kind # "test" =>
          (Playing' /\ ~raised') \/ (raised' /\ Misuse' /\ (block').kind # "reset")
    BY <1>3, <2>1, GroupStarts
  <2> QED BY <2>1, <2>2, <2>3
<1>4. CASE PlayTick
  <2>1. UNCHANGED <<block, plan, raised, log>> /\ ~raised
    BY <1>4 DEF PlayTick
  <2>2. Sequence(observed')
    <3>1. observed' = observed \/ \E e : observed' = [observed EXCEPT ![Len(observed)] = e]
      <4>1. observed' = observed
              \/ observed' = [observed EXCEPT ![Len(observed)] = Append(observed[Len(observed)], tdo')]
        BY <1>4 DEF PlayTick
      <4> QED BY <4>1
    <3> QED BY <3>1, StillSequence
  <2>3. block.kind # "test" => Playing'
    BY <1>4, <2>1, GroupTicks
  <2> QED BY <2>1, <2>2, <2>3
<1>5. CASE PlayTickRaises
  <2>1. /\ UNCHANGED <<block, plan, log, observed, state, instruction>> /\ ~raised /\ raised' = TRUE
        /\ Tap!NoActiveDr /\ Misuse'
    BY <1>5 DEF PlayTickRaises, tapVars, Misuse, Tap!NoActiveDr
  <2>2. block.kind # "test" => block.kind # "reset"
    <3>1. ~Resetting(TmsReset)
      BY <2>1, ResetNeverRaises
    <3> QED BY <2>1, <3>1, Kinds DEF Playing
  <2> QED BY <2>1, <2>2
<1>6. CASE UNCHANGED vars
  <2>1. UNCHANGED <<state, irShift, instruction, bypassBit, idcodeShift, tdo, shift, po, ops,
                    cycles, raised, log, observed, block, before, plan>>
    BY <1>6 DEF vars, tapVars
  <2>2. Misuse' = Misuse
    BY <2>1 DEF Misuse, Tap!NoActiveDr
  <2>3. Playing' <=> Playing
    BY <2>1 DEF Playing, Scanning, ScanEntering, ScanShifting, ScanLeaving, ScanHolds, ScanShows,
       ScanEnded, Same, Loading, LoadEntering, LoadShifting, LoadLeaving, LoadHolds, LoadShows,
       Untouched, Resting, Pinning, Resetting, Abandoning, Committed, Doing, Waiting
  <2> QED BY <2>1, <2>2, <2>3
<1> QED BY <1>1, <1>2, <1>3, <1>4, <1>5, <1>6 DEF Next

\* Whatever groups a program is made of, and whatever TAP and network it finds,
\* the group being played has got as far as the invariant says.
THEOREM ProgramCorrect == Spec => []ProgramInv
<1>1. Init => ProgramInv
  BY ProgramInit
<1>2. ProgramInv /\ [Next]_vars => ProgramInv'
  BY ProgramStep
<1> QED BY <1>1, <1>2, PTL DEF Spec

----------------------------------------------------------------------------
(* What it promises of each group.                                         *)

\* A scan played TCK by TCK is one capture, one shift per bit and one update of
\* the register its instruction selects (play; PdlOnNetwork takes it as a step).
THEOREM ScanAtomicity == Spec => []ScanIsAtomic
<1>1. ProgramInv => ScanIsAtomic
  <2> SUFFICES ASSUME ProgramInv, Idle, block.kind = "scan" PROVE ScanIsAtomic
    BY DEF ScanIsAtomic
  <2>1. PICK tdi \in Seq(Bits) \ {<< >>} : block = ScanBlock(tdi) /\ Scanning(tdi)
    <3>1. Playing
      BY DEF ProgramInv, Idle
    <3> QED BY <3>1, Kinds DEF Playing
  <2>2. ScanEnded(tdi) /\ ScanShows(tdi, Len(tdi))
    BY <2>1, ScanOver
  <2>3. block.ops[2].tdi = tdi
    <3>1. block.ops = DrScan(tdi)
      BY <2>1, Kinds
    <3>2. DrScan(tdi)[2] = ShiftBits(tdi)
      BY Programs
    <3> QED BY <3>1, <3>2 DEF ShiftBits
  <2>4. SubSeq(tdi, 1, Len(tdi)) = tdi
    BY SubSeqFull
  <2>5. SubSeq(Stream(before, tdi), 1, Len(tdi)) = BuiltInScan(before, tdi)
    BY DEF Stream, BuiltInScan
  <2>6. Last(observed) = IF before.instruction = Selected THEN NetworkScan(before, tdi).out
                                                          ELSE BuiltInScan(before, tdi)
    BY <2>2, <2>4, <2>5 DEF ScanShows
  <2> QED BY <2>2, <2>3, <2>6 DEF ScanIsAtomic, ScanEnded, Selected
<1> QED BY <1>1, ProgramCorrect, PTL

\* select_instruction loads the instruction of its opcode, shows the capture
\* pattern and moves nothing in the network.
THEOREM LoadSelection == Spec => []LoadSelects
<1>1. ProgramInv => LoadSelects
  <2> SUFFICES ASSUME ProgramInv, Idle, block.kind = "select" PROVE LoadSelects
    BY DEF LoadSelects
  <2>1. PICK opcode \in Tap!Register(IrWidth) :
          /\ block = LoadBlock(opcode)
          /\ Loading(LoadBits(opcode), select_instruction(opcode))
    <3>1. Playing
      BY DEF ProgramInv, Idle
    <3> QED BY <3>1, Kinds DEF Playing
  <2> DEFINE tdi == LoadBits(opcode)
  <2>2. LoadProgram(tdi, select_instruction(opcode))
    BY SelectLoads DEF LoadBits
  <2>3. /\ Untouched
        /\ instruction = Tap!decode_instruction([i \in 0 .. IrWidth - 1 |-> tdi[i + 1]])
        /\ Last(observed) = [i \in 1 .. IrWidth |-> Tap!CAPTURE_IR_PATTERN[i - 1]]
    BY <2>1, <2>2, LoadOver
  <2>4. block.ops[2].tdi = tdi
    <3>1. block.ops = select_instruction(opcode)
      BY <2>1, Kinds
    <3>2. select_instruction(opcode)[2] = ShiftBits(tdi)
      BY <2>2 DEF LoadProgram
    <3> QED BY <3>1, <3>2 DEF ShiftBits
  <2> HIDE DEF tdi
  <2> QED BY <2>3, <2>4 DEF LoadSelects, Untouched
<1> QED BY <1>1, ProgramCorrect, PTL

\* Whatever state a program finds the TAP in, a reset that settles ends in
\* Run-Test/Idle with the reset instruction, and never raises.
THEOREM NoLeadIn == Spec => []ResetNeedsNoLeadIn
<1>1. ProgramInv => ResetNeedsNoLeadIn
  <2> SUFFICES ASSUME ProgramInv, block.kind = "reset" PROVE ResetNeedsNoLeadIn
    BY DEF ResetNeedsNoLeadIn
  <2>1. ~raised /\ Resetting(TmsReset)
    BY Kinds DEF ProgramInv, Playing
  <2>2. Len(TmsReset) = 2
    BY Programs
  <2>3. Idle => state = "RUN_TEST_IDLE" /\ instruction = Tap!reset_instruction
    BY <2>1, <2>2, ResetsReset, ResetOver
  <2> QED BY <2>1, <2>3 DEF ResetNeedsNoLeadIn
<1> QED BY <1>1, ProgramCorrect, PTL

\* A TMS reset commits nothing of its own: only what a DR scan of the network
\* found under way had got to (_RESET_TMS, to_stil).
THEOREM ResetCommits == Spec => []ResetCommitsOnlyAScan
<1>1. ProgramInv => ResetCommitsOnlyAScan
  <2> SUFFICES ASSUME ProgramInv, Idle, block.kind = "reset" PROVE ResetCommitsOnlyAScan
    BY DEF ResetCommitsOnlyAScan
  <2>1. Resetting(TmsReset)
    BY Kinds DEF ProgramInv, Playing, Idle
  <2>2. po = Committed
    BY <2>1, ResetsReset, ResetOver
  <2> QED BY <2>2 DEF ResetCommitsOnlyAScan, Committed, Selected
<1> QED BY <1>1, ProgramCorrect, PTL

\* Outside a whole program, play raises only for an instruction with no register
\* or out of a reset left unsettled.
THEOREM RaisesOnMisuse == Spec => [](block.kind # "test" => RaisesOnlyOnMisuse)
<1>1. ProgramInv => (block.kind # "test" => RaisesOnlyOnMisuse)
  BY DEF ProgramInv, RaisesOnlyOnMisuse, Misuse
<1> QED BY <1>1, ProgramCorrect, PTL
----------------------------------------------------------------------------
(* The cycles of a program, and where a scan's bits are among them.        *)

TrackBase(from) == from
TrackStep(from, s, cycle) == Tap!next_state(s, cycle[1])
CyclesBase(p) == [state |-> "RUN_TEST_IDLE", sent |-> << >>]
CyclesStep(p, acc, op) ==
  LET sent == CyclesOf(op, acc.state) IN
  [state |-> Tracked(acc.state, sent), sent |-> acc.sent \o sent]
RangesBase(p) == [state |-> "RUN_TEST_IDLE", index |-> 0, ranges |-> << >>]
RangesStep(p, acc, op) ==
  LET sent == CyclesOf(op, acc.state) IN
  [state |-> Tracked(acc.state, sent), index |-> acc.index + Len(sent),
   ranges |-> IF op.kind = "shift" THEN Append(acc.ranges, <<acc.index, Len(op.tdi)>>)
                                   ELSE acc.ranges]

TrackFold == INSTANCE InductionLemmas WITH FoldBase <- TrackBase, FoldStep <- TrackStep
CyclesFold == INSTANCE InductionLemmas WITH FoldBase <- CyclesBase, FoldStep <- CyclesStep
RangesFold == INSTANCE InductionLemmas WITH FoldBase <- RangesBase, FoldStep <- RangesStep

\* What to_cycles and shift_op_ranges have got to after the operations.
Expected(operations) == CyclesFold!Fold(0, operations)
Ranged(operations) == RangesFold!Fold(0, operations)

\* One more cycle is one more edge.
LEMMA TrackedOn ==
  ASSUME NEW from
  PROVE  /\ Tracked(from, << >>) = from
         /\ \A sent \in Seq(Cycle), cycle \in Cycle :
              Tracked(from, Append(sent, cycle)) = Tap!next_state(Tracked(from, sent), cycle[1])
<1>1. \A t : Tracked(from, t) = TrackFold!Fold(from, t)
  BY DEF Tracked, TrackBase, TrackStep, TrackFold!Fold, FoldLeft, TrackFold!FoldLeft,
         MapThenFoldSet, TrackFold!MapThenFoldSet, Max, TrackFold!Max
<1>2. Tracked(from, << >>) = from
  BY <1>1, TrackFold!FoldEmpty DEF TrackBase
<1>3. ASSUME NEW sent \in Seq(Cycle), NEW cycle \in Cycle
      PROVE  Tracked(from, Append(sent, cycle)) = Tap!next_state(Tracked(from, sent), cycle[1])
  BY <1>1, TrackFold!FoldAppend DEF TrackStep
<1> QED BY <1>2, <1>3

\* One more operation is one more step of either.
LEMMA Followed ==
  ASSUME NEW operations, Sequence(operations), NEW op
  PROVE  /\ to_cycles(operations) = Expected(operations).sent
         /\ shift_op_ranges(operations) = Ranged(operations).ranges
         /\ Expected(<< >>) = CyclesBase(0) /\ Ranged(<< >>) = RangesBase(0)
         /\ Expected(Append(operations, op)) = CyclesStep(0, Expected(operations), op)
         /\ Ranged(Append(operations, op)) = RangesStep(0, Ranged(operations), op)
<1>1. PICK S : operations \in Seq(S)
  BY DEF Sequence
<1> DEFINE T == S \cup {op}
<1>2. operations \in Seq(T) /\ op \in T
  BY <1>1
<1> HIDE DEF T
<1>3. to_cycles(operations) = Expected(operations).sent
  BY DEF to_cycles, Expected, CyclesBase, CyclesStep, CyclesFold!Fold, FoldLeft,
         CyclesFold!FoldLeft, MapThenFoldSet, CyclesFold!MapThenFoldSet, Max, CyclesFold!Max
<1>4. shift_op_ranges(operations) = Ranged(operations).ranges
  BY DEF shift_op_ranges, Ranged, RangesBase, RangesStep, RangesFold!Fold, FoldLeft,
         RangesFold!FoldLeft, MapThenFoldSet, RangesFold!MapThenFoldSet, Max, RangesFold!Max
<1>5. Expected(<< >>) = CyclesBase(0) /\ Ranged(<< >>) = RangesBase(0)
  BY CyclesFold!FoldEmpty, RangesFold!FoldEmpty DEF Expected, Ranged
<1>6. Expected(Append(operations, op)) = CyclesStep(0, Expected(operations), op)
  BY <1>2, CyclesFold!FoldAppend DEF Expected
<1>7. Ranged(Append(operations, op)) = RangesStep(0, Ranged(operations), op)
  BY <1>2, RangesFold!FoldAppend DEF Ranged
<1> QED BY <1>3, <1>4, <1>5, <1>6, <1>7

\* Five cycles with TMS = 1 track to Test-Logic-Reset from anywhere.
LEMMA FiveOnesTrack ==
  ASSUME NEW from \in Tap!TapState
  PROVE  Tracked(from, Walk(<<1, 1, 1, 1, 1>>)) = "TEST_LOGIC_RESET"
<1> DEFINE walk == Walk(<<1, 1, 1, 1, 1>>)  At(j) == Tracked(from, SubSeq(walk, 1, j))
<1>1. walk \in Seq(Cycle) /\ Len(walk) = 5 /\ \A i \in 1 .. 5 : walk[i] = <<1, 0>>
  BY Walks
<1> HIDE DEF walk
<1>2. At(0) = from
  <2>1. SubSeq(walk, 1, 0) = << >>
    BY SubSeqEmpty
  <2> QED BY <2>1, TrackedOn
<1>3. ASSUME NEW j \in 0 .. 4 PROVE At(j + 1) = Tap!next_state(At(j), 1)
  <2>1. j \in Nat /\ j < Len(walk) /\ j + 1 \in 1 .. 5
    BY <1>1
  <2>2. /\ SubSeq(walk, 1, j) \in Seq(Cycle) /\ walk[j + 1] \in Cycle
        /\ SubSeq(walk, 1, j + 1) = Append(SubSeq(walk, 1, j), walk[j + 1])
    BY <1>1, <2>1, OneLonger
  <2>3. Tracked(from, Append(SubSeq(walk, 1, j), walk[j + 1])) = Tap!next_state(At(j), walk[j + 1][1])
    BY <2>2, TrackedOn
  <2>4. walk[j + 1][1] = 1
    BY <1>1, <2>1
  <2> QED BY <2>2, <2>3, <2>4
<1>4. \A s \in Tap!TapState : Tap!next_state(s, 1) \in Tap!TapState
  BY DEF Tap!TapState, Tap!next_state, Tap!TRANSITIONS
<1>5. \A s \in Tap!TapState, n \in 1 .. 5 :
        OnesToReset(s) <= n => OnesToReset(Tap!next_state(s, 1)) <= n - 1
  <2> TAKE s \in Tap!TapState, n \in 1 .. 5
  <2>1. OnesToReset(Tap!next_state(s, 1)) < OnesToReset(s)
          \/ Tap!next_state(s, 1) = "TEST_LOGIC_RESET"
    BY DEF Tap!TapState, Tap!next_state, Tap!TRANSITIONS, OnesToReset
  <2>2. /\ OnesToReset(s) \in Nat /\ OnesToReset(Tap!next_state(s, 1)) \in Nat
        /\ OnesToReset("TEST_LOGIC_RESET") = 0
    BY DEF OnesToReset
  <2> QED BY <2>1, <2>2
<1>6. At(1) = Tap!next_state(At(0), 1) /\ At(2) = Tap!next_state(At(1), 1)
      /\ At(3) = Tap!next_state(At(2), 1) /\ At(4) = Tap!next_state(At(3), 1)
      /\ At(5) = Tap!next_state(At(4), 1)
  <2>1. At(0 + 1) = Tap!next_state(At(0), 1) /\ At(1 + 1) = Tap!next_state(At(1), 1)
        /\ At(2 + 1) = Tap!next_state(At(2), 1) /\ At(3 + 1) = Tap!next_state(At(3), 1)
        /\ At(4 + 1) = Tap!next_state(At(4), 1)
    <3> HIDE DEF At
    <3> QED BY <1>3
  <2>2. 0 + 1 = 1 /\ 1 + 1 = 2 /\ 2 + 1 = 3 /\ 3 + 1 = 4 /\ 4 + 1 = 5
    OBVIOUS
  <2> HIDE DEF At
  <2> QED BY <2>1, <2>2
<1> HIDE DEF At
<1>7. OnesToReset(from) <= 5
  BY DEF OnesToReset
<1>8. At(1) \in Tap!TapState /\ OnesToReset(At(1)) <= 4
  BY <1>2, <1>4, <1>5, <1>6, <1>7
<1>9. At(2) \in Tap!TapState /\ OnesToReset(At(2)) <= 3
  BY <1>4, <1>5, <1>6, <1>8
<1>10. At(3) \in Tap!TapState /\ OnesToReset(At(3)) <= 2
  BY <1>4, <1>5, <1>6, <1>9
<1>11. At(4) \in Tap!TapState /\ OnesToReset(At(4)) <= 1
  BY <1>4, <1>5, <1>6, <1>10
<1>12. At(5) \in Tap!TapState /\ OnesToReset(At(5)) <= 0
  BY <1>4, <1>5, <1>6, <1>11
<1>13. At(5) = "TEST_LOGIC_RESET"
  BY <1>12 DEF OnesToReset, Tap!TapState
<1>14. SubSeq(walk, 1, 5) = walk
  BY <1>1, SubSeqFull
<1> QED BY <1>13, <1>14 DEF At, walk

\* A trace grows at its end.
LEMMA TraceGrows ==
  ASSUME NEW t, Sequence(t), NEW e
  PROVE  /\ Len(t) \in Nat /\ Sequence(Append(t, e)) /\ Len(Append(t, e)) = Len(t) + 1
         /\ \A a \in Nat \ {0}, b \in Nat :
              b <= Len(t) => SubSeq(Append(t, e), a, b) = SubSeq(t, a, b)
         /\ \A a \in 1 .. Len(t) + 1 :
              SubSeq(Append(t, e), a, Len(t) + 1) = Append(SubSeq(t, a, Len(t)), e)
<1>1. PICK S : t \in Seq(S)
  BY DEF Sequence
<1> DEFINE T == S \cup {e}
<1>2. t \in Seq(T) /\ e \in T
  BY <1>1
<1> HIDE DEF T
<1>3. /\ Append(t, e) \in Seq(T) /\ Len(t) \in Nat /\ Len(Append(t, e)) = Len(t) + 1
      /\ Append(t, e)[Len(t) + 1] = e /\ Append(t, e) = t \o << e >> /\ << e >> \in Seq(T)
  BY <1>2, AppendIsConcat
<1>4. ASSUME NEW a \in Nat \ {0}, NEW b \in Nat, b <= Len(t)
      PROVE  SubSeq(Append(t, e), a, b) = SubSeq(t, a, b)
  <2>1. CASE b < a
    BY <2>1, SubSeqEmpty
  <2>2. CASE a <= b
    <3>1. a \in 1 .. Len(t) /\ b \in 1 .. Len(t)
      BY <1>3, <1>4, <2>2
    <3>2. SubSeq(t \o << e >>, a, b) = SubSeq(t, a, b)
      BY <1>2, <1>3, <3>1, SubSeqOfConcat1
    <3> QED BY <1>3, <3>2
  <2>3. b < a \/ a <= b
    OBVIOUS
  <2> QED BY <2>1, <2>2, <2>3, Zenon
<1>5. ASSUME NEW a \in 1 .. Len(t) + 1
      PROVE  SubSeq(Append(t, e), a, Len(t) + 1) = Append(SubSeq(t, a, Len(t)), e)
  <2>1. /\ a \in 1 .. Len(Append(t, e)) /\ Len(t) + 1 \in a .. Len(Append(t, e))
        /\ (Len(t) + 1) - 1 = Len(t) /\ a \in Nat \ {0}
    BY <1>3
  <2>2. SubSeq(Append(t, e), a, Len(t) + 1) = SubSeq(Append(t, e), a, Len(t)) \o << e >>
    BY <1>3, <2>1, SubSeqRecursiveSecond
  <2>3. SubSeq(Append(t, e), a, Len(t)) = SubSeq(t, a, Len(t))
    BY <1>3, <1>4, <2>1
  <2>4. SubSeq(t, a, Len(t)) \in Seq(T)
    <3>1. \A i \in a .. Len(t) : t[i] \in T
      BY <1>2, <2>1
    <3> QED BY <1>3, <2>1, <3>1, SubSeqProperties
  <2> QED BY <1>2, <2>2, <2>3, <2>4, AppendIsConcat
<1> QED BY <1>3, <1>4, <1>5 DEF Sequence

\* No operation that sends nothing of its own, and no raw cycles.
Plain(operations) ==
  \A n \in DOMAIN operations : operations[n].kind \notin {"pins", "pulse", "raw"}

\* An operation whose cycles are typed wherever it starts.
Typed(op) ==
  op.kind \notin {"pins", "pulse", "raw"} =>
    /\ op.kind \in {"goto", "shift", "runtest"}
    /\ \A s : CyclesOf(op, s) \in Seq(Cycle)
    /\ op.kind = "shift" => \A s : Len(CyclesOf(op, s)) = Len(op.tdi)
OpsTyped == \E T : ops \in Seq(T) /\ \A op \in T : Typed(op)

\* The cycles sent so far.
Sent == [n \in DOMAIN applied |-> <<applied[n].tms, applied[n].tdi>>]

LastShifts == log # << >> /\ log[Len(log)].kind = "shift"

\* The last operation sends the cycles whole, started in the state from after
\* the cycles sent0, and done of them are sent; where the bits of the scans
\* started are, the last one's not all there yet.
Located(sent0, whole, done) ==
  LET ranges == Ranged(log).ranges IN
  /\ ranges \in Seq(Nat \X Nat) /\ Len(ranges) = Len(observed)
  /\ LastShifts => observed # << >>
  /\ \A n \in 1 .. Len(observed) :
       IF LastShifts /\ n = Len(observed)
       THEN /\ ranges[n] = <<Len(sent0), Len(whole)>>
            /\ observed[n] = SubSeq(trace, Len(sent0) + 1, Len(sent0) + done)
       ELSE /\ ranges[n][1] + ranges[n][2] <= Len(sent0)
            /\ observed[n] = SubSeq(trace, ranges[n][1] + 1, ranges[n][1] + ranges[n][2])

\* The program leads in with a reset, whose first cycles are the same from
\* everywhere.
LeadingIn ==
  log = << >> /\ ops = TmsReset /\ cycles = << >> /\ state \in Tap!TapState

Correlates(from, sent0, whole, done) ==
  /\ Sequence(applied)
  /\ whole \in Seq(Cycle) /\ sent0 \in Seq(Cycle) /\ Rest(cycles, whole, done)
  /\ log = << >> => whole = << >>
  /\ Expected(log).sent = sent0 \o whole
  /\ Sent = sent0 \o SubSeq(whole, 1, done)
  /\ Len(trace) = Len(sent0) + done
  /\ Ranged(log).state = Expected(log).state
  /\ Ranged(log).index = Len(sent0) + Len(whole)
  /\ \/ /\ state = Tracked(from, SubSeq(whole, 1, done))
        /\ Expected(log).state = Tracked(from, whole)
     \/ LeadingIn
  /\ Located(sent0, whole, done)

TraceInv ==
  /\ Sequence(log) /\ Sequence(trace) /\ Sequence(observed)
  /\ plan \in Seq(Tests) /\ OpsTyped
  /\ Plain(log) => \E from, sent0, whole, done : Correlates(from, sent0, whole, done)

\* A walk is a sequence of cycles wherever it starts and ends.
LEMMA NavigationTyped ==
  ASSUME NEW s, NEW target
  PROVE  Walk(navigation_tms(s, target)) \in Seq(Cycle)
<1>1. navigation_tms(s, target) \in {<<1, 1, 1, 1, 1>>, <<1, 0, 0>>, <<1, 1, 0, 0>>, << 0 >>,
                                     <<1, 0>>, << >>}
  BY DEF navigation_tms
<1>2. Walk(<< >>) \in Seq(Cycle)
  BY DEF Walk
<1> QED BY <1>1, <1>2, Walks

\* Every operation of a group is typed.
LEMMA GroupsTyped ==
  /\ \A target : Typed(Goto(target))
  /\ \A tdi \in Seq(Bits) : Typed(ShiftBits(tdi))
  /\ Typed(Runtest(4))
  /\ \A op \in PinOps : Typed(op)
<1>1. \A s, target : CyclesOf(Goto(target), s) = Walk(navigation_tms(s, target))
  BY DEF CyclesOf, Goto, Walk
<1>2. \A target : Typed(Goto(target))
  <2>1. \A target : Goto(target).kind = "goto"
    BY DEF Goto
  <2> QED BY <1>1, <2>1, NavigationTyped DEF Typed
<1>3. ASSUME NEW tdi \in Seq(Bits) PROVE Typed(ShiftBits(tdi))
  <2>1. ShiftBits(tdi).kind = "shift" /\ ShiftBits(tdi).tdi = tdi
    BY DEF ShiftBits
  <2>2. /\ \A s : CyclesOf(ShiftBits(tdi), s) = ShiftCycles(tdi)
        /\ ShiftCycles(tdi) \in Seq(Cycle) /\ Len(ShiftCycles(tdi)) = Len(tdi)
    BY OperationCycles, ShiftWalk
  <2> QED BY <2>1, <2>2 DEF Typed
<1>4. Typed(Runtest(4))
  <2>1. Runtest(4).kind = "runtest"
    BY DEF Runtest
  <2> QED BY <2>1, OperationCycles, Walks DEF Typed
<1>5. \A op \in PinOps : Typed(op)
  BY PlayAssumption DEF Typed
<1> QED BY <1>2, <1>3, <1>4, <1>5

\* Every operation of a whole program is typed.
LEMMA TestsTyped ==
  ASSUME NEW test \in Tests
  PROVE  /\ test.kind = "test" /\ test.ops \in Seq(ToSet(test.ops))
         /\ \A op \in ToSet(test.ops) : Typed(op)
<1>1. /\ test.kind = "test" /\ test.ops \in Seq(ToSet(test.ops))
      /\ \A op \in ToSet(test.ops) :
           /\ op.kind \in {"goto", "shift", "raw", "pins", "pulse", "runtest"}
           /\ op.kind \in {"shift", "runtest"} => op.tdi \in Seq(Bits)
  BY PlayAssumption
<1>2. ASSUME NEW op \in ToSet(test.ops) PROVE Typed(op)
  <2>1. CASE op.kind = "goto"
    <3>1. \A s : CyclesOf(op, s) = Walk(navigation_tms(s, op.state))
      BY <2>1 DEF CyclesOf, Walk
    <3> QED BY <2>1, <3>1, NavigationTyped DEF Typed
  <2>2. CASE op.kind = "shift"
    <3>1. \A s : CyclesOf(op, s) = ShiftCycles(op.tdi)
      BY <2>2 DEF CyclesOf, ShiftCycles
    <3>2. op.tdi \in Seq(Bits)
      BY <1>1, <2>2
    <3>3. ShiftCycles(op.tdi) \in Seq(Cycle) /\ Len(ShiftCycles(op.tdi)) = Len(op.tdi)
      BY <3>2, ShiftWalk
    <3> QED BY <2>2, <3>1, <3>3 DEF Typed
  <2>3. CASE op.kind = "runtest"
    <3>1. \A s : CyclesOf(op, s) = [i \in DOMAIN op.tdi |-> <<0, 0>>]
      BY <2>3 DEF CyclesOf
    <3>2. op.tdi \in Seq(Bits) /\ Len(op.tdi) \in Nat /\ DOMAIN op.tdi = 1 .. Len(op.tdi)
      BY <1>1, <2>3
    <3>3. [i \in DOMAIN op.tdi |-> <<0, 0>>] \in [1 .. Len(op.tdi) -> Cycle]
      BY <3>2 DEF Cycle, Bits
    <3>4. [i \in DOMAIN op.tdi |-> <<0, 0>>] \in Seq(Cycle)
      BY <3>2, <3>3, FunctionIsSeq
    <3> QED BY <2>3, <3>1, <3>4 DEF Typed
  <2>4. CASE op.kind \in {"raw", "pins", "pulse"}
    BY <2>4 DEF Typed
  <2> QED BY <1>1, <2>1, <2>2, <2>3, <2>4
<1> QED BY <1>1, <1>2

\* A program sends nothing before its first operation.
LEMMA TraceInit == Init => TraceInv
<1> SUFFICES ASSUME Init PROVE TraceInv
  OBVIOUS
<1>1. /\ log = << >> /\ applied = << >> /\ trace = << >> /\ observed = << >> /\ cycles = << >>
  BY DEF Init
<1>2. \A x : x = << >> => Sequence(x)
  BY DEF Sequence
<1>3. plan \in Seq(Tests)
  <2>1. plan \in {<< >>} \cup Plans
    BY DEF Init
  <2>2. Plans \subseteq Seq(Tests)
    BY PlayAssumption
  <2>3. << >> \in Seq(Tests)
    OBVIOUS
  <2> QED BY <2>1, <2>2, <2>3
<1>4. OpsTyped
  <2>1. CASE ops = << >>
    <3>1. ops \in Seq({})
      BY <2>1
    <3> QED BY <3>1 DEF OpsTyped
  <2>2. CASE ops = TmsReset
    <3>1. ops \in Seq({Goto("TEST_LOGIC_RESET"), Goto("RUN_TEST_IDLE")})
      BY <2>2, ResetsReset DEF ResetProgram
    <3> QED BY <3>1, GroupsTyped DEF OpsTyped
  <2> QED BY <2>1, <2>2 DEF Init
<1>5. Correlates("RUN_TEST_IDLE", << >>, << >>, 0)
  <2>1. << >> \in Seq(Cycle) /\ Len(<< >>) = 0 /\ << >> \o << >> = << >>
    OBVIOUS
  <2>2. SubSeq(<< >>, 1, 0) = << >>
    BY SubSeqEmpty
  <2>3. Rest(cycles, << >>, 0)
    BY <1>1, <2>1, RestEnds
  <2>4. /\ Expected(log).sent = << >> /\ Ranged(log).ranges = << >> /\ Ranged(log).index = 0
        /\ Ranged(log).state = "RUN_TEST_IDLE" /\ Expected(log).state = "RUN_TEST_IDLE"
    <3>1. Expected(log) = CyclesBase(0) /\ Ranged(log) = RangesBase(0)
      BY <1>1, <1>2, Followed
    <3> QED BY <3>1 DEF CyclesBase, RangesBase
  <2>5. Sent = << >>
    BY <1>1 DEF Sent
  <2>6. Located(<< >>, << >>, 0)
    <3>1. << >> \in Seq(Nat \X Nat) /\ ~LastShifts
      BY <1>1 DEF LastShifts
    <3>2. Len(observed) = 0 /\ Ranged(log).ranges = << >> /\ \A n \in 1 .. Len(observed) : FALSE
      BY <1>1, <2>1, <2>4
    <3>3. Len(Ranged(log).ranges) = Len(observed)
      BY <1>1, <3>2
    <3> QED BY <3>1, <3>2, <3>3 DEF Located
  <2>7. Tracked("RUN_TEST_IDLE", << >>) = "RUN_TEST_IDLE"
    BY TrackedOn
  <2>8. state = "RUN_TEST_IDLE" \/ LeadingIn
    BY <1>1 DEF Init, LeadingIn
  <2>9. /\ Len(trace) = Len(<< >>) + 0 /\ Ranged(log).index = Len(<< >>) + Len(<< >>)
        /\ Sent = << >> \o SubSeq(<< >>, 1, 0) /\ Expected(log).sent = << >> \o << >>
        /\ Ranged(log).state = Expected(log).state
    BY <1>1, <2>1, <2>2, <2>4, <2>5
  <2>10. \/ /\ state = Tracked("RUN_TEST_IDLE", SubSeq(<< >>, 1, 0))
            /\ Expected(log).state = Tracked("RUN_TEST_IDLE", << >>)
         \/ LeadingIn
    BY <2>2, <2>4, <2>7, <2>8
  <2>11. Sequence(applied)
    BY <1>1, <1>2
  <2> QED BY <2>1, <2>3, <2>6, <2>9, <2>10, <2>11, <1>1 DEF Correlates
<1> QED BY <1>1, <1>2, <1>3, <1>4, <1>5 DEF TraceInv

\* Starting an operation puts its place after those of the operations before.
LEMMA LocatedStarts ==
  ASSUME NEW op, log' = Append(log, op), trace' = trace, Sequence(log), Sequence(observed),
         Sequence(trace),
         observed' = IF op.kind = "shift" THEN Append(observed, << >>) ELSE observed,
         NEW sent0 \in Seq(Cycle), NEW whole \in Seq(Cycle), NEW sent \in Seq(Cycle),
         op.kind = "shift" => Len(sent) = Len(op.tdi),
         Ranged(log').ranges = IF op.kind = "shift"
                                 THEN Append(Ranged(log).ranges, <<Ranged(log).index, Len(op.tdi)>>)
                                 ELSE Ranged(log).ranges,
         Ranged(log).index = Len(sent0) + Len(whole), Located(sent0, whole, Len(whole))
  PROVE  Located(sent0 \o whole, sent, 0)'
<1> DEFINE ranges == Ranged(log).ranges  total == Len(sent0 \o whole)
<1>1. /\ Len(sent0) \in Nat /\ Len(whole) \in Nat /\ Len(sent) \in Nat
      /\ total = Len(sent0) + Len(whole) /\ total \in Nat
  BY ConcatProperties
<1>2. PICK S : observed \in Seq(S)
  BY DEF Sequence
<1> DEFINE T == S \cup {<< >>}
<1>3. observed \in Seq(T) /\ << >> \in T /\ Len(observed) \in Nat
  BY <1>2
<1> HIDE DEF T, total
<1>4. log' # << >> /\ log'[Len(log')] = op
  BY StillSequence
<1>5. LastShifts' <=> op.kind = "shift"
  BY <1>4 DEF LastShifts
<1>6. ranges \in Seq(Nat \X Nat) /\ Len(ranges) = Len(observed)
  BY DEF Located
<1>7. ASSUME NEW n \in 1 .. Len(observed)
      PROVE  /\ ranges[n][1] + ranges[n][2] <= total
             /\ observed[n] = SubSeq(trace, ranges[n][1] + 1, ranges[n][1] + ranges[n][2])
  <2>0. ranges[n] \in Nat \X Nat
    BY <1>6
  <2>1. CASE LastShifts /\ n = Len(observed)
    <3>1. /\ ranges[n] = <<Len(sent0), Len(whole)>>
          /\ observed[n] = SubSeq(trace, Len(sent0) + 1, Len(sent0) + Len(whole))
      BY <2>1 DEF Located
    <3> QED BY <1>1, <3>1
  <2>2. CASE ~(LastShifts /\ n = Len(observed))
    <3>1. /\ ranges[n][1] + ranges[n][2] <= Len(sent0)
          /\ observed[n] = SubSeq(trace, ranges[n][1] + 1, ranges[n][1] + ranges[n][2])
      BY <2>2 DEF Located
    <3> QED BY <1>1, <2>0, <3>1
  <2> QED BY <2>1, <2>2
<1>8. CASE op.kind = "shift"
  <2>1. /\ Ranged(log').ranges = Append(ranges, <<total, Len(sent)>>)
        /\ observed' = Append(observed, << >>) /\ <<total, Len(sent)>> \in Nat \X Nat
    BY <1>1, <1>8
  <2> DEFINE pair == <<total, Len(sent)>>
  <2> HIDE DEF ranges, pair
  <2>2. /\ Ranged(log').ranges \in Seq(Nat \X Nat)
        /\ Len(Ranged(log').ranges) = Len(observed) + 1
        /\ \A n \in 1 .. Len(observed) : Ranged(log').ranges[n] = ranges[n]
        /\ Ranged(log').ranges[Len(observed) + 1] = <<total, Len(sent)>>
    <3>1. pair \in Nat \X Nat /\ Ranged(log').ranges = Append(ranges, pair)
      BY <2>1 DEF pair
    <3>2. /\ Append(ranges, pair) \in Seq(Nat \X Nat)
          /\ Len(Append(ranges, pair)) = Len(ranges) + 1
          /\ \A n \in 1 .. Len(ranges) : Append(ranges, pair)[n] = ranges[n]
          /\ Append(ranges, pair)[Len(ranges) + 1] = pair
      BY <1>6, <3>1, AppendProperties
    <3> QED BY <1>6, <3>1, <3>2, Zenon DEF pair
  <2>3. /\ Len(observed') = Len(observed) + 1 /\ observed' # << >>
        /\ \A n \in 1 .. Len(observed) : observed'[n] = observed[n]
        /\ observed'[Len(observed) + 1] = << >>
    <3> DEFINE none == << >>
    <3>1. none \in T /\ observed' = Append(observed, none)
      BY <1>3, <2>1
    <3> HIDE DEF none
    <3>2. /\ Len(Append(observed, none)) = Len(observed) + 1 /\ Append(observed, none) # << >>
          /\ \A n \in 1 .. Len(observed) : Append(observed, none)[n] = observed[n]
          /\ Append(observed, none)[Len(observed) + 1] = none
      BY <1>3, <3>1, AppendProperties
    <3>3. /\ Len(observed') = Len(observed) + 1 /\ observed' # << >>
          /\ \A n \in 1 .. Len(observed) : observed'[n] = observed[n]
          /\ observed'[Len(observed) + 1] = none
      BY <3>1, <3>2
    <3> QED BY <3>3 DEF none
  <2>4. SubSeq(trace', total + 1, total + 0) = << >>
    BY <1>1, SubSeqEmpty
  <2>5. ASSUME NEW n \in 1 .. Len(observed')
        PROVE  IF LastShifts' /\ n = Len(observed')
               THEN /\ Ranged(log').ranges[n] = <<total, Len(sent)>>
                    /\ observed'[n] = SubSeq(trace', total + 1, total + 0)
               ELSE /\ Ranged(log').ranges[n][1] + Ranged(log').ranges[n][2] <= total
                    /\ observed'[n] = SubSeq(trace', Ranged(log').ranges[n][1] + 1,
                                      Ranged(log').ranges[n][1] + Ranged(log').ranges[n][2])
    <3>1. CASE n = Len(observed')
      BY <1>5, <1>8, <2>2, <2>3, <2>4, <3>1
    <3>2. CASE n # Len(observed')
      <4>1. n \in 1 .. Len(observed)
        BY <1>3, <2>3, <3>2
      <4>2. Ranged(log').ranges[n] = ranges[n] /\ observed'[n] = observed[n]
        BY <2>2, <2>3, <4>1
      <4>3. /\ ranges[n][1] + ranges[n][2] <= total
            /\ observed[n] = SubSeq(trace, ranges[n][1] + 1, ranges[n][1] + ranges[n][2])
        BY <1>7, <4>1
      <4> QED BY <3>2, <4>2, <4>3
    <3> QED BY <3>1, <3>2
  <2> QED BY <2>2, <2>3, <2>5 DEF Located, total
<1>9. CASE op.kind # "shift"
  <2>1. Ranged(log').ranges = ranges /\ observed' = observed /\ ~LastShifts'
    BY <1>5, <1>9
  <2> HIDE DEF ranges
  <2>2. ASSUME NEW n \in 1 .. Len(observed')
        PROVE  /\ Ranged(log').ranges[n][1] + Ranged(log').ranges[n][2] <= total
               /\ observed'[n] = SubSeq(trace', Ranged(log').ranges[n][1] + 1,
                                 Ranged(log').ranges[n][1] + Ranged(log').ranges[n][2])
    BY <1>7, <2>1
  <2> QED BY <1>6, <2>1, <2>2 DEF Located, total
<1> QED BY <1>8, <1>9

\* Starting an operation keeps the cycles sent and the trace where to_cycles and
\* shift_op_ranges have them.
LEMMA TraceStarts ==
  ASSUME TraceInv, StartOp, ~raised', Plain(log'),
         NEW from, NEW sent0, NEW whole, NEW done, Correlates(from, sent0, whole, done),
         NEW op, NEW here, NEW sends, op = Head(ops), here = state, sends = CyclesOf(op, here)
  PROVE  Correlates(here, sent0 \o whole, sends, 0)'
<1> DEFINE sent1 == sent0 \o whole
<1>1. /\ Sequence(log) /\ Sequence(observed) /\ Sequence(trace)
      /\ \E T : ops \in Seq(T) /\ \A o \in T : Typed(o)
  BY DEF TraceInv, OpsTyped
<1>2. /\ cycles = << >> /\ ops # << >> /\ log' = Append(log, op) /\ cycles' = sends
      /\ observed' = (IF op.kind = "shift" THEN Append(observed, << >>) ELSE observed)
      /\ applied' = (IF op.kind = "pulse" THEN applied \o Pulses(op) ELSE applied)
      /\ trace' = trace /\ state' = state
  BY DEF StartOp, tapVars
<1>3. Typed(op)
  BY <1>1, <1>2
<1>4. op.kind \notin {"pins", "pulse", "raw"}
  <2>1. PICK S : log \in Seq(S)
    BY <1>1 DEF Sequence
  <2> DEFINE T == S \cup {op}
  <2>2. log \in Seq(T) /\ op \in T
    BY <2>1
  <2> HIDE DEF T
  <2>3. Append(log, op)[Len(log) + 1] = op /\ Len(log) + 1 \in DOMAIN Append(log, op)
    BY <2>2
  <2> QED BY <1>2, <2>3 DEF Plain
<1>5. /\ \A s : CyclesOf(op, s) \in Seq(Cycle)
      /\ op.kind = "shift" => Len(sends) = Len(op.tdi)
  BY <1>3, <1>4 DEF Typed
<1>6. /\ Sequence(applied)
      /\ whole \in Seq(Cycle) /\ sent0 \in Seq(Cycle) /\ Rest(cycles, whole, done)
      /\ Expected(log).sent = sent0 \o whole
      /\ Sent = sent0 \o SubSeq(whole, 1, done) /\ Len(trace) = Len(sent0) + done
      /\ Ranged(log).state = Expected(log).state
      /\ Ranged(log).index = Len(sent0) + Len(whole)
      /\ \/ /\ state = Tracked(from, SubSeq(whole, 1, done))
            /\ Expected(log).state = Tracked(from, whole)
         \/ LeadingIn
      /\ Located(sent0, whole, done)
  BY DEF Correlates
<1>7. done = Len(whole) /\ SubSeq(whole, 1, done) = whole /\ Len(whole) \in Nat
  <2>1. done = Len(whole)
    BY <1>2, <1>6, RestEnds
  <2> QED BY <1>6, <2>1, SubSeqFull
<1>8. /\ CyclesOf(op, Expected(log).state) = sends
      /\ Tracked(Expected(log).state, sends) = Tracked(here, sends)
  <2>1. CASE Expected(log).state = state
    BY <2>1
  <2>2. CASE LeadingIn
    <3>1. op = Goto("TEST_LOGIC_RESET")
      BY <2>2, Programs DEF LeadingIn
    <3>2. \A s : CyclesOf(op, s) = Walk(<<1, 1, 1, 1, 1>>)
      BY <3>1, OperationCycles
    <3>3. Expected(log).state = "RUN_TEST_IDLE"
      <4>1. Expected(log) = CyclesBase(0)
        BY <1>1, <2>2, Followed DEF LeadingIn
      <4> QED BY <4>1 DEF CyclesBase
    <3>4. Expected(log).state \in Tap!TapState /\ state \in Tap!TapState
      BY <2>2, <3>3 DEF Tap!TapState, LeadingIn
    <3> QED BY <3>2, <3>4, FiveOnesTrack
  <2> QED BY <1>6, <1>7, <2>1, <2>2
<1>9. /\ Expected(log').sent = Expected(log).sent \o sends
      /\ Expected(log').state = Tracked(here, sends)
  <2>1. Expected(log') = CyclesStep(0, Expected(log), op)
    BY <1>1, <1>2, Followed
  <2>2. \A acc, o : /\ CyclesStep(0, acc, o).sent = acc.sent \o CyclesOf(o, acc.state)
                    /\ CyclesStep(0, acc, o).state = Tracked(acc.state, CyclesOf(o, acc.state))
    BY DEF CyclesStep
  <2> QED BY <1>8, <2>1, <2>2, Zenon
<1>10. /\ Ranged(log').state = Tracked(here, sends)
       /\ Ranged(log').index = Ranged(log).index + Len(sends)
       /\ Ranged(log').ranges = (IF op.kind = "shift"
                                   THEN Append(Ranged(log).ranges, <<Ranged(log).index, Len(op.tdi)>>)
                                   ELSE Ranged(log).ranges)
  <2>1. Ranged(log') = RangesStep(0, Ranged(log), op)
    BY <1>1, <1>2, Followed
  <2>2. \A acc, o :
          /\ RangesStep(0, acc, o).state = Tracked(acc.state, CyclesOf(o, acc.state))
          /\ RangesStep(0, acc, o).index = acc.index + Len(CyclesOf(o, acc.state))
          /\ RangesStep(0, acc, o).ranges = (IF o.kind = "shift"
                                              THEN Append(acc.ranges, <<acc.index, Len(o.tdi)>>)
                                              ELSE acc.ranges)
    BY DEF RangesStep
  <2> QED BY <1>6, <1>8, <2>1, <2>2, Zenon
<1>11. sends \in Seq(Cycle) /\ Len(sends) \in Nat
  BY <1>5
<1>12. sent1 \in Seq(Cycle) /\ Len(sent1) = Len(sent0) + Len(whole) /\ sent1 \o << >> = sent1
       /\ SubSeq(sends, 1, 0) = << >> /\ Len(sent0) \in Nat
  BY <1>6, ConcatProperties, ConcatEmptySeq, SubSeqEmpty
<1>13. Located(sent1, sends, 0)'
  BY <1>1, <1>2, <1>5, <1>6, <1>7, <1>10, <1>11, LocatedStarts
<1>14. Rest(cycles', sends, 0)
  BY <1>2, <1>11, RestEnds
<1>15. log' # << >>
  BY <1>1, <1>2, StillSequence
<1>16. Sent' = sent1 \o SubSeq(sends, 1, 0) /\ Sequence(applied')
  <2>1. applied' = applied
    BY <1>2, <1>4
  <2>2. Sent' = Sent
    BY <2>1 DEF Sent
  <2> QED BY <1>6, <1>7, <1>12, <2>1, <2>2
<1>17. Len(trace') = Len(sent1) + 0 /\ Ranged(log').index = Len(sent1) + Len(sends)
  BY <1>2, <1>6, <1>7, <1>10, <1>12
<1>18. state' = Tracked(here, SubSeq(sends, 1, 0)) /\ Expected(log').state = Tracked(here, sends)
  BY <1>2, <1>9, <1>12, TrackedOn
<1> HIDE DEF sent1
<1>19. Expected(log').sent = sent1 \o sends /\ Ranged(log').state = Expected(log').state
  BY <1>6, <1>9, <1>10 DEF sent1
<1>20. Correlates(here, sent1, sends, 0)'
  BY <1>11, <1>12, <1>13, <1>14, <1>15, <1>16, <1>17, <1>18, <1>19 DEF Correlates
<1> QED BY <1>20 DEF sent1

\* A cycle sent adds its bit of TDO to the trace and to the scan it is of.
LEMMA LocatedTicks ==
  ASSUME Sequence(observed), Sequence(trace), log' = log, log # << >>, NEW e,
         trace' = Append(trace, e),
         observed' = IF LastShifts THEN [observed EXCEPT ![Len(observed)] = Append(@, e)]
                                   ELSE observed,
         NEW sent0 \in Seq(Cycle), NEW whole \in Seq(Cycle), NEW done \in Nat,
         Len(trace) = Len(sent0) + done, Located(sent0, whole, done)
  PROVE  Located(sent0, whole, done + 1)'
<1> DEFINE ranges == Ranged(log).ranges  base == Len(sent0)
<1>1. PICK S : observed \in Seq(S)
  BY DEF Sequence
<1>2. Len(observed) \in Nat /\ base \in Nat /\ Len(trace) \in Nat
  BY <1>1, TraceGrows
<1>3. /\ ranges \in Seq(Nat \X Nat) /\ Len(ranges) = Len(observed)
      /\ LastShifts => observed # << >>
      /\ \A n \in 1 .. Len(observed) :
           IF LastShifts /\ n = Len(observed)
           THEN /\ ranges[n] = <<base, Len(whole)>>
                /\ observed[n] = SubSeq(trace, base + 1, base + done)
           ELSE /\ ranges[n][1] + ranges[n][2] <= base
                /\ observed[n] = SubSeq(trace, ranges[n][1] + 1, ranges[n][1] + ranges[n][2])
  BY DEF Located
<1>4. Ranged(log').ranges = ranges /\ (LastShifts' <=> LastShifts)
  BY DEF LastShifts
<1> HIDE DEF ranges, base
<1>5. \A a, b \in Nat : a + b <= base => SubSeq(trace', a + 1, a + b) = SubSeq(trace, a + 1, a + b)
  <2> TAKE a, b \in Nat
  <2> HAVE a + b <= base
  <2>1. a + 1 \in Nat \ {0} /\ a + b \in Nat /\ a + b <= Len(trace)
    BY <1>2 DEF base
  <2> QED BY <2>1, TraceGrows
<1>6. SubSeq(trace', base + 1, base + (done + 1)) = Append(SubSeq(trace, base + 1, base + done), e)
  <2>1. /\ base + 1 \in 1 .. Len(trace) + 1 /\ base + done = Len(trace)
        /\ base + (done + 1) = Len(trace) + 1
    BY <1>2 DEF base
  <2>2. SubSeq(Append(trace, e), base + 1, Len(trace) + 1)
          = Append(SubSeq(trace, base + 1, Len(trace)), e)
    BY <2>1, TraceGrows
  <2> QED BY <2>1, <2>2
<1>7. /\ Len(observed') = Len(observed) /\ (LastShifts => observed' # << >>)
      /\ \A n \in 1 .. Len(observed) :
           observed'[n] = IF LastShifts /\ n = Len(observed) THEN Append(observed[n], e)
                                                             ELSE observed[n]
  <2>1. CASE LastShifts
    <3> DEFINE m == Len(observed)  longer == Append(observed[m], e)  T == S \cup {longer}
    <3>1. observed \in Seq(T) /\ longer \in T /\ observed # << >>
      BY <1>1, <1>3, <2>1
    <3>2. observed' = [observed EXCEPT ![m] = longer]
      BY <2>1
    <3>3. m \in 1 .. Len(observed)
      BY <1>2, <3>1, EmptySeq
    <3> HIDE DEF longer, T
    <3>4. /\ [observed EXCEPT ![m] = longer] \in Seq(T)
          /\ Len([observed EXCEPT ![m] = longer]) = Len(observed)
          /\ \A n \in 1 .. Len(observed) :
               [observed EXCEPT ![m] = longer][n] = IF n = m THEN longer ELSE observed[n]
      BY <3>1, <3>3, ExceptSeq
    <3>5. /\ observed' \in Seq(T) /\ Len(observed') = Len(observed)
          /\ \A n \in 1 .. Len(observed) : observed'[n] = IF n = m THEN longer ELSE observed[n]
      BY <3>2, <3>4, Zenon
    <3>6. observed' # << >>
      <4>1. Len(observed) # 0
        BY <1>2, <3>3
      <4>2. Len(observed') # 0
        BY <3>5, <4>1, Zenon
      <4>3. Len(<< >>) = 0
        OBVIOUS
      <4> QED BY <4>2, <4>3, Zenon
    <3>7. ASSUME NEW n \in 1 .. Len(observed)
          PROVE  observed'[n] = IF LastShifts /\ n = m THEN Append(observed[n], e) ELSE observed[n]
      <4>1. observed'[n] = IF n = m THEN longer ELSE observed[n]
        BY <3>5
      <4>2. CASE n = m
        BY <2>1, <4>1, <4>2, Zenon DEF longer
      <4>3. CASE n # m
        BY <4>1, <4>3, Zenon
      <4> QED BY <4>2, <4>3
    <3> QED BY <3>5, <3>6, <3>7, Zenon
  <2>2. CASE ~LastShifts
    <3>1. observed' = observed
      BY <2>2
    <3> QED BY <2>2, <3>1
  <2> QED BY <2>1, <2>2
<1>8. ASSUME NEW n \in 1 .. Len(observed')
      PROVE  IF LastShifts' /\ n = Len(observed')
             THEN /\ Ranged(log').ranges[n] = <<base, Len(whole)>>
                  /\ observed'[n] = SubSeq(trace', base + 1, base + (done + 1))
             ELSE /\ Ranged(log').ranges[n][1] + Ranged(log').ranges[n][2] <= base
                  /\ observed'[n] = SubSeq(trace', Ranged(log').ranges[n][1] + 1,
                                    Ranged(log').ranges[n][1] + Ranged(log').ranges[n][2])
  <2>1. CASE LastShifts /\ n = Len(observed)
    <3>1. ranges[n] = <<base, Len(whole)>> /\ observed[n] = SubSeq(trace, base + 1, base + done)
      BY <1>3, <1>7, <2>1
    <3>2. observed'[n] = Append(observed[n], e)
      BY <1>7, <2>1
    <3> QED BY <1>4, <1>6, <1>7, <2>1, <3>1, <3>2
  <2>2. CASE ~(LastShifts /\ n = Len(observed))
    <3>1. /\ ranges[n][1] + ranges[n][2] <= base
          /\ observed[n] = SubSeq(trace, ranges[n][1] + 1, ranges[n][1] + ranges[n][2])
      BY <1>3, <1>7, <2>2
    <3>2. observed'[n] = observed[n]
      BY <1>7, <2>2
    <3>3. ranges[n][1] \in Nat /\ ranges[n][2] \in Nat
      <4>1. ranges[n] \in Nat \X Nat
        BY <1>3, <1>7
      <4> QED BY <4>1
    <3>4. observed'[n] = SubSeq(trace', ranges[n][1] + 1, ranges[n][1] + ranges[n][2])
      BY <1>5, <3>1, <3>2, <3>3
    <3> QED BY <1>4, <1>7, <2>2, <3>1, <3>4
  <2> QED BY <2>1, <2>2
<1> QED BY <1>3, <1>4, <1>7, <1>8 DEF Located, base

\* Sending the next cycle keeps them there.
LEMMA TraceTicks ==
  ASSUME TraceInv, PlayTick, NEW from, NEW sent0, NEW whole, NEW done, NEW e, e = tdo',
         Correlates(from, sent0, whole, done)
  PROVE  Correlates(from, sent0, whole, done + 1)'
<1>1. Sequence(observed) /\ Sequence(trace) /\ Sequence(applied)
  BY DEF TraceInv, Correlates
<1>2. /\ whole \in Seq(Cycle) /\ sent0 \in Seq(Cycle) /\ Rest(cycles, whole, done)
      /\ log = << >> => whole = << >>
      /\ Expected(log).sent = sent0 \o whole
      /\ Sent = sent0 \o SubSeq(whole, 1, done) /\ Len(trace) = Len(sent0) + done
      /\ Ranged(log).state = Expected(log).state
      /\ Ranged(log).index = Len(sent0) + Len(whole)
      /\ \/ /\ state = Tracked(from, SubSeq(whole, 1, done))
            /\ Expected(log).state = Tracked(from, whole)
         \/ LeadingIn
      /\ Located(sent0, whole, done)
  BY DEF Correlates
<1> DEFINE tms == whole[done + 1][1]  tdi == whole[done + 1][2]
<1>3. /\ done \in Nat /\ done + 1 \in 1 .. Len(whole) /\ done < Len(whole)
      /\ tms \in Bits /\ tdi \in Bits /\ Rest(cycles', whole, done + 1)
      /\ state' = Tap!next_state(state, tms) /\ trace' = Append(trace, e) /\ log' = log
      /\ observed' = IF log[Len(log)].kind = "shift"
                       THEN [observed EXCEPT ![Len(observed)] = Append(@, e)]
                       ELSE observed
      /\ \E bit : applied' = Append(applied, Edge("tck", tms, tdi, bit, pins))
  BY <1>2, CycleEffect DEF Tap!Tick
<1>4. log # << >> /\ ~LeadingIn
  <2>1. whole # << >>
    BY <1>3
  <2> QED BY <1>2, <2>1 DEF LeadingIn
<1>5. /\ SubSeq(whole, 1, done) \in Seq(Cycle) /\ whole[done + 1] \in Cycle
      /\ SubSeq(whole, 1, done + 1) = Append(SubSeq(whole, 1, done), whole[done + 1])
  BY <1>2, <1>3, OneLonger
<1>6. state' = Tracked(from, SubSeq(whole, 1, done + 1)) /\ Expected(log').state = Tracked(from, whole)
  <2>1. state = Tracked(from, SubSeq(whole, 1, done))
    BY <1>2, <1>4
  <2>2. Tracked(from, Append(SubSeq(whole, 1, done), whole[done + 1]))
          = Tap!next_state(Tracked(from, SubSeq(whole, 1, done)), tms)
    BY <1>5, TrackedOn
  <2>3. Expected(log).state = Tracked(from, whole)
    BY <1>2, <1>4
  <2>4. state' = Tap!next_state(state, tms) /\ log' = log
    BY <1>3
  <2>5. SubSeq(whole, 1, done + 1) = Append(SubSeq(whole, 1, done), whole[done + 1])
    BY <1>5
  <2> HIDE DEF tms
  <2> QED BY <2>1, <2>2, <2>3, <2>4, <2>5, Zenon
<1>7. Sent' = sent0 \o SubSeq(whole, 1, done + 1)
  <2>1. PICK bit : applied' = Append(applied, Edge("tck", tms, tdi, bit, pins))
    BY <1>3
  <2> DEFINE edge == Edge("tck", tms, tdi, bit, pins)
  <2>2. <<edge.tms, edge.tdi>> = whole[done + 1]
    <3>1. edge.tms = tms /\ edge.tdi = tdi
      BY DEF Edge
    <3>2. whole[done + 1] = <<tms, tdi>>
      BY <1>5 DEF Cycle
    <3> QED BY <3>1, <3>2
  <2>3. PICK S : applied \in Seq(S)
    BY <1>1 DEF Sequence
  <2> DEFINE T == S \cup {edge}
  <2>4. applied \in Seq(T) /\ edge \in T
    BY <2>3
  <2> HIDE DEF T, edge
  <2>5. /\ DOMAIN Append(applied, edge) = 1 .. Len(applied) + 1 /\ Len(applied) \in Nat
        /\ DOMAIN applied = 1 .. Len(applied)
        /\ \A n \in 1 .. Len(applied) : Append(applied, edge)[n] = applied[n]
        /\ Append(applied, edge)[Len(applied) + 1] = edge
    BY <2>4, AppendProperties
  <2> DEFINE sub == SubSeq(whole, 1, done)  c == whole[done + 1]
  <2>6. sent0 \in Seq(Cycle) /\ sub \in Seq(Cycle) /\ c \in Cycle /\ << c >> \in Seq(Cycle)
    BY <1>2, <1>5
  <2>7. sent0 \o Append(sub, c) = Append(sent0 \o sub, c)
    <3> HIDE DEF sub, c
    <3>1. sent0 \o sub \in Seq(Cycle) /\ Append(sub, c) = sub \o << c >>
          /\ Append(sent0 \o sub, c) = (sent0 \o sub) \o << c >>
      BY <2>6, ConcatProperties, AppendIsConcat
    <3> QED BY <2>6, <3>1, ConcatAssociative
  <2>8. Sent \in Seq(Cycle) /\ DOMAIN Sent = 1 .. Len(applied) /\ Len(Sent) = Len(applied)
    <3>1. Sent \in Seq(Cycle)
      BY <1>2, <2>6, ConcatProperties
    <3>2. DOMAIN Sent = 1 .. Len(applied)
      BY <2>5 DEF Sent
    <3>3. Len(Sent) \in Nat /\ DOMAIN Sent = 1 .. Len(Sent)
      BY <3>1
    <3> HIDE DEF sub, c
    <3> QED BY <2>5, <3>1, <3>2, <3>3
  <2>9. Sent' = Append(Sent, c)
    <3> HIDE DEF sub, c
    <3>1. Sent' = [n \in 1 .. Len(applied) + 1 |-> <<Append(applied, edge)[n].tms,
                                                     Append(applied, edge)[n].tdi>>]
      BY <2>1, <2>5 DEF Sent, edge
    <3>2. \A n \in 1 .. Len(applied) : Sent[n] = <<applied[n].tms, applied[n].tdi>>
      BY <2>5 DEF Sent
    <3>3. Append(Sent, c) = [n \in 1 .. Len(applied) + 1 |-> IF n <= Len(applied) THEN Sent[n] ELSE c]
      <4>1. /\ \A n \in 1 .. Len(Sent) : Append(Sent, c)[n] = Sent[n]
            /\ Append(Sent, c)[Len(Sent) + 1] = c /\ Append(Sent, c) \in Seq(Cycle)
            /\ Len(Append(Sent, c)) = Len(Sent) + 1
        BY <2>6, <2>8, AppendProperties
      <4>2. Append(Sent, c) = [n \in 1 .. Len(applied) + 1 |-> Append(Sent, c)[n]]
        <5>1. \A f \in Seq(Cycle) : f = [n \in 1 .. Len(f) |-> f[n]]
          OBVIOUS
        <5> QED BY <2>8, <4>1, <5>1, Zenon
      <4>3. \A n \in 1 .. Len(applied) + 1 :
              Append(Sent, c)[n] = IF n <= Len(applied) THEN Sent[n] ELSE c
        BY <2>5, <2>8, <4>1
      <4> QED BY <4>2, <4>3
    <3>4. \A n \in 1 .. Len(applied) + 1 :
            <<Append(applied, edge)[n].tms, Append(applied, edge)[n].tdi>>
              = IF n <= Len(applied) THEN Sent[n] ELSE c
      <4> TAKE n \in 1 .. Len(applied) + 1
      <4>1. CASE n <= Len(applied)
        BY <2>5, <3>2, <4>1
      <4>2. CASE n = Len(applied) + 1
        BY <2>2, <2>5, <4>2 DEF c
      <4> QED BY <2>5, <4>1, <4>2
    <3> QED BY <3>1, <3>3, <3>4
  <2> QED BY <1>2, <1>5, <2>7, <2>9
<1>11. Sequence(applied')
  BY <1>1, <1>3, StillSequence
<1>8. Located(sent0, whole, done + 1)'
  <2>1. LastShifts <=> log[Len(log)].kind = "shift"
    BY <1>4 DEF LastShifts
  <2> QED BY <1>1, <1>2, <1>3, <1>4, <2>1, LocatedTicks
<1>9. Len(trace') = Len(sent0) + (done + 1)
  <2>1. Len(trace') = Len(trace) + 1
    BY <1>1, <1>3, TraceGrows
  <2>2. Len(sent0) \in Nat /\ Len(trace) = Len(sent0) + done /\ done \in Nat
    BY <1>2, <1>3
  <2> QED BY <2>1, <2>2
<1>10. /\ Expected(log').sent = sent0 \o whole /\ Ranged(log').state = Expected(log').state
       /\ Ranged(log').index = Len(sent0) + Len(whole) /\ log' # << >>
  BY <1>2, <1>3, <1>4
<1> QED BY <1>2, <1>3, <1>6, <1>7, <1>8, <1>9, <1>10, <1>11 DEF Correlates

\* What leaves the cycles, the trace and the state alone keeps them there.
LEMMA TraceKept ==
  ASSUME UNCHANGED <<state, cycles, log, observed, trace, applied>>, ops' = ops \/ ~LeadingIn,
         NEW from, NEW sent0, NEW whole, NEW done, Correlates(from, sent0, whole, done)
  PROVE  Correlates(from, sent0, whole, done)'
<1>1. /\ state' = state /\ cycles' = cycles /\ log' = log /\ observed' = observed
      /\ trace' = trace /\ applied' = applied
  OBVIOUS
<1>2. Sent' = Sent /\ (Located(sent0, whole, done)' <=> Located(sent0, whole, done))
  BY <1>1 DEF Sent, Located, LastShifts
<1>3. LeadingIn => LeadingIn' \/ ops' # ops
  BY <1>1 DEF LeadingIn
<1> QED BY <1>1, <1>2, <1>3 DEF Correlates

\* Every operation of a group a program emits is typed.
LEMMA EmittedTyped ==
  ASSUME NEW b \in Blocks
  PROVE  \E T : b.ops \in Seq(T) /\ \A op \in T : Typed(op)
<1>1. ASSUME NEW opcode \in Tap!Register(IrWidth), b = LoadBlock(opcode)
      PROVE  \E T : b.ops \in Seq(T) /\ \A op \in T : Typed(op)
  <2> DEFINE T == {Goto("SHIFT_IR"), ShiftBits(LoadBits(opcode)), Goto("RUN_TEST_IDLE")}
  <2>1. LoadBits(opcode) \in Seq(Bits)
    BY SelectLoads DEF LoadBits, LoadProgram
  <2>2. \A op \in T : Typed(op)
    BY <2>1, GroupsTyped
  <2>3. b.ops = << Goto("SHIFT_IR"), ShiftBits(LoadBits(opcode)), Goto("RUN_TEST_IDLE") >>
    BY <1>1, Kinds DEF select_instruction, LoadBits
  <2>4. b.ops \in Seq(T)
    BY <2>3
  <2> QED BY <2>2, <2>4
<1>2. ASSUME NEW t \in UNION {[1 .. n -> Bits] : n \in ScanLengths}, b = ScanBlock(t)
      PROVE  \E T : b.ops \in Seq(T) /\ \A op \in T : Typed(op)
  <2> DEFINE T == {Goto("SHIFT_DR"), ShiftBits(t), Goto("RUN_TEST_IDLE")}
  <2>1. t \in Seq(Bits)
    <3>1. PICK n \in ScanLengths : t \in [1 .. n -> Bits]
      BY <1>2
    <3>2. n \in Nat
      BY PlayAssumption
    <3> QED BY <3>1, <3>2
  <2>2. \A op \in T : Typed(op)
    BY <2>1, GroupsTyped
  <2>3. b.ops = << Goto("SHIFT_DR"), ShiftBits(t), Goto("RUN_TEST_IDLE") >>
    BY <1>2, Kinds DEF DrScan
  <2>4. b.ops \in Seq(T)
    BY <2>3
  <2> QED BY <2>2, <2>4
<1>3. ASSUME NEW op \in PinOps, b = PinBlock(op)
      PROVE  \E T : b.ops \in Seq(T) /\ \A o \in T : Typed(o)
  <2>1. b.ops = << op >>
    BY <1>3 DEF PinBlock
  <2>2. b.ops \in Seq({op})
    BY <2>1
  <2> QED BY <2>2, GroupsTyped
<1>4. CASE b = WaitBlock
  <2>1. b.ops = << Runtest(4) >>
    BY <1>4 DEF WaitBlock
  <2>2. b.ops \in Seq({Runtest(4)})
    BY <2>1
  <2> QED BY <2>2, GroupsTyped
<1>5. CASE b = ResetBlock \/ b = UnsettledBlock
  <2>1. b.ops = TmsReset \/ b.ops = UnsettledReset
    BY <1>5 DEF ResetBlock, UnsettledBlock
  <2>2. b.ops \in Seq({Goto("TEST_LOGIC_RESET"), Goto("RUN_TEST_IDLE")})
    BY <2>1, ResetsReset DEF ResetProgram
  <2> QED BY <2>2, GroupsTyped
<1>6. \/ \E opcode \in Tap!Register(IrWidth) : b = LoadBlock(opcode)
      \/ \E t \in UNION {[1 .. n -> Bits] : n \in ScanLengths} : b = ScanBlock(t)
      \/ \E op \in PinOps : b = PinBlock(op)
      \/ b = WaitBlock \/ b = ResetBlock \/ b = UnsettledBlock
  BY DEF Blocks, LoadBlock, ScanBlock, PinBlock, WaitBlock, ResetBlock, UnsettledBlock
<1> QED BY <1>1, <1>2, <1>3, <1>4, <1>5, <1>6

\* Every step keeps the cycles sent, and the trace, where to_cycles and
\* shift_op_ranges have them.
LEMMA TraceStep == TraceInv /\ [Next]_vars => TraceInv'
<1> SUFFICES ASSUME TraceInv, [Next]_vars PROVE TraceInv'
  OBVIOUS
<1>1. /\ Sequence(log) /\ Sequence(trace) /\ Sequence(observed) /\ plan \in Seq(Tests) /\ OpsTyped
      /\ Plain(log) => \E from, sent0, whole, done : Correlates(from, sent0, whole, done)
  BY DEF TraceInv
<1>2. ASSUME UNCHANGED <<state, cycles, log, observed, trace, applied>>, ops' = ops \/ ~LeadingIn
      PROVE  /\ Sequence(log') /\ Sequence(trace') /\ Sequence(observed')
             /\ Plain(log') => \E from, sent0, whole, done : Correlates(from, sent0, whole, done)'
  <2>1. log' = log /\ trace' = trace /\ observed' = observed
    BY <1>2
  <2>2. ASSUME Plain(log') PROVE \E from, sent0, whole, done : Correlates(from, sent0, whole, done)'
    <3>1. Plain(log)
      BY <2>1, <2>2
    <3>2. PICK from, sent0, whole, done : Correlates(from, sent0, whole, done)
      BY <1>1, <3>1
    <3>3. Correlates(from, sent0, whole, done)'
      BY <1>2, <3>2, TraceKept
    <3> QED BY <3>3
  <2> QED BY <1>1, <2>1, <2>2
<1>3. ASSUME NEW b \in Blocks, Emit(b) PROVE TraceInv'
  <2>1. /\ ops = << >> /\ ops' = b.ops /\ plan' = plan
        /\ UNCHANGED <<state, cycles, log, observed, trace, applied>>
    BY <1>3 DEF Emit, Idle, tapVars
  <2>2. ~LeadingIn
    BY <2>1 DEF LeadingIn, TmsReset
  <2>3. OpsTyped'
    BY <2>1, EmittedTyped DEF OpsTyped
  <2> QED BY <1>1, <1>2, <2>1, <2>2, <2>3 DEF TraceInv
<1>4. CASE EmitTest
  <2>1. /\ ops = << >> /\ ops' = Head(plan).ops /\ plan # << >> /\ plan' = Tail(plan)
        /\ UNCHANGED <<state, cycles, log, observed, trace, applied>>
    BY <1>4 DEF EmitTest, Idle, tapVars
  <2>2. ~LeadingIn
    BY <2>1 DEF LeadingIn, TmsReset
  <2>3. Head(plan) \in Tests /\ Tail(plan) \in Seq(Tests)
    BY <1>1, <2>1, HeadTailProperties
  <2>4. OpsTyped'
    BY <2>1, <2>3, TestsTyped DEF OpsTyped
  <2> QED BY <1>1, <1>2, <2>1, <2>2, <2>3, <2>4 DEF TraceInv
<1>5. CASE StartOp
  <2>1. /\ ops # << >> /\ ~raised /\ plan' = plan /\ trace' = trace /\ state' = state
        /\ \/ /\ raised' = TRUE
              /\ UNCHANGED <<ops, cycles, log, observed, applied>>
           \/ /\ raised' = raised /\ ops' = Tail(ops) /\ log' = Append(log, Head(ops))
              /\ observed' = observed \/ observed' = Append(observed, << >>)
    BY <1>5 DEF StartOp, tapVars
  <2>2. CASE raised'
    <3>1. UNCHANGED <<ops, state, cycles, log, observed, trace, applied>>
      BY <2>1, <2>2
    <3>2. OpsTyped'
      BY <1>1, <3>1 DEF OpsTyped
    <3> QED BY <1>1, <1>2, <2>1, <3>1, <3>2 DEF TraceInv
  <2>3. CASE ~raised'
    <3>1. /\ ops' = Tail(ops) /\ log' = Append(log, Head(ops))
          /\ observed' = observed \/ observed' = Append(observed, << >>)
      BY <2>1, <2>3
    <3>2. Sequence(log') /\ Sequence(observed') /\ Sequence(trace')
      BY <1>1, <2>1, <3>1, StillSequence
    <3>3. OpsTyped'
      <4>1. PICK T : ops \in Seq(T) /\ \A op \in T : Typed(op)
        BY <1>1 DEF OpsTyped
      <4>2. Tail(ops) \in Seq(T)
        BY <2>1, <4>1, HeadTailProperties
      <4> QED BY <3>1, <4>1, <4>2 DEF OpsTyped
    <3>4. ASSUME Plain(log')
          PROVE  \E from, sent0, whole, done : Correlates(from, sent0, whole, done)'
      <4>1. PICK op : op = Head(ops)
        OBVIOUS
      <4>2. PICK here : here = state
        OBVIOUS
      <4>3. PICK sends : sends = CyclesOf(op, here)
        OBVIOUS
      <4>4. Plain(log)
        <5>1. PICK S : log \in Seq(S)
          BY <1>1 DEF Sequence
        <5> DEFINE T == S \cup {op}
        <5>2. log \in Seq(T) /\ op \in T
          BY <5>1
        <5> HIDE DEF T
        <5>3. /\ DOMAIN log \subseteq DOMAIN Append(log, op)
              /\ \A n \in DOMAIN log : Append(log, op)[n] = log[n]
          BY <5>2
        <5> QED BY <3>1, <3>4, <4>1, <5>3 DEF Plain
      <4>5. PICK from, sent0, whole, done : Correlates(from, sent0, whole, done)
        BY <1>1, <4>4
      <4>6. Correlates(here, sent0 \o whole, sends, 0)'
        BY <1>5, <2>3, <3>4, <4>1, <4>2, <4>3, <4>5, TraceStarts
      <4> QED BY <4>6
    <3> QED BY <1>1, <2>1, <3>2, <3>3, <3>4 DEF TraceInv
  <2> QED BY <2>2, <2>3
<1>6. CASE PlayTick
  <2>1. /\ log' = log /\ ops' = ops /\ plan' = plan /\ trace' = Append(trace, tdo')
        /\ \/ observed' = observed
           \/ observed' = [observed EXCEPT ![Len(observed)] = Append(observed[Len(observed)], tdo')]
    BY <1>6 DEF PlayTick
  <2>2. Sequence(log') /\ Sequence(observed') /\ Sequence(trace') /\ OpsTyped'
    BY <1>1, <2>1, StillSequence DEF OpsTyped
  <2>3. ASSUME Plain(log')
        PROVE  \E from, sent0, whole, done : Correlates(from, sent0, whole, done)'
    <3>1. Plain(log)
      BY <2>1, <2>3
    <3>2. PICK from, sent0, whole, done : Correlates(from, sent0, whole, done)
      BY <1>1, <3>1
    <3>3. PICK e : e = tdo'
      OBVIOUS
    <3>4. Correlates(from, sent0, whole, done + 1)'
      BY <1>6, <3>2, <3>3, TraceTicks
    <3> QED BY <3>4
  <2> QED BY <1>1, <2>1, <2>2, <2>3 DEF TraceInv
<1>7. CASE PlayTickRaises
  <2>1. UNCHANGED <<ops, plan, state, cycles, log, observed, trace, applied>>
    BY <1>7 DEF PlayTickRaises, tapVars
  <2>2. OpsTyped'
    BY <1>1, <2>1 DEF OpsTyped
  <2> QED BY <1>1, <1>2, <2>1, <2>2 DEF TraceInv
<1>8. CASE UNCHANGED vars
  <2>1. UNCHANGED <<ops, plan, state, cycles, log, observed, trace, applied>>
    BY <1>8 DEF vars, tapVars
  <2>2. OpsTyped'
    BY <1>1, <2>1 DEF OpsTyped
  <2> QED BY <1>1, <1>2, <2>1, <2>2 DEF TraceInv
<1> QED BY <1>3, <1>4, <1>5, <1>6, <1>7, <1>8 DEF Next

\* to_cycles, which sees no model, builds the cycles play sends, and the trace
\* cut up by shift_op_ranges is what play observed, whatever the operations and
\* wherever the TAP was found, provided a program that finds it unsettled leads
\* in with a reset (to_cycles, shift_op_ranges, correlate_observed).
THEOREM TraceCorrelation == Spec => []TraceCorrelates
<1>1. TraceInv => TraceCorrelates
  <2> SUFFICES ASSUME TraceInv, cycles = << >>, Plain(log)
               PROVE  to_cycles(log) = Sent /\ correlate_observed(log, trace) = observed
    BY DEF TraceCorrelates, Plain, Sent
  <2>1. Sequence(log) /\ Sequence(observed)
    BY DEF TraceInv
  <2>2. PICK from, sent0, whole, done : Correlates(from, sent0, whole, done)
    BY DEF TraceInv
  <2>3. /\ whole \in Seq(Cycle) /\ Rest(cycles, whole, done) /\ Located(sent0, whole, done)
        /\ Expected(log).sent = sent0 \o whole /\ Sent = sent0 \o SubSeq(whole, 1, done)
    BY <2>2 DEF Correlates
  <2>4. done = Len(whole) /\ SubSeq(whole, 1, done) = whole
    <3>1. done = Len(whole)
      BY <2>3, RestEnds
    <3> QED BY <2>3, <3>1, SubSeqFull
  <2>5. to_cycles(log) = Sent
    BY <2>1, <2>3, <2>4, Followed
  <2>6. correlate_observed(log, trace) = observed
    <3> DEFINE ranges == Ranged(log).ranges
    <3>1. shift_op_ranges(log) = ranges
      BY <2>1, Followed
    <3>2. /\ ranges \in Seq(Nat \X Nat) /\ Len(ranges) = Len(observed)
          /\ \A n \in 1 .. Len(observed) :
               observed[n] = SubSeq(trace, ranges[n][1] + 1, ranges[n][1] + ranges[n][2])
      <4>1. ranges \in Seq(Nat \X Nat) /\ Len(ranges) = Len(observed)
        BY <2>3 DEF Located
      <4>2. ASSUME NEW n \in 1 .. Len(observed)
            PROVE  observed[n] = SubSeq(trace, ranges[n][1] + 1, ranges[n][1] + ranges[n][2])
        <5>1. CASE LastShifts /\ n = Len(observed)
          <6>1. /\ ranges[n] = <<Len(sent0), Len(whole)>>
                /\ observed[n] = SubSeq(trace, Len(sent0) + 1, Len(sent0) + done)
            BY <2>3, <5>1 DEF Located
          <6>2. ranges[n][1] = Len(sent0) /\ ranges[n][2] = done
            BY <2>4, <6>1
          <6> HIDE DEF ranges
          <6> QED BY <6>1, <6>2, Zenon
        <5>2. CASE ~(LastShifts /\ n = Len(observed))
          BY <2>3, <5>2 DEF Located
        <5> QED BY <5>1, <5>2
      <4> QED BY <4>1, <4>2
    <3> HIDE DEF ranges
    <3>3. DOMAIN ranges = 1 .. Len(observed) /\ observed = [n \in 1 .. Len(observed) |-> observed[n]]
      BY <2>1, <3>2 DEF Sequence
    <3>4. correlate_observed(log, trace)
            = [n \in 1 .. Len(observed) |-> SubSeq(trace, ranges[n][1] + 1, ranges[n][1] + ranges[n][2])]
      BY <3>1, <3>3 DEF correlate_observed
    <3> QED BY <3>2, <3>3, <3>4
  <2> QED BY <2>5, <2>6
<1>2. Init => TraceInv
  BY TraceInit
<1>3. TraceInv /\ [Next]_vars => TraceInv'
  BY TraceStep
<1> QED BY <1>1, <1>2, <1>3, PTL DEF Spec

----------------------------------------------------------------------------
(* The vectors of a program, and a tester's run of them.                   *)

WalkBase(p) == WalkStart
WalkStep(p, acc, op) == WalkOp(acc, op)
RunBase(p) == p
RunStep(p, acc, statement) == RunStatement(acc, statement)
\* All the runs of a cycle at once.
CycleStep(p, acc, cycle) == RunStatement(acc, Statement(cycle, cycle.repeat))
VectorBase(p) == p.start
VectorStep(p, acc, i) == RunVector(acc, p.cycle)
SettleStep(p, s, i) == Tap!next_state(s, 0)

WalkFold == INSTANCE InductionLemmas WITH FoldBase <- WalkBase, FoldStep <- WalkStep
RunFold == INSTANCE InductionLemmas WITH FoldBase <- RunBase, FoldStep <- RunStep
TesterFold == INSTANCE InductionLemmas WITH FoldBase <- RunBase, FoldStep <- CycleStep
VectorFold == INSTANCE InductionLemmas WITH FoldBase <- VectorBase, FoldStep <- VectorStep
SettleFold == INSTANCE InductionLemmas WITH FoldBase <- RunBase, FoldStep <- SettleStep

\* What to_stil's walk has got to after the operations, and a tester after the
\* cycles, from what it starts with.
Walked(operations) == WalkFold!Fold(0, operations)
TesterStart == [levels |-> Over(Inputs, [p \in OtherPins |-> Undriven]), edges |-> << >>]
Tested(cycles_) == TesterFold!Fold(TesterStart, cycles_)

\* One more operation is one more step of the walk.
LEMMA WalkedOn ==
  ASSUME NEW operations, Sequence(operations), NEW op
  PROVE  /\ _walk_cycles(operations) = Walked(operations).out
         /\ Walked(<< >>) = WalkStart
         /\ Walked(Append(operations, op)) = WalkOp(Walked(operations), op)
<1>1. PICK S : operations \in Seq(S)
  BY DEF Sequence
<1> DEFINE T == S \cup {op}
<1>2. operations \in Seq(T) /\ op \in T
  BY <1>1
<1> HIDE DEF T
<1>3. _walk_cycles(operations) = Walked(operations).out
  BY DEF _walk_cycles, Walked, WalkBase, WalkStep, WalkFold!Fold, FoldLeft,
         WalkFold!FoldLeft, MapThenFoldSet, WalkFold!MapThenFoldSet, Max, WalkFold!Max
<1>4. Walked(<< >>) = WalkStart
  BY WalkFold!FoldEmpty DEF Walked, WalkBase
<1>5. Walked(Append(operations, op)) = WalkOp(Walked(operations), op)
  BY <1>2, WalkFold!FoldAppend DEF Walked, WalkStep
<1> QED BY <1>3, <1>4, <1>5

\* The numbers up to one more.
LEMMA CountOn ==
  ASSUME NEW n \in Nat
  PROVE  /\ [i \in 1 .. 0 |-> i] = << >>
         /\ [i \in 1 .. n |-> i] \in Seq(Nat) /\ n + 1 \in Nat
         /\ [i \in 1 .. n + 1 |-> i] = Append([i \in 1 .. n |-> i], n + 1)
<1>1. [i \in 1 .. 0 |-> i] = << >>
  OBVIOUS
<1>2. [i \in 1 .. n |-> i] \in Seq(Nat) /\ Len([i \in 1 .. n |-> i]) = n
  <2>1. [i \in 1 .. n |-> i] \in [1 .. n -> Nat]
    OBVIOUS
  <2> QED BY <2>1, FunctionIsSeq
<1>3. [i \in 1 .. n + 1 |-> i] = Append([i \in 1 .. n |-> i], n + 1)
  <2> DEFINE s == [i \in 1 .. n |-> i]  t == [i \in 1 .. n + 1 |-> i]
  <2>1. t \in Seq(Nat) /\ Len(t) = n + 1
    <3>1. t \in [1 .. n + 1 -> Nat] /\ n + 1 \in Nat
      OBVIOUS
    <3> QED BY <3>1, FunctionIsSeq
  <2>2. /\ Append(s, n + 1) \in Seq(Nat) /\ Len(Append(s, n + 1)) = n + 1
        /\ \A i \in 1 .. n : Append(s, n + 1)[i] = i
        /\ Append(s, n + 1)[n + 1] = n + 1
    <3>1. \A i \in 1 .. n : s[i] = i
      OBVIOUS
    <3> HIDE DEF s
    <3> QED BY <1>2, <3>1, AppendProperties DEF s
  <2>3. \A i \in 1 .. n + 1 : t[i] = Append(s, n + 1)[i]
    <3>1. \A i \in 1 .. n + 1 : t[i] = i
      OBVIOUS
    <3> HIDE DEF s, t
    <3> QED BY <2>2, <3>1
  <2> HIDE DEF s, t
  <2>4. t = Append(s, n + 1)
    BY <2>1, <2>2, <2>3, SeqEqual
  <2> QED BY <2>4 DEF s, t
<1> QED BY <1>1, <1>2, <1>3

\* A statement that runs a vector once more runs it once more.
LEMMA Repeated ==
  ASSUME NEW acc, NEW cycle
  PROVE  /\ RunStatement(acc, Statement(cycle, 0)) = acc
         /\ \A n \in Nat : RunStatement(acc, Statement(cycle, n + 1))
                             = RunVector(RunStatement(acc, Statement(cycle, n)), cycle)
<1> DEFINE p == [start |-> acc, cycle |-> cycle]
<1>1. \A n : RunStatement(acc, Statement(cycle, n)) = VectorFold!Fold(p, [i \in 1 .. n |-> i])
  <2> DEFINE Times(a, c, n) == FoldLeft(LAMBDA b, i : RunVector(b, c), a, [i \in 1 .. n |-> i])
  <2>1. \A n : Times(p.start, p.cycle, n) = VectorFold!Fold(p, [i \in 1 .. n |-> i])
    <3> HIDE DEF p
    <3> QED BY DEF VectorBase, VectorStep, VectorFold!Fold, FoldLeft, VectorFold!FoldLeft,
                   MapThenFoldSet, VectorFold!MapThenFoldSet, Max, VectorFold!Max
  <2>2. \A s : RunStatement(acc, s) = Times(acc, s.cycle, s.times)
    BY DEF RunStatement
  <2>3. p.start = acc /\ p.cycle = cycle
    OBVIOUS
  <2>4. \A n : Statement(cycle, n).cycle = cycle /\ Statement(cycle, n).times = n
    BY DEF Statement
  <2> HIDE DEF p, Times
  <2> TAKE n
  <2>5. RunStatement(acc, Statement(cycle, n)) = Times(acc, cycle, n)
    BY <2>2, <2>4
  <2>6. Times(acc, cycle, n) = Times(p.start, p.cycle, n)
    BY <2>3
  <2>7. Times(p.start, p.cycle, n) = VectorFold!Fold(p, [i \in 1 .. n |-> i])
    BY <2>1, Zenon
  <2> QED BY <2>5, <2>6, <2>7, Zenon
<1>2. RunStatement(acc, Statement(cycle, 0)) = acc
  <2>1. VectorFold!Fold(p, << >>) = p.start
    BY VectorFold!FoldEmpty DEF VectorBase
  <2>2. [i \in 1 .. 0 |-> i] = << >>
    OBVIOUS
  <2>3. p.start = acc
    OBVIOUS
  <2> HIDE DEF p
  <2> QED BY <1>1, <2>1, <2>2, <2>3
<1>3. ASSUME NEW n \in Nat
      PROVE  RunStatement(acc, Statement(cycle, n + 1))
               = RunVector(RunStatement(acc, Statement(cycle, n)), cycle)
  <2> DEFINE s == [i \in 1 .. n |-> i]
  <2>1. s \in Seq(Nat) /\ n + 1 \in Nat /\ [i \in 1 .. n + 1 |-> i] = Append(s, n + 1)
    BY CountOn
  <2> HIDE DEF s
  <2>2. VectorFold!Fold(p, Append(s, n + 1)) = VectorStep(p, VectorFold!Fold(p, s), n + 1)
    BY <2>1, VectorFold!FoldAppend
  <2>3. \A a, i : VectorStep(p, a, i) = RunVector(a, cycle)
    BY DEF VectorStep
  <2> HIDE DEF p
  <2>4. RunStatement(acc, Statement(cycle, n)) = VectorFold!Fold(p, s)
    BY <1>1 DEF s
  <2>5. RunStatement(acc, Statement(cycle, n + 1)) = VectorFold!Fold(p, Append(s, n + 1))
    BY <1>1, <2>1
  <2> QED BY <2>2, <2>3, <2>4, <2>5
<1> QED BY <1>2, <1>3

\* A vector of its own and a loop of the others is the whole run.
LEMMA LoopOpened ==
  ASSUME NEW acc, NEW cycle, NEW n \in Nat
  PROVE  RunStatement(RunStatement(acc, Statement(cycle, 1)), Statement(cycle, n))
           = RunStatement(acc, Statement(cycle, n + 1))
<1> DEFINE once == RunStatement(acc, Statement(cycle, 1))
           Same_(k) == RunStatement(once, Statement(cycle, k)) = RunStatement(acc, Statement(cycle, k + 1))
           P == {k \in Nat : Same_(k)}
<1> HIDE DEF once
<1>1. 0 \in P
  <2>1. RunStatement(once, Statement(cycle, 0)) = once
    BY Repeated
  <2>2. 0 + 1 = 1
    OBVIOUS
  <2>3. Same_(0)
    BY <2>1, <2>2 DEF once
  <2> QED BY <2>3
<1>2. ASSUME NEW k \in Nat, k \in P PROVE k + 1 \in P
  <2>1. Same_(k)
    BY <1>2
  <2>2. /\ RunStatement(once, Statement(cycle, k + 1))
             = RunVector(RunStatement(once, Statement(cycle, k)), cycle)
        /\ RunStatement(acc, Statement(cycle, (k + 1) + 1))
             = RunVector(RunStatement(acc, Statement(cycle, k + 1)), cycle)
    <3>1. k + 1 \in Nat
      OBVIOUS
    <3> QED BY <3>1, Repeated
  <2>3. k + 1 \in Nat
    OBVIOUS
  <2>4. Same_(k + 1)
    BY <2>1, <2>2
  <2> HIDE DEF Same_
  <2> QED BY <2>3, <2>4
<1> HIDE DEF P
<1>3. n \in P
  <2>1. Nat \subseteq P
    BY <1>1, <1>2, Induction
  <2> QED BY <2>1
<1> QED BY <1>3 DEF P, once

\* Vectors as the walk writes them.
Vectors(out) == \E S : out \in Seq(S) /\ \A c \in S : c.repeat \in Nat

\* One more vector, or run of vectors.
LEMMA TestedOn ==
  ASSUME NEW out, Vectors(out), NEW c, c.repeat \in Nat
  PROVE  /\ Vectors(Append(out, c))
         /\ Tested(Append(out, c)) = RunStatement(Tested(out), Statement(c, c.repeat))
<1>1. PICK S : out \in Seq(S) /\ \A d \in S : d.repeat \in Nat
  BY DEF Vectors
<1> DEFINE T == S \cup {c}
<1>2. out \in Seq(T) /\ c \in T /\ \A d \in T : d.repeat \in Nat
  BY <1>1
<1> HIDE DEF T
<1>3. Append(out, c) \in Seq(T)
  BY <1>2
<1>4. Tested(Append(out, c)) = CycleStep(TesterStart, Tested(out), c)
  BY <1>2, TesterFold!FoldAppend DEF Tested
<1> QED BY <1>2, <1>3, <1>4 DEF Vectors, CycleStep

\* The statements run every vector as often as the walk has it.
LEMMA StatementsRun ==
  ASSUME NEW out, Vectors(out)
  PROVE  EdgesOf(FlattenSeq([n \in DOMAIN out |-> StatementsOf(n, out[n])])) = Tested(out).edges
<1>1. PICK S : out \in Seq(S) /\ \A c \in S : c.repeat \in Nat
  BY DEF Vectors
<1> DEFINE n == Len(out)  seqs == [k \in DOMAIN out |-> StatementsOf(k, out[k])]
           U == {Statement(c, k) : c \in S, k \in Nat}
           Ran(statements) == RunFold!Fold(TesterStart, statements)
<1>2. n \in Nat /\ DOMAIN out = 1 .. n /\ \A k \in 1 .. n : out[k] \in S
  BY <1>1
<1>3. \A k \in 1 .. n : StatementsOf(k, out[k]) \in Seq(U)
  <2> TAKE k \in 1 .. n
  <2> DEFINE c == out[k]
  <2>1. c \in S /\ c.repeat \in Nat /\ (c.repeat > 1 => c.repeat - 1 \in Nat)
    BY <1>1, <1>2
  <2> HIDE DEF c
  <2>2. Statement(c, c.repeat) \in U /\ (c.repeat > 1 => Statement(c, 1) \in U /\ Statement(c, c.repeat - 1) \in U)
    BY <2>1
  <2>3. StatementsOf(k, c) \in Seq(U)
    <3> HIDE DEF U
    <3>1. CASE k = 1 /\ c.repeat > 1
      <4> DEFINE s1 == Statement(c, 1)  s2 == Statement(c, c.repeat - 1)
      <4>1. StatementsOf(k, c) = << s1, s2 >>
        BY <3>1 DEF StatementsOf
      <4>2. s1 \in U /\ s2 \in U
        BY <2>2, <3>1
      <4> HIDE DEF s1, s2
      <4> QED BY <4>1, <4>2
    <3>2. CASE ~(k = 1 /\ c.repeat > 1)
      <4> DEFINE s == Statement(c, c.repeat)
      <4>1. StatementsOf(k, c) = << s >>
        BY <3>2 DEF StatementsOf
      <4>2. s \in U
        BY <2>2
      <4> HIDE DEF s
      <4> QED BY <4>1, <4>2
    <3> QED BY <3>1, <3>2
  <2> QED BY <2>3 DEF c
<1> HIDE DEF U
<1>4. seqs \in Seq(Seq(U)) /\ Len(seqs) = n /\ \A k \in 1 .. n : seqs[k] = StatementsOf(k, out[k])
  <2>1. seqs \in [1 .. n -> Seq(U)]
    BY <1>2, <1>3
  <2>2. \A k \in 1 .. n : seqs[k] = StatementsOf(k, out[k])
    BY <1>2
  <2> HIDE DEF n, seqs
  <2> QED BY <1>2, <2>1, <2>2, FunctionIsSeq
<1>5. PICK F \in [0 .. n -> Seq(U)] :
        /\ F[0] = << >> /\ \A k \in 1 .. n : F[k] = F[k - 1] \o seqs[k]
        /\ FlattenSeq(seqs) = F[n]
  <2> HIDE DEF n, seqs
  <2> QED BY <1>4, FlattenPrefixes
<1> HIDE DEF seqs
<1>6. \A statements \in Seq(U), s \in U : Ran(Append(statements, s)) = RunStatement(Ran(statements), s)
  BY RunFold!FoldAppend DEF RunStep
<1>7. \A statements : EdgesOf(statements) = Ran(statements).edges
  BY DEF EdgesOf, TesterStart, RunBase, RunStep, RunFold!Fold, FoldLeft, RunFold!FoldLeft,
         MapThenFoldSet, RunFold!MapThenFoldSet, Max, RunFold!Max
<1>8. Ran(<< >>) = TesterStart /\ Tested(<< >>) = TesterStart
  BY RunFold!FoldEmpty, TesterFold!FoldEmpty DEF RunBase, Tested
<1> HIDE DEF Ran
<1> DEFINE Caught(k) == k <= n => Ran(F[k]) = Tested(SubSeq(out, 1, k))
           P == {k \in Nat : Caught(k)}
<1>9. Caught(0)
  <2>1. SubSeq(out, 1, 0) = << >>
    BY SubSeqEmpty
  <2> QED BY <1>5, <1>8, <2>1
<1>10. ASSUME NEW k \in Nat, Caught(k) PROVE Caught(k + 1)
  <2> SUFFICES ASSUME k + 1 <= n PROVE Ran(F[k + 1]) = Tested(SubSeq(out, 1, k + 1))
    OBVIOUS
  <2> DEFINE c == out[k + 1]  t == SubSeq(out, 1, k)
  <2>1. k < Len(out) /\ k <= n /\ k + 1 \in 1 .. n /\ k \in 0 .. n /\ (k + 1) - 1 = k
    BY <1>2
  <2>2. t \in Seq(S) /\ c \in S /\ SubSeq(out, 1, k + 1) = Append(t, c)
    BY <1>1, <2>1, OneLonger
  <2>3. c.repeat \in Nat
    BY <1>1, <2>2
  <2>4. Tested(SubSeq(out, 1, k + 1)) = RunStatement(Tested(t), Statement(c, c.repeat))
    <3>1. Vectors(t)
      BY <1>1, <2>2 DEF Vectors
    <3> HIDE DEF t, c
    <3> QED BY <2>2, <2>3, <3>1, TestedOn
  <2>5. F[k + 1] = F[k] \o StatementsOf(k + 1, c) /\ F[k] \in Seq(U) /\ StatementsOf(k + 1, c) \in Seq(U)
    BY <1>3, <1>4, <1>5, <2>1
  <2>6. Ran(F[k]) = Tested(t)
    BY <1>10, <2>1
  <2> HIDE DEF t, c, n
  <2>7. CASE k + 1 = 1 /\ c.repeat > 1
    <3> DEFINE s1 == Statement(c, 1)  s2 == Statement(c, c.repeat - 1)
    <3>1. StatementsOf(k + 1, c) = << s1, s2 >> /\ c.repeat - 1 \in Nat /\ (c.repeat - 1) + 1 = c.repeat
      BY <2>3, <2>7 DEF StatementsOf
    <3>2. s1 \in U /\ s2 \in U
      BY <2>2, <3>1 DEF U
    <3> HIDE DEF s1, s2
    <3>3. F[k] \o << s1, s2 >> = Append(Append(F[k], s1), s2) /\ Append(F[k], s1) \in Seq(U)
      BY <2>5, <3>2
    <3>4. Ran(F[k + 1]) = RunStatement(RunStatement(Ran(F[k]), s1), s2)
      BY <1>6, <2>5, <3>1, <3>2, <3>3
    <3>5. RunStatement(RunStatement(Tested(t), s1), s2) = RunStatement(Tested(t), Statement(c, c.repeat))
      BY <3>1, LoopOpened DEF s1, s2
    <3> QED BY <2>4, <2>6, <3>4, <3>5
  <2>8. CASE ~(k + 1 = 1 /\ c.repeat > 1)
    <3> DEFINE s == Statement(c, c.repeat)
    <3>1. StatementsOf(k + 1, c) = << s >>
      BY <2>8 DEF StatementsOf
    <3>2. s \in U
      BY <2>2, <2>3 DEF U
    <3> HIDE DEF s
    <3>3. F[k] \o << s >> = Append(F[k], s)
      BY <2>5, <3>2
    <3>4. Ran(F[k + 1]) = RunStatement(Ran(F[k]), s)
      BY <1>6, <2>5, <3>1, <3>2, <3>3
    <3> QED BY <2>4, <2>6, <3>4 DEF s
  <2> QED BY <2>7, <2>8
<1>11. n \in P
  <2> HIDE DEF Caught
  <2>1. 0 \in P /\ \A k \in Nat : k \in P => k + 1 \in P
    BY <1>9, <1>10
  <2> HIDE DEF P
  <2>2. Nat \subseteq P
    BY <2>1, Induction
  <2> QED BY <1>2, <2>2
<1>12. Ran(FlattenSeq(seqs)) = Tested(out)
  <2>1. Ran(F[n]) = Tested(SubSeq(out, 1, n))
    BY <1>2, <1>11
  <2>2. SubSeq(out, 1, n) = out
    BY <1>1, SubSeqFull
  <2> QED BY <1>5, <2>1, <2>2
<1> QED BY <1>7, <1>12 DEF seqs

\* The pins a pattern has besides the TAP's.
PinNames == DOMAIN Inputs \cup OtherPins

\* A tester that drives the declared inputs from static holds the pins at these
\* levels.
Holding(acc, static, held) ==
  /\ held = [p \in PinNames |-> held[p]]
  /\ static = [p \in DOMAIN Inputs |-> held[p]]
  /\ DOMAIN acc.levels = PinNames
  /\ \A p \in PinNames \ DOMAIN Inputs : acc.levels[p] = held[p]
  /\ Sequence(acc.edges)

\* A TCK vector is an edge at these levels, which it leaves.
LEMMA TckVector ==
  ASSUME NEW acc, NEW static, NEW held, Holding(acc, static, held), NEW cycle,
         cycle.table = "tck", cycle.hold = << >>, cycle.static = static
  PROVE  /\ RunVector(acc, cycle).edges
              = Append(acc.edges, Edge("tck", cycle.tms, cycle.tdi, cycle.bit, held))
         /\ Holding(RunVector(acc, cycle), static, held)
<1>1. /\ held = [p \in PinNames |-> held[p]]
      /\ static = [p \in DOMAIN Inputs |-> held[p]]
      /\ DOMAIN acc.levels = PinNames
      /\ \A p \in PinNames \ DOMAIN Inputs : acc.levels[p] = held[p]
      /\ Sequence(acc.edges)
  BY DEF Holding
<1>2. DOMAIN Inputs \subseteq PinNames /\ "tck" \notin PinNames
  BY PlayAssumption DEF PinNames
<1> DEFINE over == Over(static, acc.levels)  levels == Over(<< >>, over)
<1>3. DOMAIN over = PinNames /\ \A p \in PinNames : over[p] = held[p]
  <2>1. DOMAIN static = DOMAIN Inputs /\ \A p \in DOMAIN Inputs : static[p] = held[p]
    BY <1>1
  <2>2. DOMAIN over = PinNames
    BY <1>1, <1>2, <2>1 DEF Over
  <2>3. ASSUME NEW p \in PinNames PROVE over[p] = held[p]
    <3>1. CASE p \in DOMAIN Inputs
      BY <2>1, <3>1 DEF Over
    <3>2. CASE p \notin DOMAIN Inputs
      <4>1. p \in DOMAIN acc.levels \ DOMAIN static /\ acc.levels[p] = held[p]
        BY <1>1, <2>1, <3>2
      <4> QED BY <4>1 DEF Over
    <3> QED BY <3>1, <3>2
  <2> QED BY <2>2, <2>3
<1> HIDE DEF over
<1>4. DOMAIN levels = PinNames /\ levels = held
  <2>1. DOMAIN << >> = {}
    OBVIOUS
  <2>2. DOMAIN levels = PinNames /\ levels = [p \in PinNames |-> levels[p]]
    BY <1>3, <2>1 DEF Over
  <2>3. ASSUME NEW p \in PinNames PROVE levels[p] = held[p]
    <3>1. p \in DOMAIN over \ DOMAIN << >>
      BY <1>3, <2>1
    <3> QED BY <1>3, <3>1 DEF Over
  <2> HIDE DEF levels
  <2> QED BY <1>1, <2>2, <2>3
<1>5. VectorLevels(cycle, acc.levels) = held
  BY <1>4 DEF VectorLevels, over
<1> HIDE DEF levels
<1> DEFINE after == RunVector(acc, cycle)
           none == [p \in {} |-> 0]  edge == Edge("tck", cycle.tms, cycle.tdi, cycle.bit, held)
<1>6. {"tck"} \cap DOMAIN held = {} /\ DOMAIN held = PinNames
  BY <1>1, <1>2
<1>7. after.edges = Append(acc.edges, edge) /\ after.levels = Over(none, held)
  <2> DEFINE out == {cycle.table} \cap DOMAIN held
             still == [p \in (DOMAIN held) \ out |-> held[p]]
  <2>1. after = [levels |-> Over([p \in out |-> 0], held),
                 edges |-> Append(acc.edges,
                             Edge(cycle.table, cycle.tms, cycle.tdi, cycle.bit, still))]
    BY <1>5 DEF RunVector
  <2>2. out = {}
    BY <1>6
  <2>3. still = held
    <3>1. (DOMAIN held) \ out = PinNames
      BY <1>6, <2>2
    <3> HIDE DEF out
    <3> QED BY <1>1, <3>1
  <2> HIDE DEF out, still, after
  <2> QED BY <2>1, <2>2, <2>3
<1>8. DOMAIN after.levels = PinNames /\ \A p \in PinNames : after.levels[p] = held[p]
  <2>1. DOMAIN none = {}
    OBVIOUS
  <2> HIDE DEF after, none
  <2> QED BY <1>6, <1>7, <2>1 DEF Over
<1>9. Sequence(after.edges)
  <2> HIDE DEF after, edge
  <2>1. Sequence(Append(acc.edges, edge))
    BY <1>1, StillSequence, Zenon
  <2> QED BY <1>7, <2>1, Zenon
<1> QED BY <1>1, <1>7, <1>8, <1>9 DEF Holding

\* What a PulsePin leaves of the pins' levels.
PulseLeaves(op, held) ==
  [p \in PinNames |-> IF p \in DOMAIN Inputs THEN held[p]
                      ELSE IF p = op.port THEN 0 ELSE Over(op.hold, held)[p]]
PulseEdge(op, held) ==
  Edge(op.port, 0, 0, 0, [p \in PinNames \ {op.port} |-> Over(op.hold, held)[p]])

\* A PulsePin's vector is an edge of its port, the first of them as the others.
LEMMA PulseVector ==
  ASSUME NEW acc, NEW static, NEW held, NEW op \in PinOps, op.kind = "pulse",
         Holding(acc, static, held) \/ Holding(acc, static, PulseLeaves(op, held)),
         held = [p \in PinNames |-> held[p]]
  PROVE  LET after == RunVector(acc, PulseCycle(op, static)) IN
         /\ after.edges = Append(acc.edges, PulseEdge(op, held))
         /\ Holding(after, static, PulseLeaves(op, held))
<1> DEFINE left == PulseLeaves(op, held)  over == Over(op.hold, held)  cycle == PulseCycle(op, static)
           after == RunVector(acc, cycle)
<1>1. DOMAIN op.hold \subseteq PinNames /\ DOMAIN Inputs \subseteq PinNames
  BY PlayAssumption DEF PinNames
<1>2. DOMAIN over = PinNames
  <2>1. DOMAIN op.hold \cup DOMAIN held = PinNames
    BY <1>1
  <2> QED BY <2>1 DEF Over
<1>3. /\ left = [p \in PinNames |-> left[p]]
      /\ \A p \in DOMAIN Inputs : left[p] = held[p]
      /\ \A p \in PinNames \ DOMAIN Inputs : left[p] = IF p = op.port THEN 0 ELSE over[p]
  BY <1>1 DEF PulseLeaves
<1>4. /\ static = [p \in DOMAIN Inputs |-> held[p]] /\ DOMAIN acc.levels = PinNames
      /\ \A p \in PinNames \ DOMAIN Inputs :
           p # op.port /\ p \notin DOMAIN op.hold => acc.levels[p] = held[p]
      /\ Sequence(acc.edges)
  <2>1. CASE Holding(acc, static, held)
    BY <2>1 DEF Holding
  <2>2. CASE Holding(acc, static, left)
    <3>1. /\ static = [p \in DOMAIN Inputs |-> left[p]] /\ DOMAIN acc.levels = PinNames
          /\ \A p \in PinNames \ DOMAIN Inputs : acc.levels[p] = left[p]
          /\ Sequence(acc.edges)
      BY <2>2 DEF Holding
    <3>2. \A p \in PinNames : p \notin DOMAIN op.hold => over[p] = held[p]
      <4> TAKE p \in PinNames
      <4> HAVE p \notin DOMAIN op.hold
      <4>1. p \in DOMAIN held \ DOMAIN op.hold
        OBVIOUS
      <4> QED BY <4>1 DEF Over
    <3> HIDE DEF left, over
    <3> QED BY <1>3, <3>1, <3>2
  <2> QED BY <2>1, <2>2
<1> HIDE DEF left
<1> DEFINE driven == Over(static, acc.levels)  levels == Over(op.hold, driven)
<1>5. /\ DOMAIN static = DOMAIN Inputs /\ DOMAIN driven = PinNames
      /\ DOMAIN levels = PinNames
  <2>1. DOMAIN static = DOMAIN Inputs
    BY <1>4
  <2>2. DOMAIN driven = PinNames
    BY <1>1, <1>4, <2>1 DEF Over
  <2> HIDE DEF driven
  <2> QED BY <1>1, <2>1, <2>2 DEF Over
<1>6. ASSUME NEW p \in PinNames, p # op.port PROVE levels[p] = over[p]
  <2>1. CASE p \in DOMAIN op.hold
    BY <2>1 DEF Over
  <2>2. CASE p \notin DOMAIN op.hold
    <3>1. over[p] = held[p]
      <4>1. p \in DOMAIN held \ DOMAIN op.hold
        BY <2>2
      <4> QED BY <4>1 DEF Over
    <3>2. driven[p] = held[p]
      <4>1. CASE p \in DOMAIN Inputs
        <5>1. p \in DOMAIN static /\ static[p] = held[p]
          BY <1>4, <1>5, <4>1
        <5> QED BY <5>1 DEF Over
      <4>2. CASE p \notin DOMAIN Inputs
        <5>1. p \in DOMAIN acc.levels \ DOMAIN static /\ acc.levels[p] = held[p]
          BY <1>4, <1>5, <1>6, <2>2, <4>2
        <5> QED BY <5>1 DEF Over
      <4> QED BY <4>1, <4>2
    <3>3. levels[p] = driven[p]
      <4>1. p \in DOMAIN driven \ DOMAIN op.hold
        BY <1>5, <2>2
      <4> QED BY <4>1 DEF Over
    <3> QED BY <3>1, <3>2, <3>3
  <2> QED BY <2>1, <2>2
<1>7. VectorLevels(cycle, acc.levels) = levels /\ cycle.table = op.port
      /\ cycle.tms = 0 /\ cycle.tdi = 0 /\ cycle.bit = 0
  BY DEF VectorLevels, PulseCycle
<1> HIDE DEF driven, cycle, levels
<1> DEFINE pulsed == {op.port} \cap PinNames  low == [p \in pulsed |-> 0]
<1>8. /\ after.edges = Append(acc.edges, Edge(op.port, 0, 0, 0, [p \in PinNames \ pulsed |-> levels[p]]))
      /\ after.levels = Over(low, levels)
  BY <1>5, <1>7 DEF RunVector
<1> HIDE DEF after, over
<1>9. [p \in PinNames \ pulsed |-> levels[p]] = [p \in PinNames \ {op.port} |-> over[p]]
  BY <1>6
<1>10. after.edges = Append(acc.edges, PulseEdge(op, held))
  BY <1>8, <1>9 DEF PulseEdge, over
<1>11. DOMAIN after.levels = PinNames /\ \A p \in PinNames \ DOMAIN Inputs : after.levels[p] = left[p]
  <2>1. DOMAIN low = pulsed
    OBVIOUS
  <2>2. DOMAIN after.levels = PinNames
    <3>1. pulsed \cup PinNames = PinNames
      OBVIOUS
    <3> HIDE DEF low, pulsed
    <3> QED BY <1>5, <1>8, <2>1, <3>1 DEF Over
  <2>3. ASSUME NEW p \in PinNames \ DOMAIN Inputs PROVE after.levels[p] = left[p]
    <3>1. CASE p = op.port
      <4>1. p \in DOMAIN low /\ low[p] = 0
        BY <3>1
      <4> HIDE DEF low, pulsed
      <4>2. after.levels[p] = low[p]
        BY <1>8, <4>1 DEF Over
      <4> QED BY <1>3, <3>1, <4>1, <4>2
    <3>2. CASE p # op.port
      <4>1. p \in DOMAIN levels \ DOMAIN low
        BY <1>5, <3>2
      <4> HIDE DEF low, pulsed
      <4>2. after.levels[p] = levels[p]
        BY <1>8, <4>1 DEF Over
      <4> QED BY <1>3, <1>6, <3>2, <4>2
    <3> QED BY <3>1, <3>2
  <2> QED BY <2>2, <2>3
<1>12. static = [p \in DOMAIN Inputs |-> left[p]]
  BY <1>3, <1>4
<1>13. Sequence(after.edges)
  <2>1. Sequence(Append(acc.edges, PulseEdge(op, held)))
    BY <1>4, StillSequence, Zenon
  <2> QED BY <1>10, <2>1, Zenon
<1>14. Holding(after, static, left)
  BY <1>3, <1>11, <1>12, <1>13 DEF Holding
<1> QED BY <1>10, <1>14 DEF after, cycle, left

\* One more element at the end of a row appended to another.
LEMMA ConcatAppend ==
  ASSUME NEW S, NEW a \in Seq(S), NEW t \in Seq(S), NEW x \in S
  PROVE  /\ a \o Append(t, x) = Append(a \o t, x)
         /\ a \o t \in Seq(S) /\ Append(t, x) \in Seq(S) /\ a \o << >> = a
<1>1. a \o t \in Seq(S) /\ << x >> \in Seq(S) /\ Append(t, x) \in Seq(S)
  BY ConcatProperties
<1>2. Append(t, x) = t \o << x >> /\ Append(a \o t, x) = (a \o t) \o << x >>
  BY <1>1, AppendIsConcat
<1>3. (a \o t) \o << x >> = a \o (t \o << x >>)
  BY <1>1, ConcatAssociative
<1> QED BY <1>1, <1>2, <1>3, ConcatEmptySeq, Zenon

\* A vector is this edge at these levels, and at those it leaves the pins at.
Gives(cycle, static, held, left, edge) ==
  \A a : Holding(a, static, held) \/ Holding(a, static, left) =>
           /\ RunVector(a, cycle).edges = Append(a.edges, edge)
           /\ Holding(RunVector(a, cycle), static, left)
Copies(n, edge) == [i \in 1 .. n |-> edge]

\* What a vector does at these levels it does as often as it is repeated.
LEMMA Repeating ==
  ASSUME NEW acc, NEW cycle, NEW static, NEW held, NEW left, NEW edge,
         Holding(acc, static, held), Gives(cycle, static, held, left, edge), NEW n \in Nat
  PROVE  /\ RunStatement(acc, Statement(cycle, n)).edges = acc.edges \o Copies(n, edge)
         /\ IF n = 0 THEN RunStatement(acc, Statement(cycle, n)) = acc
                     ELSE Holding(RunStatement(acc, Statement(cycle, n)), static, left)
<1>1. PICK S : acc.edges \in Seq(S)
  BY DEF Holding, Sequence
<1> DEFINE T == S \cup {edge}
<1>2. acc.edges \in Seq(T) /\ edge \in T
  BY <1>1
<1> HIDE DEF T
<1> DEFINE After_(k) == RunStatement(acc, Statement(cycle, k))
           Times(k) == [i \in 1 .. k |-> edge]
           Right(k) == /\ After_(k).edges = acc.edges \o Times(k)
                       /\ IF k = 0 THEN After_(k) = acc ELSE Holding(After_(k), static, left)
           P == {k \in Nat : Right(k)}
<1>3. \A k \in Nat : Times(k) \in Seq(T) /\ Len(Times(k)) = k /\ Times(k + 1) = Append(Times(k), edge)
  <2> TAKE k \in Nat
  <2>1. Times(k) \in [1 .. k -> T] /\ Times(k + 1) \in [1 .. k + 1 -> T] /\ k + 1 \in Nat
    BY <1>2
  <2>2. Times(k) \in Seq(T) /\ Len(Times(k)) = k /\ Times(k + 1) \in Seq(T) /\ Len(Times(k + 1)) = k + 1
    <3> HIDE DEF Times
    <3> QED BY <2>1, FunctionIsSeq
  <2>3. (\A i \in 1 .. k : Times(k)[i] = edge) /\ \A i \in 1 .. k + 1 : Times(k + 1)[i] = edge
    OBVIOUS
  <2> DEFINE s == Times(k)  t == Times(k + 1)
  <2> HIDE DEF Times
  <2>4. /\ Append(s, edge) \in Seq(T) /\ Len(Append(s, edge)) = k + 1
        /\ \A i \in 1 .. k : Append(s, edge)[i] = s[i]
        /\ Append(s, edge)[k + 1] = edge
    BY <1>2, <2>2, AppendProperties
  <2>5. \A i \in 1 .. k + 1 : t[i] = Append(s, edge)[i]
    <3> HIDE DEF s, t
    <3> TAKE i \in 1 .. k + 1
    <3>1. i \in 1 .. k \/ i = k + 1
      OBVIOUS
    <3>2. (\A j \in 1 .. k : s[j] = edge) /\ t[i] = edge
      BY <2>3 DEF s, t
    <3> QED BY <2>4, <3>1, <3>2
  <2>6. t = Append(s, edge)
    <3>1. t \in Seq(T) /\ Len(t) = k + 1
      BY <2>2
    <3> HIDE DEF s, t
    <3> QED BY <2>4, <2>5, <3>1, SeqEqual
  <2> QED BY <2>2, <2>6
<1>4. Right(0)
  <2>1. After_(0) = acc
    BY Repeated
  <2>2. Times(0) = << >>
    OBVIOUS
  <2>3. acc.edges \o << >> = acc.edges
    BY <1>2, ConcatEmptySeq
  <2> HIDE DEF After_, Times
  <2> QED BY <2>1, <2>2, <2>3
<1>5. ASSUME NEW k \in Nat, Right(k) PROVE Right(k + 1)
  <2>1. After_(k + 1) = RunVector(After_(k), cycle)
    BY Repeated
  <2>2. Holding(After_(k), static, held) \/ Holding(After_(k), static, left)
    <3> HIDE DEF After_
    <3> QED BY <1>5
  <2>3. After_(k + 1).edges = Append(After_(k).edges, edge) /\ Holding(After_(k + 1), static, left)
    <3> HIDE DEF After_
    <3> QED BY <2>1, <2>2 DEF Gives
  <2>4. After_(k).edges = acc.edges \o Times(k)
    BY <1>5
  <2> HIDE DEF After_, Times
  <2>5. Times(k) \in Seq(T) /\ Times(k + 1) = Append(Times(k), edge) /\ k + 1 # 0
    <3>1. k + 1 # 0
      OBVIOUS
    <3> QED BY <1>3, <3>1
  <2>6. acc.edges \o Append(Times(k), edge) = Append(acc.edges \o Times(k), edge)
    <3>1. \A a, t \in Seq(T) : a \o Append(t, edge) = Append(a \o t, edge)
      BY <1>2, ConcatAppend
    <3> QED BY <1>2, <2>5, <3>1, Zenon
  <2> QED BY <2>3, <2>4, <2>5, <2>6
<1>6. n \in P
  <2> HIDE DEF Right
  <2>1. 0 \in P /\ \A k \in Nat : k \in P => k + 1 \in P
    BY <1>4, <1>5
  <2> HIDE DEF P
  <2>2. Nat \subseteq P
    BY <2>1, Induction
  <2> QED BY <2>2
<1>7. Right(n)
  <2> HIDE DEF Right
  <2> QED BY <1>6
<1> HIDE DEF After_, Times
<1>8. After_(n).edges = acc.edges \o Times(n) /\ IF n = 0 THEN After_(n) = acc ELSE Holding(After_(n), static, left)
  BY <1>7
<1> QED BY <1>8 DEF After_, Times, Copies

\* The edges a run of cycles is, every other pin at these levels.
Told(sent, shifts, held) ==
  [i \in 1 .. Len(sent) |->
     Edge("tck", sent[i][1], sent[i][2], IF shifts THEN i ELSE 0, held)]

\* The vectors of a run of cycles.
VectorsOf(sent, shifts, static) ==
  [i \in DOMAIN sent |->
     JtagCycle(sent[i][1], sent[i][2], IF shifts THEN i ELSE 0, static, 1)]

\* The vectors of an operation's cycles are the operation's edges.
LEMMA VectorsSent ==
  ASSUME NEW out, Vectors(out), NEW static, NEW held, Holding(Tested(out), static, held),
         NEW sent \in Seq(Cycle), NEW shifts
  PROVE  LET both == out \o VectorsOf(sent, shifts, static) IN
         /\ Vectors(both) /\ Holding(Tested(both), static, held)
         /\ Tested(both).edges = Tested(out).edges \o Told(sent, shifts, held)
<1> DEFINE vs == VectorsOf(sent, shifts, static)  n == Len(sent)  told == Told(sent, shifts, held)
           c(i) == JtagCycle(sent[i][1], sent[i][2], IF shifts THEN i ELSE 0, static, 1)
           e(i) == Edge("tck", sent[i][1], sent[i][2], IF shifts THEN i ELSE 0, held)
<1>1. n \in Nat /\ DOMAIN sent = 1 .. n
  OBVIOUS
<1>2. PICK S : out \in Seq(S) /\ \A d \in S : d.repeat \in Nat
  BY DEF Vectors
<1>3. PICK E : Tested(out).edges \in Seq(E)
  BY DEF Holding, Sequence
<1> DEFINE V == S \cup {c(i) : i \in 1 .. n}  F == E \cup {e(i) : i \in 1 .. n}
<1>4. \A i : /\ c(i).repeat = 1 /\ c(i).table = "tck" /\ c(i).hold = << >> /\ c(i).static = static
             /\ c(i).tms = sent[i][1] /\ c(i).tdi = sent[i][2]
             /\ c(i).bit = IF shifts THEN i ELSE 0
  BY DEF JtagCycle
<1>5. vs \in [1 .. n -> V] /\ \A i \in 1 .. n : vs[i] = c(i)
  BY <1>1 DEF VectorsOf
<1>6. told \in [1 .. n -> F] /\ \A i \in 1 .. n : told[i] = e(i)
  BY <1>1 DEF Told
<1>7. /\ out \in Seq(V) /\ (\A d \in V : d.repeat \in Nat) /\ Tested(out).edges \in Seq(F)
      /\ \A i \in 1 .. n : c(i) \in V /\ e(i) \in F
  <2>1. \A i : c(i).repeat \in Nat
    BY <1>4
  <2> HIDE DEF c, e
  <2> QED BY <1>2, <1>3, <2>1
<1> HIDE DEF told, vs, V, F, n
<1>8. vs \in Seq(V) /\ Len(vs) = n /\ told \in Seq(F) /\ Len(told) = n
  BY <1>1, <1>5, <1>6, FunctionIsSeq
<1> DEFINE Head_(k) == out \o SubSeq(vs, 1, k)
           Sent_(k) == /\ Vectors(Head_(k)) /\ Holding(Tested(Head_(k)), static, held)
                       /\ Tested(Head_(k)).edges = Tested(out).edges \o SubSeq(told, 1, k)
           Right(k) == k <= n => Sent_(k)
           P == {k \in Nat : Right(k)}
<1>9. Right(0)
  <2>1. SubSeq(vs, 1, 0) = << >> /\ SubSeq(told, 1, 0) = << >>
    BY SubSeqEmpty
  <2>2. out \o << >> = out /\ Tested(out).edges \o << >> = Tested(out).edges
    BY <1>7, ConcatEmptySeq
  <2>3. Head_(0) = out
    BY <2>1, <2>2
  <2> HIDE DEF Head_
  <2> QED BY <2>1, <2>2, <2>3
<1>10. ASSUME NEW k \in Nat, Right(k) PROVE Right(k + 1)
  <2> SUFFICES ASSUME k + 1 <= n PROVE Sent_(k + 1)
    OBVIOUS
  <2>1. k <= n /\ k < Len(vs) /\ k < Len(told) /\ k + 1 \in 1 .. n
    BY <1>1, <1>8
  <2> DEFINE t == SubSeq(vs, 1, k)  d == SubSeq(told, 1, k)  x == c(k + 1)  y == e(k + 1)
  <2>2. /\ t \in Seq(V) /\ SubSeq(vs, 1, k + 1) = Append(t, vs[k + 1])
        /\ d \in Seq(F) /\ SubSeq(told, 1, k + 1) = Append(d, told[k + 1])
    BY <1>8, <2>1, OneLonger
  <2>3. SubSeq(vs, 1, k + 1) = Append(t, x) /\ SubSeq(told, 1, k + 1) = Append(d, y)
    BY <1>5, <1>6, <2>1, <2>2
  <2>4. x \in V /\ y \in F
    BY <1>7, <2>1
  <2> DEFINE h == Head_(k)
  <2>5. /\ Vectors(h) /\ Holding(Tested(h), static, held)
        /\ Tested(h).edges = Tested(out).edges \o d
    BY <1>10, <2>1
  <2>6. h = out \o t
    OBVIOUS
  <2>7. Head_(k + 1) = Append(h, x)
    <3> HIDE DEF t, x, h, c
    <3>1. Head_(k + 1) = out \o Append(t, x)
      BY <2>3
    <3>2. out \o Append(t, x) = Append(out \o t, x)
      <4>1. \A a, b \in Seq(V) : a \o Append(b, x) = Append(a \o b, x)
        BY <2>4, ConcatAppend
      <4> QED BY <1>7, <2>2, <4>1, Zenon
    <3> QED BY <2>6, <3>1, <3>2
  <2>8. /\ x.table = "tck" /\ x.hold = << >> /\ x.static = static /\ x.repeat = 1
        /\ y = Edge("tck", x.tms, x.tdi, x.bit, held)
    BY <1>4
  <2> HIDE DEF Head_, h, x, y, t, d, c, e
  <2>9. Vectors(Append(h, x)) /\ Tested(Append(h, x)) = RunVector(Tested(h), x)
    <3>1. x.repeat \in Nat
      BY <2>8
    <3>2. Vectors(Append(h, x)) /\ Tested(Append(h, x)) = RunStatement(Tested(h), Statement(x, 1))
      BY <2>5, <2>8, <3>1, TestedOn
    <3>3. /\ RunStatement(Tested(h), Statement(x, 0)) = Tested(h)
          /\ RunStatement(Tested(h), Statement(x, 0 + 1))
               = RunVector(RunStatement(Tested(h), Statement(x, 0)), x)
      BY Repeated
    <3>4. 0 + 1 = 1
      OBVIOUS
    <3> QED BY <3>2, <3>3, <3>4
  <2>10. RunVector(Tested(h), x).edges = Append(Tested(h).edges, y)
         /\ Holding(RunVector(Tested(h), x), static, held)
    BY <2>5, <2>8, TckVector
  <2>11. Append(Tested(out).edges \o d, y) = Tested(out).edges \o Append(d, y)
    <3>1. \A a, b \in Seq(F) : a \o Append(b, y) = Append(a \o b, y)
      BY <2>4, ConcatAppend
    <3> QED BY <1>7, <2>2, <3>1, Zenon
  <2> QED BY <2>3, <2>5, <2>7, <2>9, <2>10, <2>11
<1>11. n \in P
  <2> HIDE DEF Right
  <2>1. 0 \in P /\ \A k \in Nat : k \in P => k + 1 \in P
    BY <1>9, <1>10
  <2> HIDE DEF P
  <2>2. Nat \subseteq P
    BY <2>1, Induction
  <2> QED BY <1>1, <2>2
<1>12. Sent_(n)
  <2> HIDE DEF Sent_
  <2>1. Right(n)
    <3> HIDE DEF Right
    <3> QED BY <1>11
  <2>2. n <= n
    BY <1>1
  <2> QED BY <2>1, <2>2
<1>13. SubSeq(vs, 1, n) = vs /\ SubSeq(told, 1, n) = told
  BY <1>8, SubSeqFull
<1> QED BY <1>12, <1>13 DEF told, vs

\* Waiting in place, cycle by cycle.
Waits(n) == [i \in 1 .. n |-> <<0, 0>>]

\* One cycle more of waiting.
LEMMA WaitsOn ==
  ASSUME NEW n \in Nat
  PROVE  /\ Waits(n) \in Seq(Cycle) /\ Len(Waits(n)) = n /\ Waits(0) = << >>
         /\ <<0, 0>> \in Cycle /\ Waits(n + 1) = Append(Waits(n), <<0, 0>>)
<1>1. <<0, 0>> \in Cycle /\ n + 1 \in Nat
  BY DEF Cycle, Bits
<1>2. /\ Waits(n) \in [1 .. n -> Cycle] /\ \A i \in 1 .. n : Waits(n)[i] = <<0, 0>>
      /\ Waits(n + 1) \in [1 .. n + 1 -> Cycle] /\ \A i \in 1 .. n + 1 : Waits(n + 1)[i] = <<0, 0>>
  BY <1>1 DEF Waits
<1>3. /\ Waits(n) \in Seq(Cycle) /\ Len(Waits(n)) = n
      /\ Waits(n + 1) \in Seq(Cycle) /\ Len(Waits(n + 1)) = n + 1
  BY <1>1, <1>2, FunctionIsSeq
<1> DEFINE z == <<0, 0>>  s == Waits(n)  t == Waits(n + 1)
<1>4. s \in Seq(Cycle) /\ Len(s) = n /\ t \in Seq(Cycle) /\ Len(t) = n + 1 /\ z \in Cycle
      /\ (\A i \in 1 .. n : s[i] = z) /\ \A i \in 1 .. n + 1 : t[i] = z
  BY <1>1, <1>2, <1>3
<1> HIDE DEF z, s, t
<1>5. /\ Append(s, z) \in Seq(Cycle) /\ Len(Append(s, z)) = n + 1
      /\ \A i \in 1 .. n : Append(s, z)[i] = s[i]
      /\ Append(s, z)[n + 1] = z
  BY <1>4, AppendProperties
<1>6. \A i \in 1 .. n + 1 : t[i] = Append(s, z)[i]
  <2> TAKE i \in 1 .. n + 1
  <2>1. i \in 1 .. n \/ i = n + 1
    OBVIOUS
  <2> QED BY <1>4, <1>5, <2>1
<1>7. t = Append(s, z)
  BY <1>4, <1>5, <1>6, SeqEqual
<1>8. Waits(0) = << >>
  BY DEF Waits
<1> QED BY <1>1, <1>3, <1>7, <1>8 DEF z, s, t

\* Three cycles of waiting settle any state: to_stil need count no further.
LEMMA WaitsSettle ==
  ASSUME NEW from \in Tap!TapState, NEW n \in Nat
  PROVE  Settled(from, n) = Tracked(from, Waits(n))
<1> DEFINE WalkAt(k) == SettleFold!Fold(from, [i \in 1 .. k |-> i])
           m == IF n <= 3 THEN n ELSE 3
<1>1. WalkAt(0) = from /\ \A k \in Nat : WalkAt(k + 1) = Tap!next_state(WalkAt(k), 0)
  <2>1. WalkAt(0) = from
    <3>1. SettleFold!Fold(from, << >>) = from
      BY SettleFold!FoldEmpty DEF RunBase
    <3> QED BY <3>1, CountOn
  <2>2. ASSUME NEW k \in Nat PROVE WalkAt(k + 1) = Tap!next_state(WalkAt(k), 0)
    <3> DEFINE s == [i \in 1 .. k |-> i]
    <3>1. s \in Seq(Nat) /\ k + 1 \in Nat /\ [i \in 1 .. k + 1 |-> i] = Append(s, k + 1)
      BY CountOn
    <3> HIDE DEF s
    <3>2. SettleFold!Fold(from, Append(s, k + 1)) = SettleStep(from, SettleFold!Fold(from, s), k + 1)
      BY <3>1, SettleFold!FoldAppend
    <3>3. \A a, i : SettleStep(from, a, i) = Tap!next_state(a, 0)
      BY DEF SettleStep
    <3> QED BY <3>1, <3>2, <3>3 DEF s
  <2> QED BY <2>1, <2>2
<1>2. Min({n, 3}) = m
  <2> DEFINE x == CHOOSE x \in {n, 3} : \A y \in {n, 3} : x <= y
  <2>1. m \in {n, 3} /\ \A y \in {n, 3} : m <= y
    OBVIOUS
  <2> HIDE DEF m
  <2>2. x \in {n, 3} /\ \A y \in {n, 3} : x <= y
    BY <2>1
  <2>3. Min({n, 3}) = x
    BY DEF Min
  <2> HIDE DEF x
  <2> QED BY <2>1, <2>2, <2>3
<1>3. Settled(from, n) = WalkAt(m)
  <2>1. \A f, k : FoldLeft(LAMBDA s, i : Tap!next_state(s, 0), f, [i \in 1 .. k |-> i])
                    = SettleFold!Fold(f, [i \in 1 .. k |-> i])
    BY DEF RunBase, SettleStep, SettleFold!Fold, FoldLeft, SettleFold!FoldLeft,
           MapThenFoldSet, SettleFold!MapThenFoldSet, Max, SettleFold!Max
  <2> HIDE DEF m
  <2> QED BY <1>2, <2>1 DEF Settled
<1> HIDE DEF WalkAt, m
<1> DEFINE Right(k) == Tracked(from, Waits(k)) = WalkAt(k)
           P == {k \in Nat : Right(k)}
<1>4. Right(0)
  BY <1>1, WaitsOn, TrackedOn
<1>5. ASSUME NEW k \in Nat, Right(k) PROVE Right(k + 1)
  <2> DEFINE z == <<0, 0>>
  <2>1. z \in Cycle /\ z[1] = 0 /\ Waits(k) \in Seq(Cycle) /\ Waits(k + 1) = Append(Waits(k), z)
    BY WaitsOn
  <2> HIDE DEF z
  <2>2. Tracked(from, Append(Waits(k), z)) = Tap!next_state(Tracked(from, Waits(k)), z[1])
    BY <2>1, TrackedOn
  <2> QED BY <1>1, <1>5, <2>1, <2>2
<1>6. \A k \in Nat : Tracked(from, Waits(k)) = WalkAt(k)
  <2>1. 0 \in P /\ \A k \in Nat : k \in P => k + 1 \in P
    BY <1>4, <1>5
  <2> HIDE DEF P
  <2>2. Nat \subseteq P
    BY <2>1, Induction
  <2> QED BY <2>2 DEF P
<1>7. WalkAt(3) \in {"RUN_TEST_IDLE", "SHIFT_DR", "PAUSE_DR", "SHIFT_IR", "PAUSE_IR"}
  <2>1. WalkAt(1) = Tap!next_state(WalkAt(0), 0) /\ WalkAt(2) = Tap!next_state(WalkAt(1), 0)
        /\ WalkAt(3) = Tap!next_state(WalkAt(2), 0)
    <3>1. WalkAt(0 + 1) = Tap!next_state(WalkAt(0), 0) /\ WalkAt(1 + 1) = Tap!next_state(WalkAt(1), 0)
          /\ WalkAt(2 + 1) = Tap!next_state(WalkAt(2), 0)
      BY <1>1
    <3>2. 0 + 1 = 1 /\ 1 + 1 = 2 /\ 2 + 1 = 3
      OBVIOUS
    <3> QED BY <3>1, <3>2
  <2> DEFINE Near == {"RUN_TEST_IDLE", "SHIFT_DR", "PAUSE_DR", "SHIFT_IR", "PAUSE_IR"}
             Next_ == Near \cup {"CAPTURE_DR", "CAPTURE_IR"}
  <2>2. \A s \in Tap!TapState : Tap!next_state(s, 0) \in Next_
    BY DEF Tap!TapState, Tap!next_state, Tap!TRANSITIONS
  <2>3. \A s \in Next_ : Tap!next_state(s, 0) \in Near
    BY DEF Tap!next_state, Tap!TRANSITIONS
  <2>4. \A s \in Near : Tap!next_state(s, 0) \in Near
    BY DEF Tap!next_state, Tap!TRANSITIONS
  <2> HIDE DEF Near, Next_
  <2>5. WalkAt(3) \in Near
    BY <1>1, <2>1, <2>2, <2>3, <2>4
  <2> QED BY <2>5 DEF Near
<1> DEFINE Stays(j) == WalkAt(3 + j) = WalkAt(3)
           Q == {j \in Nat : Stays(j)}
<1>8. Stays(0)
  <2>1. 3 + 0 = 3
    OBVIOUS
  <2> QED BY <2>1
<1>9. ASSUME NEW j \in Nat, Stays(j) PROVE Stays(j + 1)
  <2>1. 3 + (j + 1) = (3 + j) + 1 /\ 3 + j \in Nat
    OBVIOUS
  <2>2. WalkAt((3 + j) + 1) = Tap!next_state(WalkAt(3 + j), 0)
    BY <1>1, <2>1
  <2>3. \A s \in {"RUN_TEST_IDLE", "SHIFT_DR", "PAUSE_DR", "SHIFT_IR", "PAUSE_IR"} :
          Tap!next_state(s, 0) = s
    BY DEF Tap!next_state, Tap!TRANSITIONS
  <2> QED BY <1>7, <1>9, <2>1, <2>2, <2>3
<1>10. \A j \in Nat : WalkAt(3 + j) = WalkAt(3)
  <2>1. 0 \in Q /\ \A j \in Nat : j \in Q => j + 1 \in Q
    BY <1>8, <1>9
  <2> HIDE DEF Q
  <2>2. Nat \subseteq Q
    BY <2>1, Induction
  <2> QED BY <2>2 DEF Q
<1>11. WalkAt(m) = WalkAt(n)
  <2>1. CASE n <= 3
    BY <2>1 DEF m
  <2>2. CASE ~(n <= 3)
    <3>1. m = 3 /\ n - 3 \in Nat /\ 3 + (n - 3) = n
      BY <2>2 DEF m
    <3>2. WalkAt(3 + (n - 3)) = WalkAt(3)
      BY <1>10, <3>1
    <3> QED BY <3>1, <3>2
  <2> QED BY <2>1, <2>2
<1> QED BY <1>3, <1>6, <1>11

\* An operation of a group that is not a whole program's.
Rendered(op) ==
  \/ op \in PinOps
  \/ op.kind \in {"goto", "shift"} /\ \A s : CyclesOf(op, s) \in Seq(Cycle)
  \/ op.kind = "runtest" /\ \E n \in Nat : \A s : CyclesOf(op, s) = Waits(n)

\* The edges an operation that sends these cycles means.
Meant(op, sends) ==
  IF op.kind = "pulse" THEN Pulses(op) ELSE Told(sends, op.kind = "shift", PinsAfter(op))

\* An operation whose cycles are vectors one by one.
CycleByCycle(op, sent) ==
  \/ op.kind \in {"goto", "shift"}
  \/ op.kind = "runtest" /\ sent = << >>
  \/ op.kind = "pulse" /\ ~(op.count > 0)

\* Where the walk is.
WalkAt(state_, static, out) == [state |-> state_, static |-> static, out |-> out]

\* What the walk does with each kind of operation.
LEMMA WalkKinds ==
  ASSUME NEW s, NEW static, NEW out, NEW op, NEW sent, sent = CyclesOf(op, s)
  PROVE  /\ op.kind = "runtest" /\ sent # << >> =>
              WalkOp(WalkAt(s, static, out), op)
                = WalkAt(Settled(s, Len(sent)), static,
                     Append(out, JtagCycle(0, 0, 0, static, Len(sent))))
         /\ op.kind = "pulse" /\ op.count > 0 =>
              WalkOp(WalkAt(s, static, out), op) = WalkAt(s, static, Append(out, PulseCycle(op, static)))
         /\ op.kind = "pins" =>
              WalkOp(WalkAt(s, static, out), op) = WalkAt(s, Snapshot(static, op.values), out)
         /\ CycleByCycle(op, sent) =>
              WalkOp(WalkAt(s, static, out), op)
                = WalkAt(Tracked(s, sent), static, out \o VectorsOf(sent, op.kind = "shift", static))
<1>1. ASSUME op.kind = "runtest", sent # << >>
      PROVE  WalkOp(WalkAt(s, static, out), op)
               = WalkAt(Settled(s, Len(sent)), static, Append(out, JtagCycle(0, 0, 0, static, Len(sent))))
  BY <1>1 DEF WalkOp, WalkAt
<1>2. ASSUME op.kind = "pulse", op.count > 0
      PROVE  WalkOp(WalkAt(s, static, out), op) = WalkAt(s, static, Append(out, PulseCycle(op, static)))
  BY <1>2 DEF WalkOp, WalkAt
<1>3. ASSUME op.kind = "pins"
      PROVE  WalkOp(WalkAt(s, static, out), op) = WalkAt(s, Snapshot(static, op.values), out)
  BY <1>3 DEF WalkOp, WalkAt
<1>4. ASSUME CycleByCycle(op, sent)
      PROVE  WalkOp(WalkAt(s, static, out), op)
               = WalkAt(Tracked(s, sent), static, out \o VectorsOf(sent, op.kind = "shift", static))
  BY <1>4 DEF CycleByCycle, WalkOp, WalkAt, VectorsOf
<1> QED BY <1>1, <1>2, <1>3, <1>4, Zenon

\* Where the walk's vectors leave a tester.
Renders(w, held) ==
  /\ w = WalkAt(w.state, w.static, w.out)
  /\ Vectors(w.out) /\ Holding(Tested(w.out), w.static, held)

\* An operation with cycles of its own.
LEMMA CyclesRendered ==
  ASSUME NEW w, Renders(w, pins), NEW op, NEW sent, sent \in Seq(Cycle), sent = CyclesOf(op, w.state),
         CycleByCycle(op, sent)
  PROVE  LET v == WalkOp(w, op) IN
         /\ Renders(v, pins)
         /\ Tested(v.out).edges = Tested(w.out).edges \o Told(sent, op.kind = "shift", pins)
         /\ v.state = Tracked(w.state, sent)
<1> DEFINE s == w.state  static == w.static  out == w.out  shifts == op.kind = "shift"
           vs == VectorsOf(sent, shifts, static)
<1>1. w = WalkAt(s, static, out) /\ Vectors(out) /\ Holding(Tested(out), static, pins)
  BY DEF Renders
<1> HIDE DEF vs, shifts, s, static, out
<1>3. /\ Vectors(out \o vs) /\ Holding(Tested(out \o vs), static, pins)
      /\ Tested(out \o vs).edges = Tested(out).edges \o Told(sent, shifts, pins)
  <2>1. PICK cs : cs = sent
    OBVIOUS
  <2>2. cs \in Seq(Cycle)
    BY <2>1
  <2>3. \A b : LET both == out \o VectorsOf(cs, b, static) IN
               /\ Vectors(both) /\ Holding(Tested(both), static, pins)
               /\ Tested(both).edges = Tested(out).edges \o Told(cs, b, pins)
    BY <1>1, <2>2, VectorsSent
  <2> QED BY <2>1, <2>3, Zenon DEF vs
<1>4. WalkOp(w, op) = WalkAt(Tracked(s, sent), static, out \o vs)
  BY <1>1, WalkKinds DEF vs, s, shifts
<1> DEFINE v == WalkAt(Tracked(s, sent), static, out \o vs)
<1>5. v.state = Tracked(s, sent) /\ v.static = static /\ v.out = out \o vs
  BY DEF WalkAt
<1> HIDE DEF v
<1>6. WalkOp(w, op) = v
  BY <1>4 DEF v
<1>7. v = WalkAt(v.state, v.static, v.out)
  BY <1>5 DEF v
<1>8. Renders(v, pins)
  BY <1>3, <1>5, <1>7 DEF Renders
<1> QED BY <1>3, <1>5, <1>6, <1>8 DEF shifts, s, out

\* A wait is one vector, as often as the wait is long.
LEMMA WaitRendered ==
  ASSUME NEW w, Renders(w, pins), w.state \in Tap!TapState, NEW op, op.kind = "runtest",
         NEW n \in Nat \ {0}, CyclesOf(op, w.state) = Waits(n)
  PROVE  LET v == WalkOp(w, op) IN
         /\ Renders(v, pins)
         /\ Tested(v.out).edges = Tested(w.out).edges \o Told(Waits(n), FALSE, pins)
         /\ v.state = Tracked(w.state, Waits(n))
<1> DEFINE s == w.state  static == w.static  out == w.out  c == JtagCycle(0, 0, 0, static, n)
           e == Edge("tck", 0, 0, 0, pins)
<1>1. w = WalkAt(s, static, out) /\ Vectors(out) /\ Holding(Tested(out), static, pins)
  BY DEF Renders
<1>2. Len(Waits(n)) = n /\ Waits(n) # << >> /\ n # 0
  BY WaitsOn
<1>3. WalkOp(w, op) = WalkAt(Settled(s, n), static, Append(out, c))
  BY <1>1, <1>2, WalkKinds
<1>4. /\ c.repeat = n /\ c.table = "tck" /\ c.hold = << >> /\ c.static = static
      /\ e = Edge("tck", c.tms, c.tdi, c.bit, pins)
  BY DEF JtagCycle
<1>5. Told(Waits(n), FALSE, pins) = Copies(n, e)
  BY <1>2 DEF Told, Waits, Copies
<1> DEFINE acc == Tested(out)
<1> HIDE DEF c, e, s, static, out, acc
<1>6. Vectors(Append(out, c)) /\ Tested(Append(out, c)) = RunStatement(acc, Statement(c, n))
  <2>1. c.repeat \in Nat
    BY <1>4
  <2> QED BY <1>1, <1>4, <2>1, TestedOn DEF acc
<1>7. Gives(c, static, pins, pins, e)
  BY <1>4, TckVector DEF Gives
<1>8. /\ RunStatement(acc, Statement(c, n)).edges = acc.edges \o Copies(n, e)
      /\ Holding(RunStatement(acc, Statement(c, n)), static, pins)
  <2>1. Holding(acc, static, pins)
    BY <1>1 DEF acc
  <2> QED BY <1>2, <1>7, <2>1, Repeating
<1>9. Settled(s, n) = Tracked(s, Waits(n))
  BY WaitsSettle DEF s
<1> DEFINE v == WalkAt(Settled(s, n), static, Append(out, c))
<1>10. v.state = Settled(s, n) /\ v.static = static /\ v.out = Append(out, c)
  BY DEF WalkAt
<1> HIDE DEF v
<1>11. v = WalkAt(v.state, v.static, v.out) /\ WalkOp(w, op) = v
  BY <1>3, <1>10 DEF v
<1>12. Renders(v, pins)
  BY <1>6, <1>8, <1>10, <1>11 DEF Renders
<1>13. Tested(v.out).edges = acc.edges \o Told(Waits(n), FALSE, pins)
  BY <1>5, <1>6, <1>8, <1>10
<1> QED BY <1>9, <1>10, <1>11, <1>12, <1>13 DEF s, out, acc

\* A PulsePin is one vector, as often as it pulses.
LEMMA PulseRendered ==
  ASSUME NEW w, Renders(w, pins), NEW op \in PinOps, op.kind = "pulse", op.count > 0
  PROVE  LET v == WalkOp(w, op) IN
         /\ Renders(v, PinsAfter(op))
         /\ Tested(v.out).edges = Tested(w.out).edges \o Pulses(op)
         /\ v.state = w.state
<1> DEFINE s == w.state  static == w.static  out == w.out  c == PulseCycle(op, static)
           e == PulseEdge(op, pins)  n == op.count  left == PulseLeaves(op, pins)
           acc == Tested(out)
<1>1. w = WalkAt(s, static, out) /\ Vectors(out) /\ Holding(Tested(out), static, pins)
  BY DEF Renders
<1>2. n \in Nat /\ n # 0
  BY PlayAssumption
<1>3. WalkOp(w, op) = WalkAt(s, static, Append(out, c))
  BY <1>1, WalkKinds
<1>4. pins = [p \in PinNames |-> pins[p]] /\ DOMAIN pins = PinNames
  BY <1>1 DEF Holding
<1>5. Pulses(op) = Copies(n, e) /\ PinsAfter(op) = left
  BY <1>4 DEF Pulses, PulseEdge, PinsAfter, PulseLeaves, Copies
<1>6. c.repeat = n
  BY DEF PulseCycle
<1>7. Gives(c, static, pins, left, e)
  BY <1>4, PulseVector DEF Gives
<1> HIDE DEF c, e, s, static, out, acc, n, left
<1>8. Vectors(Append(out, c)) /\ Tested(Append(out, c)) = RunStatement(acc, Statement(c, n))
  <2>1. c.repeat \in Nat
    BY <1>2, <1>6
  <2> QED BY <1>1, <1>6, <2>1, TestedOn DEF acc
<1>9. /\ RunStatement(acc, Statement(c, n)).edges = acc.edges \o Copies(n, e)
      /\ Holding(RunStatement(acc, Statement(c, n)), static, left)
  <2>1. Holding(acc, static, pins)
    BY <1>1 DEF acc
  <2> QED BY <1>2, <1>7, <2>1, Repeating
<1> DEFINE v == WalkAt(s, static, Append(out, c))
<1>10. v.state = s /\ v.static = static /\ v.out = Append(out, c)
  BY DEF WalkAt
<1> HIDE DEF v
<1>11. v = WalkAt(v.state, v.static, v.out) /\ WalkOp(w, op) = v
  BY <1>3, <1>10 DEF v
<1>12. Renders(v, left)
  BY <1>8, <1>9, <1>10, <1>11 DEF Renders
<1>13. Tested(v.out).edges = acc.edges \o Pulses(op)
  BY <1>5, <1>8, <1>9, <1>10
<1> QED BY <1>5, <1>10, <1>11, <1>12, <1>13 DEF s, out, acc

\* A SetPins adds no vector: it changes what the later ones hold.
LEMMA PinsRendered ==
  ASSUME NEW w, Renders(w, pins), NEW op \in PinOps, op.kind = "pins"
  PROVE  LET v == WalkOp(w, op) IN
         /\ Renders(v, PinsAfter(op)) /\ v.out = w.out /\ v.state = w.state
<1> DEFINE s == w.state  static == w.static  out == w.out  later == Over(op.values, static)
           after == Over(op.values, pins)
<1>1. w = WalkAt(s, static, out) /\ Vectors(out) /\ Holding(Tested(out), static, pins)
  BY DEF Renders
<1>2. WalkOp(w, op) = WalkAt(s, later, out)
  BY <1>1, WalkKinds DEF Snapshot
<1>3. PinsAfter(op) = after
  BY DEF PinsAfter
<1>4. DOMAIN op.values \subseteq DOMAIN Inputs /\ DOMAIN Inputs \subseteq PinNames
  BY PlayAssumption DEF PinNames
<1>5. /\ pins = [p \in PinNames |-> pins[p]]
      /\ static = [p \in DOMAIN Inputs |-> pins[p]]
      /\ DOMAIN Tested(out).levels = PinNames
      /\ \A p \in PinNames \ DOMAIN Inputs : Tested(out).levels[p] = pins[p]
      /\ Sequence(Tested(out).edges)
  BY <1>1 DEF Holding
<1>6. DOMAIN pins = PinNames /\ DOMAIN static = DOMAIN Inputs
      /\ \A p \in DOMAIN Inputs : static[p] = pins[p]
  BY <1>5
<1> HIDE DEF s, static, out
<1>7. DOMAIN after = PinNames /\ after = [p \in PinNames |-> after[p]]
  <2>1. DOMAIN op.values \cup DOMAIN pins = PinNames
    BY <1>4, <1>6
  <2> QED BY <2>1 DEF Over
<1>8. later = [p \in DOMAIN Inputs |-> after[p]]
  <2>1. DOMAIN op.values \cup DOMAIN static = DOMAIN Inputs
    BY <1>4, <1>6
  <2>2. later = [p \in DOMAIN Inputs |-> IF p \in DOMAIN op.values THEN op.values[p] ELSE static[p]]
    BY <2>1 DEF Over
  <2>3. \A p \in DOMAIN Inputs :
          after[p] = IF p \in DOMAIN op.values THEN op.values[p] ELSE static[p]
    <3>1. \A p \in PinNames : after[p] = IF p \in DOMAIN op.values THEN op.values[p] ELSE pins[p]
      BY <1>4, <1>6 DEF Over
    <3> HIDE DEF after
    <3> QED BY <1>4, <1>6, <3>1
  <2> HIDE DEF after, later
  <2> QED BY <2>2, <2>3
<1>9. \A p \in PinNames \ DOMAIN Inputs : after[p] = pins[p]
  <2> TAKE p \in PinNames \ DOMAIN Inputs
  <2>1. p \in DOMAIN pins /\ p \notin DOMAIN op.values
    BY <1>4, <1>6
  <2> QED BY <2>1 DEF Over
<1> HIDE DEF after, later
<1>10. Holding(Tested(out), later, after)
  BY <1>5, <1>7, <1>8, <1>9 DEF Holding
<1> DEFINE v == WalkAt(s, later, out)
<1>11. v.state = s /\ v.static = later /\ v.out = out
  BY DEF WalkAt
<1> HIDE DEF v
<1>12. v = WalkAt(v.state, v.static, v.out) /\ WalkOp(w, op) = v
  BY <1>2, <1>11 DEF v
<1>13. Renders(v, after)
  BY <1>1, <1>10, <1>11, <1>12 DEF Renders
<1> QED BY <1>3, <1>11, <1>12, <1>13 DEF s, out

\* No cycles are no edges.
LEMMA ToldNothing ==
  ASSUME NEW shifts, NEW held
  PROVE  Told(<< >>, shifts, held) = << >>
BY DEF Told

\* The operation op, met by a walk at w, sends these cycles, and the tracked
\* state after them is the one they would lead to from here.
SendsFrom(w, op, here, sends) ==
  /\ Renders(w, pins) /\ w.state \in Tap!TapState /\ Rendered(op)
  /\ CyclesOf(op, w.state) = sends /\ Tracked(w.state, sends) = Tracked(here, sends)

\* The walk v goes on from w with the edges op means, and leaves the pins as op does.
GoesOn(v, w, op, here, sends) ==
  /\ Renders(v, PinsAfter(op)) /\ sends \in Seq(Cycle)
  /\ Tested(v.out).edges = Tested(w.out).edges \o Meant(op, sends)
  /\ v.state = Tracked(here, sends)

\* An operation's vectors are the edges it means, and leave the pins as it does.
LEMMA OperationRendered ==
  ASSUME NEW w, NEW op, NEW here, NEW sends, SendsFrom(w, op, here, sends)
  PROVE  GoesOn(WalkOp(w, op), w, op, here, sends)
<1> SUFFICES
      ASSUME Renders(w, pins), w.state \in Tap!TapState, Rendered(op),
             CyclesOf(op, w.state) = sends, Tracked(w.state, sends) = Tracked(here, sends)
      PROVE  GoesOn(WalkOp(w, op), w, op, here, sends)
  BY DEF SendsFrom
<1> DEFINE v == WalkOp(w, op)  told == Told(sends, op.kind = "shift", PinsAfter(op))
           meant == IF op.kind = "pulse" THEN Pulses(op) ELSE told
<1>1. \A f : Tracked(f, << >>) = f
  BY TrackedOn
<1>2. << >> \in Seq(Cycle) /\ Tested(w.out).edges \o << >> = Tested(w.out).edges
  <2>1. PICK S : Tested(w.out).edges \in Seq(S)
    BY DEF Renders, Holding, Sequence
  <2> QED BY <2>1, ConcatEmptySeq
<1> DEFINE Done == /\ Renders(v, PinsAfter(op)) /\ sends \in Seq(Cycle)
                         /\ Tested(v.out).edges = Tested(w.out).edges \o meant
                   /\ v.state = Tracked(here, sends)
<1>3. ASSUME op.kind = "pins" PROVE Done
  <2>1. op \in PinOps
    BY <1>3 DEF Rendered
  <2>2. sends = << >>
    BY <1>3, OperationCycles
  <2>3. Renders(v, PinsAfter(op)) /\ v.out = w.out /\ v.state = w.state
    BY <1>3, <2>1, PinsRendered
  <2>4. meant = << >>
    BY <1>3, <2>2, ToldNothing, Zenon
  <2> HIDE DEF v, meant
  <2>5. w.state = Tracked(here, sends)
    BY <1>1, <2>2
  <2>6. Tested(v.out).edges = Tested(w.out).edges \o meant
    BY <1>2, <2>3, <2>4
  <2>7. sends \in Seq(Cycle)
    BY <1>2, <2>2
  <2> QED BY <1>3, <2>3, <2>5, <2>6, <2>7 DEF v, meant
<1>4. ASSUME op.kind = "pulse" PROVE Done
  <2>1. op \in PinOps /\ op.count \in Nat
    <3>1. op \in PinOps
      BY <1>4 DEF Rendered
    <3> QED BY <1>4, <3>1, PlayAssumption
  <2>2. sends = << >> /\ meant = Pulses(op)
    BY <1>4, OperationCycles
  <2>3. w.state = Tracked(here, sends) /\ sends \in Seq(Cycle)
    BY <1>1, <1>2, <2>2
  <2>4. CASE op.count > 0
    <3>1. /\ Renders(v, PinsAfter(op)) /\ v.state = w.state
          /\ Tested(v.out).edges = Tested(w.out).edges \o Pulses(op)
      BY <1>4, <2>1, <2>4, PulseRendered
    <3> HIDE DEF v, meant
    <3> QED BY <2>2, <2>3, <3>1 DEF v, meant
  <2>5. CASE ~(op.count > 0)
    <3>1. CycleByCycle(op, sends) /\ PinsAfter(op) = pins
      BY <1>4, <2>5 DEF CycleByCycle, PinsAfter
    <3>2. /\ Renders(v, pins) /\ v.state = Tracked(w.state, sends)
          /\ Tested(v.out).edges = Tested(w.out).edges \o Told(sends, op.kind = "shift", pins)
      BY <2>3, <3>1, CyclesRendered
    <3>3. Told(sends, op.kind = "shift", pins) = << >>
      <4>1. sends = << >>
        BY <2>2
      <4> QED BY <4>1, ToldNothing, Zenon
    <3>4. Pulses(op) = << >>
      BY <2>1, <2>5 DEF Pulses
    <3>5. Tested(v.out).edges = Tested(w.out).edges \o meant
      <4> HIDE DEF v, meant
      <4> QED BY <2>2, <3>2, <3>3, <3>4
    <3>6. v.state = Tracked(here, sends) /\ Renders(v, PinsAfter(op))
      <4> HIDE DEF v
      <4> QED BY <3>1, <3>2
    <3> HIDE DEF v, meant
    <3> QED BY <2>2, <2>3, <3>5, <3>6 DEF v, meant
  <2> QED BY <2>4, <2>5
<1>5. ASSUME op.kind \in {"goto", "shift"} PROVE Done
  <2>1. sends \in Seq(Cycle)
    <3>1. op \notin PinOps
      BY <1>5, PlayAssumption
    <3> QED BY <1>5, <3>1 DEF Rendered
  <2>2. CycleByCycle(op, sends) /\ PinsAfter(op) = pins
    BY <1>5 DEF CycleByCycle, PinsAfter
  <2>3. /\ Renders(v, pins) /\ v.state = Tracked(w.state, sends)
        /\ Tested(v.out).edges = Tested(w.out).edges \o Told(sends, op.kind = "shift", pins)
    BY <2>1, <2>2, CyclesRendered
  <2>4. meant = Told(sends, op.kind = "shift", pins)
    <3>1. op.kind # "pulse"
      BY <1>5
    <3> QED BY <2>2, <3>1, Zenon
  <2> HIDE DEF v, meant
  <2>5. Tested(v.out).edges = Tested(w.out).edges \o meant
    BY <2>3, <2>4, Zenon
  <2>6. v.state = Tracked(here, sends) /\ Renders(v, PinsAfter(op)) /\ op.kind # "pulse"
    BY <1>5, <2>2, <2>3
  <2> QED BY <2>1, <2>5, <2>6 DEF v, meant
<1>6. ASSUME op.kind = "runtest" PROVE Done
  <2>1. PICK n \in Nat : \A s : CyclesOf(op, s) = Waits(n)
    <3>1. op \notin PinOps
      BY <1>6, PlayAssumption
    <3> QED BY <1>6, <3>1 DEF Rendered
  <2>2. sends = Waits(n) /\ sends \in Seq(Cycle)
    BY <2>1, WaitsOn
  <2>3. PinsAfter(op) = pins /\ op.kind # "pulse" /\ op.kind # "shift"
    BY <1>6 DEF PinsAfter
  <2>4. meant = Told(sends, FALSE, pins)
    <3>1. (op.kind = "shift") = FALSE
      BY <2>3
    <3> QED BY <2>3, <3>1, Zenon
  <2>5. CASE n = 0
    <3>1. sends = << >> /\ CycleByCycle(op, sends)
      BY <1>6, <2>2, <2>5, WaitsOn DEF CycleByCycle
    <3>2. /\ Renders(v, pins) /\ v.state = Tracked(w.state, sends)
          /\ Tested(v.out).edges = Tested(w.out).edges \o Told(sends, op.kind = "shift", pins)
      BY <2>2, <3>1, CyclesRendered
    <3>3. Told(sends, op.kind = "shift", pins) = << >>
      BY <3>1, ToldNothing, Zenon
    <3>4. meant = << >>
      BY <2>4, <3>1, ToldNothing, Zenon
    <3> HIDE DEF v, meant
    <3>5. Tested(v.out).edges = Tested(w.out).edges \o meant
      BY <3>2, <3>3, <3>4, Zenon
    <3>6. v.state = Tracked(here, sends) /\ Renders(v, PinsAfter(op))
      BY <2>3, <3>2
    <3> QED BY <2>2, <2>3, <3>5, <3>6 DEF v, meant
  <2>6. CASE n # 0
    <3>1. /\ Renders(v, pins) /\ v.state = Tracked(w.state, Waits(n))
          /\ Tested(v.out).edges = Tested(w.out).edges \o Told(Waits(n), FALSE, pins)
      <4>1. n \in Nat \ {0} /\ CyclesOf(op, w.state) = Waits(n)
        BY <2>1, <2>6
      <4> QED BY <1>6, <4>1, WaitRendered
    <3> HIDE DEF v, meant
    <3>2. Tested(v.out).edges = Tested(w.out).edges \o meant
      BY <2>2, <2>4, <3>1, Zenon
    <3>3. v.state = Tracked(here, sends) /\ Renders(v, PinsAfter(op))
      BY <2>2, <2>3, <3>1
    <3> QED BY <2>2, <2>3, <3>2, <3>3 DEF v, meant
  <2> QED BY <2>5, <2>6
<1>7. op.kind \in {"pins", "pulse", "goto", "shift", "runtest"}
  BY PlayAssumption DEF Rendered
<1>8. Meant(op, sends) = meant
  BY DEF Meant
<1> HIDE DEF v, meant
<1>9. Done
  BY <1>3, <1>4, <1>5, <1>6, <1>7
<1> QED BY <1>8, <1>9 DEF v, GoesOn

\* The last operation sends the cycles whole, started in the state from after
\* the edges base, and done of them are sent.
Sends(from, base, whole, done) ==
  LET w == Walked(log)  told == Told(whole, LastShifts, pins) IN
  /\ Renders(w, pins) /\ Sequence(base)
  /\ whole \in Seq(Cycle) /\ Rest(cycles, whole, done)
  /\ log = << >> => whole = << >>
  /\ Tested(w.out).edges = base \o told
  /\ applied = base \o SubSeq(told, 1, done)
  /\ \/ /\ state = Tracked(from, SubSeq(whole, 1, done))
        /\ w.state = Tracked(from, whole)
     \/ LeadingIn
  /\ LastShifts => observed # << >> /\ Sequence(Last(observed)) /\ Len(Last(observed)) = done

\* to_stil renders what is still to be started.
OpsRendered == \E T : ops \in Seq(T) /\ \A op \in T : Rendered(op)

\* The inductive invariant: until a whole program starts, the walk's vectors are
\* the edges applied and those of the operation under way still to come.
StilInv ==
  /\ Sequence(log) /\ Sequence(observed) /\ plan \in Seq(Tests)
  /\ block.kind # "test" =>
       /\ state \in Tap!TapState /\ OpsRendered
       /\ \E from, base, whole, done : Sends(from, base, whole, done)

\* A row of edges, by its place in a longer one.
LEMMA ToldIs ==
  ASSUME NEW whole \in Seq(Cycle), NEW shifts, NEW held
  PROVE  /\ Len(whole) \in Nat
         /\ \E E : Told(whole, shifts, held) \in Seq(E)
         /\ Len(Told(whole, shifts, held)) = Len(whole)
         /\ \A i \in 1 .. Len(whole) :
              Told(whole, shifts, held)[i]
                = Edge("tck", whole[i][1], whole[i][2], IF shifts THEN i ELSE 0, held)
<1> DEFINE told == Told(whole, shifts, held)  n == Len(whole)  E == {told[i] : i \in 1 .. n}
<1>1. n \in Nat
  OBVIOUS
<1>2. told \in [1 .. n -> E]
  BY DEF Told
<1>3. \A i \in 1 .. n :
        told[i] = Edge("tck", whole[i][1], whole[i][2], IF shifts THEN i ELSE 0, held)
  BY DEF Told
<1> HIDE DEF told, E, n
<1>4. told \in Seq(E) /\ Len(told) = n
  BY <1>1, <1>2, FunctionIsSeq
<1> QED BY <1>1, <1>3, <1>4 DEF told, n

\* A tester starts where the pins do.
LEMMA StilInit == Init => StilInv
<1> SUFFICES ASSUME Init PROVE StilInv
  OBVIOUS
<1>1. /\ log = << >> /\ observed = << >> /\ applied = << >> /\ cycles = << >>
      /\ pins = Over(Inputs, [p \in OtherPins |-> Undriven])
  BY DEF Init
<1>2. \A x : x = << >> => Sequence(x)
  BY DEF Sequence
<1>3. state \in Tap!TapState
  BY DEF Init, Tap!TapState
<1>4. OpsRendered
  <2>1. CASE ops = << >>
    <3>1. ops \in Seq({})
      BY <2>1
    <3> QED BY <3>1 DEF OpsRendered
  <2>2. CASE ops = TmsReset
    <3>1. ops \in Seq({Goto("TEST_LOGIC_RESET"), Goto("RUN_TEST_IDLE")})
      BY <2>2, ResetsReset DEF ResetProgram
    <3>2. \A target : Rendered(Goto(target))
      <4>1. \A s, target : CyclesOf(Goto(target), s) = Walk(navigation_tms(s, target))
        BY DEF CyclesOf, Goto, Walk
      <4>2. \A target : Goto(target).kind = "goto"
        BY DEF Goto
      <4> QED BY <4>1, <4>2, NavigationTyped DEF Rendered
    <3> QED BY <3>1, <3>2 DEF OpsRendered
  <2> QED BY <2>1, <2>2 DEF Init
<1>5. Walked(log) = WalkAt("RUN_TEST_IDLE", Inputs, << >>)
  <2>1. Walked(<< >>) = WalkStart
    BY <1>1, <1>2, WalkedOn
  <2> QED BY <1>1, <2>1 DEF WalkStart, WalkAt
<1>6. Tested(<< >>) = TesterStart
  BY TesterFold!FoldEmpty DEF Tested, RunBase
<1>7. Renders(Walked(log), pins)
  <2> DEFINE other == [p \in OtherPins |-> Undriven]
  <2>1. DOMAIN pins = PinNames /\ pins = [p \in PinNames |-> pins[p]]
    BY <1>1 DEF Over, PinNames
  <2>2. Inputs = [p \in DOMAIN Inputs |-> pins[p]]
    <3>1. Inputs = [p \in DOMAIN Inputs |-> Inputs[p]]
      BY PlayAssumption
    <3>2. \A p \in DOMAIN Inputs : pins[p] = Inputs[p]
      BY <1>1 DEF Over
    <3> QED BY <3>1, <3>2
  <2>3. /\ DOMAIN TesterStart.levels = PinNames
        /\ \A p \in PinNames \ DOMAIN Inputs : TesterStart.levels[p] = pins[p]
        /\ TesterStart.edges = << >>
    <3>1. TesterStart.levels = pins /\ TesterStart.edges = << >>
      BY <1>1 DEF TesterStart
    <3> QED BY <2>1, <3>1
  <2>4. Sequence(TesterStart.edges)
    BY <1>2, <2>3
  <2>5. Holding(TesterStart, Inputs, pins)
    BY <2>1, <2>2, <2>3, <2>4 DEF Holding
  <2>6. Vectors(<< >>)
    <3> DEFINE none == {}
    <3>1. << >> \in Seq(none) /\ \A c \in none : c.repeat \in Nat
      OBVIOUS
    <3> HIDE DEF none
    <3> QED BY <3>1 DEF Vectors
  <2> DEFINE w == WalkAt("RUN_TEST_IDLE", Inputs, << >>)
  <2>7. w.state = "RUN_TEST_IDLE" /\ w.static = Inputs /\ w.out = << >>
    BY DEF WalkAt
  <2> HIDE DEF w
  <2>8. w = WalkAt(w.state, w.static, w.out)
    BY <2>7 DEF w
  <2>9. Renders(w, pins)
    BY <1>6, <2>5, <2>6, <2>7, <2>8 DEF Renders
  <2> QED BY <1>5, <2>9 DEF w
<1>8. Sends("RUN_TEST_IDLE", << >>, << >>, 0)
  <2>1. /\ << >> \in Seq(Cycle) /\ << >> \o << >> = << >>
    OBVIOUS
  <2>2. SubSeq(<< >>, 1, 0) = << >>
    BY SubSeqEmpty
  <2>3. Rest(cycles, << >>, 0)
    BY <1>1, <2>1, RestEnds
  <2>4. Told(<< >>, LastShifts, pins) = << >>
    BY ToldNothing, Zenon
  <2>5. Walked(log).state = "RUN_TEST_IDLE" /\ Walked(log).out = << >>
    BY <1>5 DEF WalkAt
  <2>6. Tested(Walked(log).out).edges = << >>
    <3>1. TesterStart.edges = << >>
      BY DEF TesterStart
    <3> QED BY <1>6, <2>5, <3>1
  <2>7. ~LastShifts
    BY <1>1 DEF LastShifts
  <2>8. Tracked("RUN_TEST_IDLE", << >>) = "RUN_TEST_IDLE"
    BY TrackedOn
  <2>9. \/ /\ state = Tracked("RUN_TEST_IDLE", SubSeq(<< >>, 1, 0))
           /\ Walked(log).state = Tracked("RUN_TEST_IDLE", << >>)
        \/ LeadingIn
    <3>1. state = "RUN_TEST_IDLE" \/ LeadingIn
      BY <1>1 DEF Init, LeadingIn
    <3> QED BY <2>2, <2>5, <2>8, <3>1
  <2>10. Sequence(<< >>)
    BY <1>2
  <2>11. /\ Tested(Walked(log).out).edges = << >> \o Told(<< >>, LastShifts, pins)
         /\ applied = << >> \o SubSeq(Told(<< >>, LastShifts, pins), 1, 0)
    BY <1>1, <2>1, <2>2, <2>4, <2>6
  <2> QED BY <1>7, <2>1, <2>3, <2>7, <2>9, <2>10, <2>11 DEF Sends
<1>9. plan \in Seq(Tests)
  <2>1. << >> \in Seq(Tests) /\ Plans \subseteq Seq(Tests)
    BY PlayAssumption
  <2>2. plan \in {<< >>} \cup Plans
    BY DEF Init
  <2> QED BY <2>1, <2>2
<1> QED BY <1>1, <1>2, <1>3, <1>4, <1>8, <1>9 DEF StilInv

\* Starting an operation adds the vectors of the edges it means.
LEMMA StilStarts ==
  ASSUME StilInv, StartOp, ~raised', OpsRendered, state \in Tap!TapState,
         NEW from, NEW base, NEW whole, NEW done, Sends(from, base, whole, done)
  PROVE  \E here, base1, sends : Sends(here, base1, sends, 0)'
<1> DEFINE w == Walked(log)
<1>0. PICK op : op = Head(ops)
  OBVIOUS
<1>1. PICK here : here = state
  OBVIOUS
<1>2. PICK sends : sends = CyclesOf(op, here)
  OBVIOUS
<1>3. /\ cycles = << >> /\ ops # << >> /\ log' = Append(log, op) /\ cycles' = sends
      /\ observed' = (IF op.kind = "shift" THEN Append(observed, << >>) ELSE observed)
      /\ applied' = (IF op.kind = "pulse" THEN applied \o Pulses(op) ELSE applied)
      /\ pins' = PinsAfter(op) /\ state' = state
  BY <1>0, <1>1, <1>2 DEF StartOp, tapVars
<1>4. Rendered(op)
  BY <1>0, <1>3 DEF OpsRendered
<1>5. Sequence(log) /\ Sequence(observed) /\ here \in Tap!TapState
  BY <1>1 DEF StilInv
<1>6. /\ Renders(w, pins) /\ Sequence(base)
      /\ whole \in Seq(Cycle) /\ Rest(cycles, whole, done)
      /\ Tested(w.out).edges = base \o Told(whole, LastShifts, pins)
      /\ applied = base \o SubSeq(Told(whole, LastShifts, pins), 1, done)
      /\ \/ /\ state = Tracked(from, SubSeq(whole, 1, done))
            /\ w.state = Tracked(from, whole)
         \/ LeadingIn
  BY DEF Sends
<1>7. /\ done = Len(whole) /\ SubSeq(whole, 1, done) = whole
      /\ applied = Tested(w.out).edges
  <2>1. done = Len(whole)
    BY <1>3, <1>6, RestEnds
  <2>2. SubSeq(whole, 1, done) = whole
    BY <1>6, <2>1, SubSeqFull
  <2>3. PICK told : told = Told(whole, LastShifts, pins)
    OBVIOUS
  <2>4. PICK shifts : shifts = LastShifts
    OBVIOUS
  <2>5. told = Told(whole, shifts, pins)
    BY <2>3, <2>4, Zenon
  <2>6. PICK E : told \in Seq(E) /\ Len(told) = Len(whole)
    BY <1>6, <2>5, ToldIs
  <2>7. SubSeq(told, 1, done) = told
    BY <2>1, <2>6, SubSeqFull
  <2>8. applied = Tested(w.out).edges
    BY <1>6, <2>3, <2>7, Zenon
  <2> QED BY <2>1, <2>2, <2>8
<1>8. /\ CyclesOf(op, w.state) = sends /\ Tracked(w.state, sends) = Tracked(here, sends)
      /\ w.state \in Tap!TapState
  <2>1. CASE w.state = state
    BY <1>1, <1>2, <1>5, <2>1
  <2>2. CASE LeadingIn
    <3>1. op = Goto("TEST_LOGIC_RESET")
      BY <1>0, <2>2, Programs DEF LeadingIn
    <3>2. \A s : CyclesOf(op, s) = Walk(<<1, 1, 1, 1, 1>>)
      BY <3>1, OperationCycles
    <3>3. w.state = "RUN_TEST_IDLE"
      <4>1. w = WalkStart
        BY <1>5, <2>2, WalkedOn DEF LeadingIn
      <4> QED BY <4>1 DEF WalkStart
    <3>4. w.state \in Tap!TapState
      BY <3>3 DEF Tap!TapState
    <3> HIDE DEF w
    <3> QED BY <1>2, <1>5, <3>2, <3>4, FiveOnesTrack
  <2> QED BY <1>6, <1>7, <2>1, <2>2
<1> DEFINE v == WalkOp(w, op)  meant == Meant(op, sends)
<1>9. /\ Renders(v, PinsAfter(op)) /\ sends \in Seq(Cycle)
      /\ Tested(v.out).edges = Tested(w.out).edges \o meant
      /\ v.state = Tracked(here, sends)
  <2>1. PICK x : x = w
    OBVIOUS
  <2>2. PICK cs : cs = sends
    OBVIOUS
  <2>3. SendsFrom(x, op, here, cs)
    BY <1>4, <1>6, <1>8, <2>1, <2>2 DEF SendsFrom
  <2>4. GoesOn(WalkOp(x, op), x, op, here, cs)
    BY <2>3, OperationRendered
  <2>5. PICK y : y = WalkOp(x, op)
    OBVIOUS
  <2>6. GoesOn(y, x, op, here, cs)
    BY <2>4, <2>5
  <2>7. /\ Renders(y, PinsAfter(op)) /\ cs \in Seq(Cycle)
        /\ Tested(y.out).edges = Tested(x.out).edges \o Meant(op, cs)
        /\ y.state = Tracked(here, cs)
    BY <2>6 DEF GoesOn
  <2>8. y = v
    BY <2>1, <2>5
  <2> HIDE DEF v, meant, w
  <2>9. meant = Meant(op, cs)
    BY <2>2 DEF meant
  <2> QED BY <2>1, <2>2, <2>7, <2>8, <2>9
<1>10. Walked(log') = v
  BY <1>3, <1>5, WalkedOn
<1>11. LastShifts' <=> op.kind = "shift"
  <2>1. log' # << >> /\ log'[Len(log')] = op
    BY <1>3, <1>5, StillSequence
  <2> QED BY <2>1 DEF LastShifts
<1> HIDE DEF v, w
<1> DEFINE told == Told(sends, LastShifts', pins')
<1>12. told = Told(sends, op.kind = "shift", PinsAfter(op))
  <2>1. LastShifts' = (op.kind = "shift")
    BY <1>11 DEF LastShifts
  <2> QED BY <1>3, <2>1, Zenon
<1>13. Sequence(applied') /\ Tested(v.out).edges = applied' \o told
  <2>1. PICK S : Tested(v.out).edges \in Seq(S)
    BY <1>9 DEF Renders, Holding, Sequence
  <2>2. PICK U : applied \in Seq(U)
    BY <1>6, <1>7 DEF Renders, Holding, Sequence
  <2>3. CASE op.kind = "pulse"
    <3>1. meant = Pulses(op) /\ applied' = applied \o Pulses(op)
      BY <1>3, <2>3 DEF Meant
    <3>2. applied' = Tested(v.out).edges
      <4> HIDE DEF meant
      <4> QED BY <1>7, <1>9, <3>1
    <3>3. told = << >>
      <4>1. sends = << >>
        BY <1>2, <2>3, OperationCycles
      <4> QED BY <1>12, <4>1, ToldNothing, Zenon
    <3> HIDE DEF told, meant
    <3>4. applied' \o << >> = applied'
      BY <2>1, <3>2, ConcatEmptySeq
    <3> QED BY <2>1, <3>2, <3>3, <3>4 DEF Sequence
  <2>4. CASE op.kind # "pulse"
    <3>1. meant = told
      BY <1>12, <2>4, Zenon DEF Meant
    <3>2. applied' = applied
      BY <1>3, <2>4
    <3> HIDE DEF told, meant
    <3> QED BY <1>7, <1>9, <2>2, <3>1, <3>2 DEF Sequence
  <2> QED BY <2>3, <2>4
<1>14. SubSeq(told, 1, 0) = << >> /\ applied' \o << >> = applied'
  <2>1. SubSeq(told, 1, 0) = << >>
    BY SubSeqEmpty
  <2> QED BY <1>13, <2>1, ConcatEmptySeq DEF Sequence
<1>15. Rest(cycles', sends, 0) /\ SubSeq(sends, 1, 0) = << >>
  BY <1>3, <1>9, RestEnds, SubSeqEmpty
<1>16. state' = Tracked(here, SubSeq(sends, 1, 0)) /\ v.state = Tracked(here, sends)
  BY <1>1, <1>3, <1>9, <1>15, TrackedOn
<1>17. LastShifts' => observed' # << >> /\ Sequence(Last(observed')) /\ Len(Last(observed')) = 0
  <2> SUFFICES ASSUME LastShifts'
               PROVE  observed' # << >> /\ Sequence(Last(observed')) /\ Len(Last(observed')) = 0
    OBVIOUS
  <2> DEFINE none == << >>
  <2>1. observed' = Append(observed, none)
    BY <1>3, <1>11
  <2>2. Sequence(none) /\ Len(none) = 0
    <3>1. none \in Seq({}) /\ Len(none) = 0
      OBVIOUS
    <3> QED BY <3>1 DEF Sequence
  <2> HIDE DEF none
  <2>3. observed' # << >> /\ Last(observed') = none
    BY <1>5, <2>1, StillSequence
  <2> QED BY <2>2, <2>3
<1>18. log' # << >>
  BY <1>3, <1>5, StillSequence
<1>19. Renders(v, pins')
  BY <1>3, <1>9
<1> HIDE DEF told
<1>20. applied' = applied' \o SubSeq(told, 1, 0)
  BY <1>14
<1>21. PICK base1 : base1 = applied'
  OBVIOUS
<1>22. /\ Tested(v.out).edges = base1 \o told /\ applied' = base1 \o SubSeq(told, 1, 0)
       /\ Sequence(base1)
  BY <1>13, <1>20, <1>21
<1>23. Sends(here, base1, sends, 0)'
  BY <1>9, <1>10, <1>13, <1>15, <1>16, <1>17, <1>18, <1>19, <1>22 DEF Sends, told
<1> QED BY <1>23

\* A cycle sent is the next edge of the operation's vectors.
LEMMA StilTicks ==
  ASSUME StilInv, PlayTick, NEW from, NEW base, NEW whole, NEW done, NEW e, e = tdo',
         Sends(from, base, whole, done)
  PROVE  Sends(from, base, whole, done + 1)'
<1> DEFINE w == Walked(log)
<1>1. Sequence(log) /\ Sequence(observed)
  BY DEF StilInv
<1>2. /\ Renders(w, pins) /\ Sequence(base)
      /\ whole \in Seq(Cycle) /\ Rest(cycles, whole, done)
      /\ log = << >> => whole = << >>
      /\ Tested(w.out).edges = base \o Told(whole, LastShifts, pins)
      /\ applied = base \o SubSeq(Told(whole, LastShifts, pins), 1, done)
      /\ \/ /\ state = Tracked(from, SubSeq(whole, 1, done))
            /\ w.state = Tracked(from, whole)
         \/ LeadingIn
      /\ LastShifts => observed # << >> /\ Sequence(Last(observed)) /\ Len(Last(observed)) = done
  BY DEF Sends
<1>3. /\ done \in Nat /\ done + 1 \in 1 .. Len(whole) /\ done < Len(whole)
      /\ whole[done + 1] = Head(cycles) /\ Rest(cycles', whole, done + 1)
  <2>1. cycles # << >> /\ cycles' = Tail(cycles)
    BY DEF PlayTick
  <2> QED BY <1>2, <2>1, RestNext
<1> DEFINE tms == whole[done + 1][1]  tdi == whole[done + 1][2]
<1>4. log # << >> /\ ~LeadingIn
  <2>1. whole # << >>
    BY <1>3
  <2> QED BY <1>2, <2>1 DEF LeadingIn
<1>5. /\ SubSeq(whole, 1, done) \in Seq(Cycle) /\ whole[done + 1] \in Cycle
      /\ SubSeq(whole, 1, done + 1) = Append(SubSeq(whole, 1, done), whole[done + 1])
  BY <1>2, <1>3, OneLonger
<1>6. log[Len(log)].kind = "shift" <=> LastShifts
  BY <1>4 DEF LastShifts
<1> DEFINE bit == IF LastShifts THEN done + 1 ELSE 0  edge == Edge("tck", tms, tdi, bit, pins)
<1>7. /\ state' = Tap!next_state(state, tms) /\ log' = log /\ pins' = pins
      /\ observed' = IF LastShifts THEN [observed EXCEPT ![Len(observed)] = Append(@, e)] ELSE observed
      /\ applied' = Append(applied, edge)
  <2>1. /\ state' = Tap!next_state(state, Head(cycles)[1]) /\ log' = log /\ pins' = pins
        /\ observed' = IF log[Len(log)].kind = "shift"
                         THEN [observed EXCEPT ![Len(observed)] = Append(@, e)] ELSE observed
        /\ applied' = Append(applied, Edge("tck", Head(cycles)[1], Head(cycles)[2],
                        IF log[Len(log)].kind = "shift" THEN Len(Last(observed)) + 1 ELSE 0, pins))
    BY DEF PlayTick, Tap!Tick
  <2>2. bit = IF log[Len(log)].kind = "shift" THEN Len(Last(observed)) + 1 ELSE 0
    BY <1>2, <1>6
  <2> HIDE DEF bit
  <2> QED BY <1>3, <1>6, <2>1, <2>2
<1>8. state' = Tracked(from, SubSeq(whole, 1, done + 1))
  <2>1. state = Tracked(from, SubSeq(whole, 1, done))
    BY <1>2, <1>4
  <2>2. Tracked(from, Append(SubSeq(whole, 1, done), whole[done + 1]))
          = Tap!next_state(Tracked(from, SubSeq(whole, 1, done)), tms)
    BY <1>5, TrackedOn
  <2>3. state' = Tap!next_state(state, tms)
    BY <1>7
  <2>4. SubSeq(whole, 1, done + 1) = Append(SubSeq(whole, 1, done), whole[done + 1])
    BY <1>5
  <2> HIDE DEF tms
  <2> QED BY <2>1, <2>2, <2>3, <2>4, Zenon
<1>9. (LastShifts' <=> LastShifts) /\ Walked(log') = w
  BY <1>7 DEF LastShifts
<1> DEFINE told == Told(whole, LastShifts, pins)
<1>10. Told(whole, LastShifts', pins') = told
  <2>1. LastShifts' = LastShifts
    BY <1>7 DEF LastShifts
  <2> QED BY <1>7, <2>1, Zenon
<1>11. applied' = base \o SubSeq(told, 1, done + 1)
  <2>1. PICK shifts : shifts = LastShifts
    OBVIOUS
  <2>2. told = Told(whole, shifts, pins)
    BY <2>1, Zenon
  <2>3. PICK E : told \in Seq(E) /\ Len(told) = Len(whole)
    BY <1>2, <2>2, ToldIs
  <2>4. told[done + 1] = edge
    <3>1. told[done + 1] = Edge("tck", tms, tdi, IF shifts THEN done + 1 ELSE 0, pins)
      BY <1>2, <1>3, <2>2, ToldIs
    <3>2. (IF shifts THEN done + 1 ELSE 0) = bit
      BY <2>1
    <3> QED BY <3>1, <3>2
  <2> HIDE DEF told, edge
  <2>5. PICK B : base \in Seq(B)
    BY <1>2 DEF Sequence
  <2> DEFINE F == B \cup E
  <2>6. base \in Seq(F) /\ told \in Seq(F)
    BY <2>3, <2>5
  <2> HIDE DEF F
  <2> DEFINE t == SubSeq(told, 1, done)
  <2>7. t \in Seq(F) /\ told[done + 1] \in F /\ SubSeq(told, 1, done + 1) = Append(t, told[done + 1])
    BY <1>3, <2>3, <2>6, OneLonger
  <2>8. applied = base \o t
    BY <1>2 DEF told
  <2> HIDE DEF t
  <2>9. \A a, b \in Seq(F), x \in F : a \o Append(b, x) = Append(a \o b, x)
    BY ConcatAppend
  <2>10. base \o Append(t, told[done + 1]) = Append(base \o t, told[done + 1])
    BY <2>6, <2>7, <2>9, Zenon
  <2> QED BY <1>7, <2>4, <2>7, <2>8, <2>10
<1>12. LastShifts' => /\ observed' # << >> /\ Sequence(Last(observed'))
                      /\ Len(Last(observed')) = done + 1
  <2> SUFFICES ASSUME LastShifts
               PROVE  /\ observed' # << >> /\ Sequence(Last(observed'))
                      /\ Len(Last(observed')) = done + 1
    BY <1>9
  <2> DEFINE bits == Append(observed[Len(observed)], e)
  <2>1. observed' = [observed EXCEPT ![Len(observed)] = bits] /\ observed # << >>
    BY <1>2, <1>7
  <2>2. observed[Len(observed)] = Last(observed) /\ Sequence(Last(observed))
        /\ Len(Last(observed)) = done
    BY <1>2 DEF Last
  <2>3. Sequence(bits) /\ Len(bits) = done + 1
    <3>1. PICK S : Last(observed) \in Seq(S)
      BY <2>2 DEF Sequence
    <3> DEFINE T == S \cup {e}
    <3>2. Last(observed) \in Seq(T) /\ e \in T
      BY <3>1
    <3> HIDE DEF T
    <3>3. Append(Last(observed), e) \in Seq(T) /\ Len(Append(Last(observed), e)) = done + 1
      BY <2>2, <3>2, AppendProperties
    <3> QED BY <2>2, <3>3 DEF Sequence
  <2> HIDE DEF bits
  <2>4. observed' # << >> /\ Last(observed') = bits
    BY <1>1, <2>1, StillSequence
  <2> QED BY <2>3, <2>4
<1>13. w.state = Tracked(from, whole) /\ log' # << >>
  BY <1>2, <1>4, <1>7
<1>14. Renders(w, pins') /\ Tested(w.out).edges = base \o told
  BY <1>2, <1>7
<1> HIDE DEF told, w
<1> QED BY <1>2, <1>3, <1>8, <1>9, <1>10, <1>11, <1>12, <1>13, <1>14 DEF Sends

\* What leaves the log, the edges and the state alone keeps the vectors theirs.
LEMMA StilKept ==
  ASSUME UNCHANGED <<state, cycles, log, observed, applied, pins>>, ops' = ops \/ ~LeadingIn,
         NEW from, NEW base, NEW whole, NEW done, Sends(from, base, whole, done)
  PROVE  Sends(from, base, whole, done)'
<1>1. /\ state' = state /\ cycles' = cycles /\ log' = log /\ observed' = observed
      /\ applied' = applied /\ pins' = pins
  OBVIOUS
<1>2. LastShifts' = LastShifts
  BY <1>1 DEF LastShifts
<1>3. LeadingIn => LeadingIn'
  BY <1>1 DEF LeadingIn
<1>4. Told(whole, LastShifts', pins') = Told(whole, LastShifts, pins)
  BY <1>1, <1>2, Zenon
<1> QED BY <1>1, <1>2, <1>3, <1>4 DEF Sends

\* to_stil renders every operation of the groups a program emits.
LEMMA GroupsRendered ==
  /\ \A target : Rendered(Goto(target))
  /\ \A tdi \in Seq(Bits) : Rendered(ShiftBits(tdi))
  /\ Rendered(Runtest(4))
  /\ \A op \in PinOps : Rendered(op)
<1>1. ASSUME NEW target PROVE Rendered(Goto(target))
  <2>1. Goto(target).kind = "goto" /\ Typed(Goto(target))
    BY GroupsTyped DEF Goto
  <2> QED BY <2>1 DEF Rendered, Typed
<1>2. ASSUME NEW tdi \in Seq(Bits) PROVE Rendered(ShiftBits(tdi))
  <2>1. ShiftBits(tdi).kind = "shift" /\ Typed(ShiftBits(tdi))
    BY GroupsTyped DEF ShiftBits
  <2> QED BY <2>1 DEF Rendered, Typed
<1>3. Rendered(Runtest(4))
  <2>1. Runtest(4).kind = "runtest"
    BY DEF Runtest
  <2>2. \A s : CyclesOf(Runtest(4), s) = Waits(4)
    BY OperationCycles DEF Idling, Waits
  <2>3. 4 \in Nat
    OBVIOUS
  <2> QED BY <2>1, <2>2, <2>3 DEF Rendered
<1>4. \A op \in PinOps : Rendered(op)
  BY DEF Rendered
<1> QED BY <1>1, <1>2, <1>3, <1>4

\* A group is a sequence of them, and no whole program's test.
LEMMA EmittedRendered ==
  ASSUME NEW b \in Blocks
  PROVE  b.kind # "test" /\ \E T : b.ops \in Seq(T) /\ \A op \in T : Rendered(op)
<1>1. ASSUME NEW opcode \in Tap!Register(IrWidth), b = LoadBlock(opcode)
      PROVE  \E T : b.ops \in Seq(T) /\ \A op \in T : Rendered(op)
  <2> DEFINE T == {Goto("SHIFT_IR"), ShiftBits(LoadBits(opcode)), Goto("RUN_TEST_IDLE")}
  <2>1. LoadBits(opcode) \in Seq(Bits)
    BY SelectLoads DEF LoadBits, LoadProgram
  <2>2. \A op \in T : Rendered(op)
    BY <2>1, GroupsRendered
  <2>3. b.ops = << Goto("SHIFT_IR"), ShiftBits(LoadBits(opcode)), Goto("RUN_TEST_IDLE") >>
    BY <1>1, Kinds DEF select_instruction, LoadBits
  <2>4. b.ops \in Seq(T)
    BY <2>3
  <2> QED BY <2>2, <2>4
<1>2. ASSUME NEW t \in UNION {[1 .. n -> Bits] : n \in ScanLengths}, b = ScanBlock(t)
      PROVE  \E T : b.ops \in Seq(T) /\ \A op \in T : Rendered(op)
  <2> DEFINE T == {Goto("SHIFT_DR"), ShiftBits(t), Goto("RUN_TEST_IDLE")}
  <2>1. t \in Seq(Bits)
    <3>1. PICK n \in ScanLengths : t \in [1 .. n -> Bits]
      BY <1>2
    <3>2. n \in Nat
      BY PlayAssumption
    <3> QED BY <3>1, <3>2
  <2>2. \A op \in T : Rendered(op)
    BY <2>1, GroupsRendered
  <2>3. b.ops = << Goto("SHIFT_DR"), ShiftBits(t), Goto("RUN_TEST_IDLE") >>
    BY <1>2, Kinds DEF DrScan
  <2>4. b.ops \in Seq(T)
    BY <2>3
  <2> QED BY <2>2, <2>4
<1>3. ASSUME NEW op \in PinOps, b = PinBlock(op)
      PROVE  \E T : b.ops \in Seq(T) /\ \A o \in T : Rendered(o)
  <2>1. b.ops = << op >>
    BY <1>3 DEF PinBlock
  <2>2. b.ops \in Seq({op})
    BY <2>1
  <2> QED BY <2>2, GroupsRendered
<1>4. ASSUME b = WaitBlock PROVE \E T : b.ops \in Seq(T) /\ \A op \in T : Rendered(op)
  <2>1. b.ops = << Runtest(4) >>
    BY <1>4 DEF WaitBlock
  <2>2. b.ops \in Seq({Runtest(4)})
    BY <2>1
  <2> QED BY <2>2, GroupsRendered
<1>5. ASSUME b = ResetBlock \/ b = UnsettledBlock
      PROVE  \E T : b.ops \in Seq(T) /\ \A op \in T : Rendered(op)
  <2>1. b.ops = TmsReset \/ b.ops = UnsettledReset
    BY <1>5 DEF ResetBlock, UnsettledBlock
  <2>2. b.ops \in Seq({Goto("TEST_LOGIC_RESET"), Goto("RUN_TEST_IDLE")})
    BY <2>1, ResetsReset DEF ResetProgram
  <2> QED BY <2>2, GroupsRendered
<1>6. \/ \E opcode \in Tap!Register(IrWidth) : b = LoadBlock(opcode)
      \/ \E t \in UNION {[1 .. n -> Bits] : n \in ScanLengths} : b = ScanBlock(t)
      \/ \E op \in PinOps : b = PinBlock(op)
      \/ b = WaitBlock \/ b = ResetBlock \/ b = UnsettledBlock
  BY DEF Blocks, LoadBlock, ScanBlock, PinBlock, WaitBlock, ResetBlock, UnsettledBlock
<1>7. b.kind # "test"
  BY DEF Blocks
<1> QED BY <1>1, <1>2, <1>3, <1>4, <1>5, <1>6, <1>7

\* Every step keeps the vectors the program's edges.
LEMMA StilStep == StilInv /\ [Next]_vars => StilInv'
<1> SUFFICES ASSUME StilInv, [Next]_vars PROVE StilInv'
  OBVIOUS
<1>1. /\ Sequence(log) /\ Sequence(observed) /\ plan \in Seq(Tests)
      /\ block.kind # "test" =>
           /\ state \in Tap!TapState /\ OpsRendered
           /\ \E from, base, whole, done : Sends(from, base, whole, done)
  BY DEF StilInv
<1>2. ASSUME UNCHANGED <<state, cycles, log, observed, applied, pins>>, ops' = ops \/ ~LeadingIn,
             block.kind # "test"
      PROVE  /\ state' \in Tap!TapState
             /\ \E from, base, whole, done : Sends(from, base, whole, done)'
  <2>1. PICK from, base, whole, done : Sends(from, base, whole, done)
    BY <1>1, <1>2
  <2>2. Sends(from, base, whole, done)'
    BY <1>2, <2>1, StilKept
  <2> QED BY <1>1, <1>2, <2>2
<1>3. ASSUME NEW b \in Blocks, Emit(b) PROVE StilInv'
  <2>1. /\ ops = << >> /\ ops' = b.ops /\ plan' = plan /\ block.kind # "test"
        /\ UNCHANGED <<state, cycles, log, observed, applied, pins>>
    BY <1>3 DEF Emit, Idle, tapVars
  <2>2. ~LeadingIn
    BY <2>1 DEF LeadingIn, TmsReset
  <2>3. OpsRendered'
    BY <2>1, EmittedRendered DEF OpsRendered
  <2> QED BY <1>1, <1>2, <2>1, <2>2, <2>3 DEF StilInv
<1>4. CASE EmitTest
  <2>1. block' = Head(plan) /\ plan # << >> /\ log' = log /\ observed' = observed
    BY <1>4 DEF EmitTest
  <2>2. plan' = Tail(plan)
    BY <1>4 DEF EmitTest
  <2>3. Head(plan) \in Tests /\ Tail(plan) \in Seq(Tests)
    BY <1>1, <2>1, HeadTailProperties
  <2>4. block'.kind = "test"
    BY <2>1, <2>3, TestsTyped
  <2> QED BY <1>1, <2>1, <2>2, <2>3, <2>4 DEF StilInv
<1>5. CASE StartOp
  <2>1. /\ ops # << >> /\ ~raised /\ state' = state /\ block' = block /\ plan' = plan
        /\ \/ /\ raised' = TRUE
              /\ UNCHANGED <<ops, cycles, log, observed, applied, pins>>
           \/ /\ raised' = raised /\ ops' = Tail(ops) /\ log' = Append(log, Head(ops))
              /\ observed' = observed \/ observed' = Append(observed, << >>)
    BY <1>5 DEF StartOp, tapVars
  <2>2. CASE raised'
    <3>1. UNCHANGED <<ops, block, plan, state, cycles, log, observed, applied, pins>>
      BY <2>1, <2>2
    <3>2. OpsRendered => OpsRendered'
      BY <3>1 DEF OpsRendered
    <3> QED BY <1>1, <1>2, <3>1, <3>2 DEF StilInv
  <2>3. CASE ~raised'
    <3>1. /\ ops' = Tail(ops) /\ log' = Append(log, Head(ops))
          /\ observed' = observed \/ observed' = Append(observed, << >>)
      BY <2>1, <2>3
    <3>2. Sequence(log') /\ Sequence(observed')
      BY <1>1, <3>1, StillSequence
    <3>3. ASSUME block.kind # "test"
          PROVE  /\ state' \in Tap!TapState /\ OpsRendered'
                 /\ \E from, base, whole, done : Sends(from, base, whole, done)'
      <4>1. OpsRendered /\ state \in Tap!TapState
        BY <1>1, <3>3
      <4>2. OpsRendered'
        <5>1. PICK T : ops \in Seq(T) /\ \A op \in T : Rendered(op)
          BY <4>1 DEF OpsRendered
        <5>2. Tail(ops) \in Seq(T)
          BY <2>1, <5>1, HeadTailProperties
        <5> QED BY <3>1, <5>1, <5>2 DEF OpsRendered
      <4>3. PICK from, base, whole, done : Sends(from, base, whole, done)
        BY <1>1, <3>3
      <4>4. \E here, base1, sends : Sends(here, base1, sends, 0)'
        BY <1>5, <2>3, <4>1, <4>3, StilStarts
      <4> QED BY <2>1, <4>1, <4>2, <4>4
    <3> QED BY <2>1, <3>2, <3>3 DEF StilInv
  <2> QED BY <2>2, <2>3
<1>6. CASE PlayTick
  <2>1. /\ log' = log /\ ops' = ops /\ block' = block /\ plan' = plan
        /\ \/ observed' = observed
           \/ observed' = [observed EXCEPT ![Len(observed)] = Append(observed[Len(observed)], tdo')]
    BY <1>6 DEF PlayTick
  <2>2. Sequence(log') /\ Sequence(observed') /\ (OpsRendered => OpsRendered')
    BY <1>1, <2>1, StillSequence DEF OpsRendered
  <2>3. ASSUME block.kind # "test"
        PROVE  /\ state' \in Tap!TapState
               /\ \E from, base, whole, done : Sends(from, base, whole, done)'
    <3>1. PICK from, base, whole, done : Sends(from, base, whole, done)
      BY <1>1, <2>3
    <3>2. PICK e : e = tdo'
      OBVIOUS
    <3>3. Sends(from, base, whole, done + 1)'
      BY <1>6, <3>1, <3>2, StilTicks
    <3>4. PICK tms \in Bits : state' = Tap!next_state(state, tms)
      <4>1. whole \in Seq(Cycle) /\ Rest(cycles, whole, done)
        BY <3>1 DEF Sends
      <4>2. /\ whole[done + 1][1] \in Bits
            /\ Tap!Tick(whole[done + 1][1], whole[done + 1][2], TailBit(shift, po))
        BY <1>6, <4>1, CycleEffect
      <4> QED BY <4>2 DEF Tap!Tick
    <3>5. \A s \in Tap!TapState, bit \in Bits : Tap!next_state(s, bit) \in Tap!TapState
      BY DEF Tap!next_state, Tap!TRANSITIONS, Tap!TapState, Bits
    <3> QED BY <1>1, <2>3, <3>3, <3>4, <3>5
  <2> QED BY <1>1, <2>1, <2>2, <2>3 DEF StilInv
<1>7. CASE PlayTickRaises \/ UNCHANGED vars
  <2>1. UNCHANGED <<ops, block, plan, state, cycles, log, observed, applied, pins>>
    BY <1>7 DEF PlayTickRaises, vars, tapVars
  <2>2. OpsRendered => OpsRendered'
    BY <2>1 DEF OpsRendered
  <2> QED BY <1>1, <1>2, <2>1, <2>2 DEF StilInv
<1> QED BY <1>3, <1>4, <1>5, <1>6, <1>7 DEF Next

\* A tester that runs the STIL of a program gives the chip the clock edges the
\* program means, whatever its operations and however many, though to_stil
\* tracks a state of its own, counts a Runtest up to three, splits the opening
\* loop and drives a declared input from a snapshot (to_stil, _walk_cycles,
\* settle).
THEOREM StilPlaysTheProgram == Spec => []StilIsTheProgram
<1>1. StilInv => StilIsTheProgram
  <2> SUFFICES ASSUME StilInv, cycles = << >>, block.kind # "test"
               PROVE  EdgesOf(to_stil(log)) = applied
    BY DEF StilIsTheProgram
  <2>1. Sequence(log)
    BY DEF StilInv
  <2>2. PICK from, base, whole, done : Sends(from, base, whole, done)
    BY DEF StilInv
  <2> DEFINE w == Walked(log)
  <2>3. /\ Vectors(w.out) /\ whole \in Seq(Cycle) /\ Rest(cycles, whole, done)
        /\ Tested(w.out).edges = base \o Told(whole, LastShifts, pins)
        /\ applied = base \o SubSeq(Told(whole, LastShifts, pins), 1, done)
    BY <2>2 DEF Sends, Renders
  <2>4. EdgesOf(to_stil(log)) = Tested(w.out).edges
    <3>1. _walk_cycles(log) = w.out
      BY <2>1, WalkedOn
    <3>2. to_stil(log) = FlattenSeq([n \in DOMAIN w.out |-> StatementsOf(n, w.out[n])])
      BY <3>1 DEF to_stil
    <3> HIDE DEF w
    <3> QED BY <2>3, <3>2, StatementsRun
  <2>5. SubSeq(Told(whole, LastShifts, pins), 1, done) = Told(whole, LastShifts, pins)
    <3>1. done = Len(whole)
      BY <2>3, RestEnds
    <3>2. PICK shifts : shifts = LastShifts
      OBVIOUS
    <3>3. PICK told : told = Told(whole, shifts, pins)
      OBVIOUS
    <3>4. PICK E : told \in Seq(E) /\ Len(told) = Len(whole)
      BY <2>3, <3>3, ToldIs
    <3>5. SubSeq(told, 1, done) = told
      BY <3>1, <3>4, SubSeqFull
    <3> QED BY <3>2, <3>3, <3>5, Zenon
  <2> HIDE DEF w
  <2> QED BY <2>3, <2>4, <2>5
<1>2. Init => StilInv
  BY StilInit
<1>3. StilInv /\ [Next]_vars => StilInv'
  BY StilStep
<1> QED BY <1>1, <1>2, <1>3, PTL DEF Spec
=============================================================================
