------------------------- MODULE IntegrityProbeProofs -------------------------
(***************************************************************************)
(* tap_integrity.py's program on the network, for every network            *)
(* validate_physical_graph accepts that has a unit and whose mux is at the *)
(* TDO end with no arm at 0 (MuxesLast, NoArmZero), every choice of live   *)
(* instruments and every margin.  The argument: a program of scans takes   *)
(* the network from what it carries to what the program takes to be open,  *)
(* one scan at a time (Through); a scan commits the same in the two models *)
(* and in the chip, whatever the live instruments captured; and TDO shows  *)
(* of all three the same cells, then the same bits fed.                    *)
(***************************************************************************)
EXTENDS IntegrityProbe, ScanNetworkProofs

----------------------------------------------------------------------------
(* What a target requires, depth by depth (stage_open_sequence).            *)

Fits(b) == \A s \in DOMAIN b : s \in Slots /\ b[s] \in 0 .. Pow2[Width[s]] - 1
Passes(a, b) ==
  /\ Fits(b)
  /\ \A s \in DOMAIN a : Live(a, s)
  /\ \A s \in DOMAIN b : Live(a, s)

\* The steps a target asks for on the way to one of its slots.
Asked(t, s, d) ==
  IF d <= Len(Path[s]) THEN RequiredStep(s, d) ELSE [slot |-> s, depth |-> d, value |-> t[s]]

\* What is required is the steps to each slot of the target and the slot itself.
LEMMA RequiredIs ==
  ASSUME NEW t, Fits(t)
  PROVE  \A r : r \in Required(t) <=>
           \E s \in DOMAIN t : \E d \in 1 .. Len(Path[s]) + 1 : r = Asked(t, s, d)
<1> DEFINE Way(s) == path_to_sib_name(s, t[s])
           StepsOf(p) == {[slot |-> p[d].slot, depth |-> d, value |-> p[d].value] : d \in DOMAIN p}
<1>1. ASSUME NEW s \in DOMAIN t
      PROVE  StepsOf(Way(s)) = {Asked(t, s, d) : d \in 1 .. Len(Path[s]) + 1}
  <2> DEFINE x == [slot |-> s, value |-> t[s]]  p == Append(Path[s], x)  n == Len(Path[s])
  <2>1. s \in Units /\ Path[s] \in Seq(Step) /\ n \in Nat
    BY GateStep DEF Fits, Units
  <2>2. x \in Step
    BY DEF Fits, Step
  <2>3. DOMAIN p = 1 .. n + 1 /\ p[n + 1] = x /\ \A d \in 1 .. n : p[d] = Path[s][d]
    BY <2>1, <2>2
  <2>4. ASSUME NEW d \in 1 .. n + 1
        PROVE  [slot |-> p[d].slot, depth |-> d, value |-> p[d].value] = Asked(t, s, d)
    <3>1. CASE d <= n
      <4>1. d \in 1 .. n
        BY <2>1, <3>1
      <4> HIDE DEF p
      <4> QED BY <2>3, <3>1, <4>1 DEF Asked, RequiredStep
    <3>2. CASE ~(d <= n)
      <4>1. d = n + 1
        BY <2>1, <3>2
      <4>2. p[d].slot = s /\ p[d].value = t[s]
        BY <2>3, <4>1
      <4> HIDE DEF p
      <4> QED BY <3>2, <4>2 DEF Asked
    <3> QED BY <3>1, <3>2
  <2>5. Way(s) = p
    BY DEF path_to_sib_name
  <2> HIDE DEF p, n
  <2>6. StepsOf(p) = {Asked(t, s, d) : d \in 1 .. n + 1}
    BY <2>3, <2>4
  <2> QED BY <2>5, <2>6 DEF n
<1> HIDE DEF StepsOf
<1>2. Required(t) = UNION {StepsOf(p) : p \in {Way(s) : s \in DOMAIN t}}
  BY DEF Required, StepsOf
<1> HIDE DEF Way
<1>3. ASSUME NEW r PROVE r \in Required(t) <=> \E s \in DOMAIN t : r \in StepsOf(Way(s))
  BY <1>2
<1>4. ASSUME NEW r
      PROVE  r \in Required(t) <=>
               \E s \in DOMAIN t : \E d \in 1 .. Len(Path[s]) + 1 : r = Asked(t, s, d)
  <2>1. ASSUME NEW s \in DOMAIN t
        PROVE  r \in StepsOf(Way(s)) <=> \E d \in 1 .. Len(Path[s]) + 1 : r = Asked(t, s, d)
    BY <1>1
  <2> QED BY <1>3, <2>1
<1> QED BY <1>4

\* A required step is a slot at its own depth and at a value its field holds,
\* and the steps above it are required too.
LEMMA RequiredSlot ==
  ASSUME NEW t, Fits(t), NEW r \in Required(t)
  PROVE  /\ r.slot \in Slots /\ r.slot \in Units /\ r.value \in 0 .. Pow2[Width[r.slot]] - 1
         /\ Len(Path[r.slot]) \in Nat /\ r.depth = Len(Path[r.slot]) + 1
         /\ \A j \in 1 .. Len(Path[r.slot]) :
              \E q \in Required(t) : /\ q.slot = Path[r.slot][j].slot /\ q.depth = j
                                     /\ q.value = Path[r.slot][j].value
<1>1. PICK s \in DOMAIN t : \E d \in 1 .. Len(Path[s]) + 1 : r = Asked(t, s, d)
  BY RequiredIs
<1>2. PICK d \in 1 .. Len(Path[s]) + 1 : r = Asked(t, s, d)
  BY <1>1
<1>3. s \in Slots /\ s \in Units /\ Len(Path[s]) \in Nat /\ t[s] \in 0 .. Pow2[Width[s]] - 1
  BY GateStep DEF Fits, Units
<1>4. /\ r.slot \in Slots /\ r.slot \in Units /\ r.value \in 0 .. Pow2[Width[r.slot]] - 1
      /\ r.depth = d /\ Len(Path[r.slot]) = d - 1
      /\ \A j \in 1 .. d - 1 : Path[r.slot][j] = Path[s][j]
  <2>1. CASE d <= Len(Path[s])
    <3>1. d \in 1 .. Len(Path[s])
      BY <1>3, <2>1
    <3>2. r.slot = Path[s][d].slot /\ r.depth = d /\ r.value = Path[s][d].value
      BY <1>2, <2>1 DEF Asked, RequiredStep
    <3> DEFINE x == Path[s][d]
    <3>3. /\ x.slot \in Slots /\ x.slot \in Units /\ x.value \in 0 .. Pow2[Width[x.slot]] - 1
          /\ Len(Path[x.slot]) = d - 1 /\ \A j \in 1 .. d - 1 : Path[x.slot][j] = Path[s][j]
      BY <1>3, <3>1, StepIs
    <3> HIDE DEF x
    <3>4. r.slot = x.slot /\ r.value = x.value
      BY <3>2 DEF x
    <3> QED BY <3>2, <3>3, <3>4
  <2>2. CASE ~(d <= Len(Path[s]))
    <3>1. d = Len(Path[s]) + 1
      BY <1>3, <2>2
    <3>2. r.slot = s /\ r.depth = d /\ r.value = t[s]
      BY <1>2, <2>2 DEF Asked
    <3> QED BY <1>3, <3>1, <3>2
  <2> QED BY <2>1, <2>2
<1>5. ASSUME NEW j \in 1 .. d - 1
      PROVE  \E q \in Required(t) : /\ q.slot = Path[r.slot][j].slot /\ q.depth = j
                                    /\ q.value = Path[r.slot][j].value
  <2>1. j \in 1 .. Len(Path[s]) /\ j \in 1 .. Len(Path[s]) + 1 /\ j <= Len(Path[s])
    BY <1>3
  <2> DEFINE q == Asked(t, s, j)
  <2>2. q \in Required(t)
    BY <2>1, RequiredIs
  <2>3. q.slot = Path[s][j].slot /\ q.depth = j /\ q.value = Path[s][j].value
    BY <2>1 DEF Asked, RequiredStep
  <2> QED BY <1>4, <2>2, <2>3
<1> QED BY <1>3, <1>4, <1>5

\* A target that can be opened: it names slots, at values that their fields hold,
\* and does not require a slot at two values.
Aim(t) ==
  /\ DOMAIN t # {} /\ Fits(t)
  /\ \A r \in Required(t) : \A q \in Required(t) : r.slot = q.slot => r.value = q.value

\* What is open after the round of a depth.
Down(t, e) == AsMap({r \in Required(t) : r.depth <= e})

\* The rounds up to a depth open just the steps required up to it.
LEMMA DownIs ==
  ASSUME NEW t, Aim(t), NEW e
  PROVE  /\ \A s \in DOMAIN Down(t, e) : \E r \in Required(t) :
              r.slot = s /\ r.depth <= e /\ r.value = Down(t, e)[s]
         /\ \A r \in Required(t) :
              r.depth <= e => r.slot \in DOMAIN Down(t, e) /\ Down(t, e)[r.slot] = r.value
<1> DEFINE steps == {r \in Required(t) : r.depth <= e}  names == {r.slot : r \in steps}
           pick(s) == CHOOSE r \in steps : r.slot = s
<1>1. Down(t, e) = [s \in names |-> pick(s).value]
  BY DEF Down, AsMap
<1>2. ASSUME NEW s \in names PROVE pick(s) \in steps /\ pick(s).slot = s
  <2>1. \E r \in steps : r.slot = s
    OBVIOUS
  <2> HIDE DEF steps
  <2> QED BY <2>1
<1> HIDE DEF pick
<1>3. ASSUME NEW s \in names
      PROVE  \E r \in Required(t) : r.slot = s /\ r.depth <= e /\ r.value = Down(t, e)[s]
  BY <1>1, <1>2
<1>4. ASSUME NEW r \in Required(t), r.depth <= e
      PROVE  r.slot \in DOMAIN Down(t, e) /\ Down(t, e)[r.slot] = r.value
  <2>1. r \in steps /\ r.slot \in names
    BY <1>4
  <2>2. pick(r.slot) \in Required(t) /\ pick(r.slot).slot = r.slot
    BY <1>2, <2>1
  <2>3. pick(r.slot).value = r.value
    BY <2>2 DEF Aim
  <2> HIDE DEF names
  <2> QED BY <1>1, <2>1, <2>3
<1> HIDE DEF names
<1> QED BY <1>1, <1>3, <1>4

\* The slots of one round are in the scan path that the rounds before it leave.
LEMMA DownLive ==
  ASSUME NEW t, Aim(t), NEW e \in Nat, NEW r \in Required(t), r.depth <= e + 1
  PROVE  Live(Down(t, e), r.slot)
<1>1. /\ r.slot \in Units /\ Len(Path[r.slot]) \in Nat /\ r.depth = Len(Path[r.slot]) + 1
      /\ DOMAIN Path[r.slot] = 1 .. Len(Path[r.slot])
  BY RequiredSlot, GateStep DEF Aim
<1>2. ASSUME NEW j \in 1 .. Len(Path[r.slot])
      PROVE  /\ Path[r.slot][j].slot \in DOMAIN Down(t, e)
             /\ Down(t, e)[Path[r.slot][j].slot] = Path[r.slot][j].value
  <2>1. PICK q \in Required(t) : /\ q.slot = Path[r.slot][j].slot /\ q.depth = j
                                 /\ q.value = Path[r.slot][j].value
    BY RequiredSlot DEF Aim
  <2>2. q.depth <= e
    BY <1>1, <2>1
  <2> QED BY <2>1, <2>2, DownIs
<1> QED BY <1>1, <1>2 DEF Live

\* So each round passes to the next, and the last one can stay or close again.
LEMMA DownPasses ==
  ASSUME NEW t, Aim(t), NEW e \in Nat
  PROVE  /\ Passes(Down(t, e), Down(t, e)) /\ Passes(Down(t, e), Down(t, e + 1))
         /\ Passes(Down(t, e), << >>) /\ Passes(<< >>, Down(t, 1))
<1>1. ASSUME NEW d \in Nat PROVE Fits(Down(t, d))
  <2>1. \A s \in DOMAIN Down(t, d) : \E r \in Required(t) :
          r.slot = s /\ r.depth <= d /\ r.value = Down(t, d)[s]
    BY DownIs
  <2> QED BY <2>1, RequiredSlot DEF Fits, Aim
<1>2. ASSUME NEW s \in DOMAIN Down(t, e) PROVE Live(Down(t, e), s)
  <2>1. PICK r \in Required(t) : r.slot = s /\ r.depth <= e
    BY DownIs
  <2>2. r.depth \in Nat
    BY RequiredSlot DEF Aim
  <2>3. r.depth <= e + 1
    BY <2>1, <2>2
  <2> QED BY <2>1, <2>3, DownLive
<1>3. ASSUME NEW s \in DOMAIN Down(t, e + 1) PROVE Live(Down(t, e), s)
  <2>1. PICK r \in Required(t) : r.slot = s /\ r.depth <= e + 1
    BY DownIs
  <2> QED BY <2>1, DownLive
<1>4. ASSUME NEW s \in DOMAIN Down(t, 1) PROVE Live(<< >>, s)
  <2>1. PICK r \in Required(t) : r.slot = s /\ r.depth <= 1
    BY DownIs
  <2>2. s \in Units /\ Len(Path[s]) \in Nat /\ Len(Path[s]) + 1 <= 1
    BY <2>1, RequiredSlot DEF Aim
  <2>3. Path[s] \in Seq(Step) /\ Len(Path[s]) = 0
    BY <2>2, GateStep
  <2> QED BY <2>3 DEF Live
<1>5. DOMAIN << >> = {}
  OBVIOUS
<1>6. e + 1 \in Nat /\ 1 \in Nat
  OBVIOUS
<1> QED BY <1>1, <1>2, <1>3, <1>4, <1>5, <1>6 DEF Passes, Fits

\* A path is shorter than the order.
LEMMA PathBound ==
  ASSUME NEW u \in Units
  PROVE  Len(Path[u]) + 1 \in 1 .. N
<1> DEFINE Fine(k) == \A v \in Units : Len(Path[v]) = k => IndexOf(v) + k <= N
           P == {k \in Nat : Fine(k)}
<1>0. N \in Nat /\ \A v \in Units : IndexOf(v) \in 1 .. N
  BY OrderIndex
<1>1. 0 \in P
  BY <1>0
<1>2. ASSUME NEW k \in Nat, k \in P PROVE k + 1 \in P
  <2> SUFFICES ASSUME NEW v \in Units, Len(Path[v]) = k + 1 PROVE IndexOf(v) + (k + 1) <= N
    OBVIOUS
  <2> DEFINE g == Gate(v).slot
  <2>1. g \in Units /\ Len(Path[g]) = Len(Path[v]) - 1 /\ IndexOf(v) < IndexOf(g)
    BY GateStep
  <2> HIDE DEF g
  <2>2. Len(Path[g]) = k
    BY <2>1
  <2>3. IndexOf(g) + k <= N
    BY <1>2, <2>1, <2>2
  <2> QED BY <1>0, <2>1, <2>3
<1>3. Nat \subseteq P
  <2> HIDE DEF P
  <2> QED BY <1>1, <1>2, Induction
<1>4. Len(Path[u]) \in Nat
  BY GateStep
<1>5. Fine(Len(Path[u]))
  BY <1>3, <1>4
<1> QED BY <1>0, <1>4, <1>5

\* From a closed network a target takes one round a depth, the first at depth 1.
LEMMA RoundsOf ==
  ASSUME NEW t, Aim(t)
  PROVE  \E D \in Nat \ {0} : /\ stage_open_sequence(t, << >>) = [i \in 1 .. D |-> Down(t, i)]
                              /\ \A r \in Required(t) : r.depth <= D
<1> DEFINE required == Required(t)  depths == {r.depth : r \in required}
           mismatched == {r.depth : r \in {q \in required :
                            ~(q.slot \in DOMAIN << >> /\ << >>[q.slot] = q.value)}}
<1>1. DOMAIN << >> = {}
  OBVIOUS
<1>2. mismatched = depths
  BY <1>1
<1>3. ASSUME NEW r \in required PROVE r.depth \in 1 .. N
  BY PathBound, RequiredSlot DEF Aim
<1>4. N \in Nat
  BY OrderIndex
<1>5. 1 \in depths
  <2>1. PICK s \in DOMAIN t : TRUE
    BY DEF Aim
  <2>2. s \in Units /\ Len(Path[s]) \in Nat
    BY GateStep DEF Aim, Fits, Units
  <2>3. 1 \in 1 .. Len(Path[s]) + 1
    BY <2>2
  <2>4. Asked(t, s, 1) \in required
    BY <2>3, RequiredIs DEF Aim
  <2>5. Asked(t, s, 1).depth = 1
    BY DEF Asked, RequiredStep
  <2> QED BY <2>4, <2>5
<1>6. depths \in SUBSET (1 .. N)
  BY <1>3
<1> DEFINE D == Max(depths)
<1>7. D \in depths /\ \A d \in depths : D >= d
  <2> HIDE DEF depths
  <2> QED BY <1>4, <1>5, <1>6, MaxOf
<1>8. D \in Nat \ {0} /\ \A r \in required : r.depth <= D
  <2>1. \A d \in depths : d \in Nat \ {0}
    BY <1>4, <1>6
  <2> HIDE DEF D
  <2> QED BY <1>7, <2>1
<1>9. Min(depths) = 1
  <2> DEFINE least == CHOOSE x \in depths : \A y \in depths : x <= y
  <2> HIDE DEF depths
  <2>1. \A d \in depths : 1 <= d /\ d \in Nat
    BY <1>4, <1>6
  <2>2. \E x \in depths : \A y \in depths : x <= y
    BY <1>5, <2>1
  <2>3. least \in depths /\ \A y \in depths : least <= y
    BY <2>2
  <2>4. Min(depths) = least
    BY DEF Min
  <2> HIDE DEF least
  <2> QED BY <1>5, <2>1, <2>3, <2>4
<1>10. stage_open_sequence(t, << >>) =
         IF mismatched = {} THEN << >>
         ELSE [i \in 1 .. Max(depths) - Min(mismatched) + 1 |->
                 AsMap({r \in required : r.depth <= Min(mismatched) + i - 1})]
  BY DEF stage_open_sequence, Aim
<1> HIDE DEF D, depths, mismatched
<1>11. stage_open_sequence(t, << >>) = [i \in 1 .. D - 1 + 1 |-> AsMap({r \in required : r.depth <= 1 + i - 1})]
  BY <1>2, <1>5, <1>9, <1>10 DEF D
<1>12. D - 1 + 1 = D /\ \A i \in 1 .. D : 1 + i - 1 = i
  BY <1>8
<1>13. stage_open_sequence(t, << >>) = [i \in 1 .. D |-> AsMap({r \in required : r.depth <= i})]
  BY <1>11, <1>12
<1> QED BY <1>8, <1>13 DEF Down

----------------------------------------------------------------------------
(* The probe targets can all be opened.                                     *)

\* What is probed: one step alone, or every SIB outside a mux.
Steps == UNION {{Path[u][i] : i \in 1 .. Len(Path[u])} : u \in Units}
Alone(x) == [s \in {x.slot} |-> x.value]
AllSibs == [s \in SibsOutsideMuxes |-> 1]
Probed == {Alone(x) : x \in Steps} \cup (IF Cardinality(SibsOutsideMuxes) > 1 THEN {AllSibs} ELSE {})

\* The single targets are steps, each alone (_probe_targets).
LEMMA SingleTargetsAre == SingleTargets \in Seq({Alone(x) : x \in Steps})
<1> DEFINE singles == {Alone(x) : x \in Steps}
           At(n) == FlattenSeq(MetAt(Order[n]))
<1>0. DOMAIN Order = 1 .. N /\ N \in Nat /\ \A n \in 1 .. N : Order[n] \in Units
  <2>1. DOMAIN Order = 1 .. N
    BY NetworkAssumption DEF ValidPhysicalGraph, N
  <2> QED BY <2>1, OrderIndex
<1>1. ASSUME NEW u \in Units PROVE FlattenSeq(MetAt(u)) \in Seq(singles)
  <2> DEFINE n == Len(Path[u])
  <2>1. DOMAIN Path[u] = 1 .. n /\ n \in Nat
    BY GateStep
  <2>2. ASSUME NEW i \in 1 .. n
        PROVE  /\ << Alone(Path[u][i]) >> \in Seq(singles) /\ << >> \in Seq(singles)
    <3>1. Alone(Path[u][i]) \in singles
      BY DEF Steps
    <3> HIDE DEF singles
    <3> QED BY <3>1
  <2> HIDE DEF singles, n
  <2>3. ASSUME NEW i \in 1 .. n PROVE MetAt(u)[i] \in Seq(singles)
    <3>1. MetAt(u)[i] = IF \A v \in Below(Path[u][i]) : IndexOf(u) <= IndexOf(v)
                          THEN << Alone(Path[u][i]) >> ELSE << >>
      BY <2>1 DEF MetAt, Alone
    <3> QED BY <2>2, <3>1
  <2>4. MetAt(u) \in Seq(Seq(singles))
    <3>1. MetAt(u) = [i \in 1 .. n |-> MetAt(u)[i]]
      BY <2>1 DEF MetAt
    <3> QED BY <2>1, <2>3, <3>1, FunctionIsSeq
  <2> QED BY <2>4, FlattenMembers
<1> HIDE DEF singles
<1>2. [n \in 1 .. N |-> At(n)] \in Seq(Seq(singles))
  <2>1. \A n \in 1 .. N : At(n) \in Seq(singles)
    BY <1>0, <1>1
  <2> HIDE DEF At
  <2>2. [n \in 1 .. N |-> At(n)] \in [1 .. N -> Seq(singles)]
    BY <2>1
  <2> QED BY <1>0, <2>2, FunctionIsSeq
<1>3. SingleTargets \in Seq(singles)
  <2>1. FlattenSeq([n \in 1 .. N |-> At(n)]) \in Seq(singles)
    BY <1>2, FlattenMembers
  <2>2. SingleTargets = FlattenSeq([n \in 1 .. N |-> At(n)])
    BY <1>0 DEF SingleTargets
  <2> QED BY <2>1, <2>2
<1> QED BY <1>3 DEF singles

\* ... and every SIB outside a mux may come after them.
LEMMA ProbeTargetsAre == ProbeTargets \in Seq(Probed)
<1>4. {Alone(x) : x \in Steps} \subseteq Probed
  BY DEF Probed
<1>5. SingleTargets \in Seq(Probed)
  BY <1>4, SingleTargetsAre
<1>6. CASE Cardinality(SibsOutsideMuxes) > 1
  <2>1. AllSibs \in Probed
    BY <1>6 DEF Probed
  <2>2. ProbeTargets = SingleTargets \o << AllSibs >>
    BY <1>6 DEF ProbeTargets, AllSibs
  <2>3. << AllSibs >> \in Seq(Probed)
    BY <2>1
  <2> QED BY <1>5, <2>2, <2>3
<1>7. CASE ~(Cardinality(SibsOutsideMuxes) > 1)
  <2>1. ProbeTargets = SingleTargets \o << >>
    BY <1>7 DEF ProbeTargets
  <2> QED BY <1>5, <2>1
<1> QED BY <1>6, <1>7

\* If every SIB outside a mux is probed, that comes last.
LEMMA LastProbed ==
  ASSUME Cardinality(SibsOutsideMuxes) > 1
  PROVE  ProbeTargets # << >> /\ ProbeTargets[Len(ProbeTargets)] = AllSibs
<1>1. ProbeTargets = SingleTargets \o << AllSibs >>
  BY DEF ProbeTargets, AllSibs
<1>2. SingleTargets \in Seq({Alone(x) : x \in Steps})
  BY SingleTargetsAre
<1>3. PICK S : SingleTargets \in Seq(S) /\ AllSibs \in S
  <2>1. SingleTargets \in Seq({Alone(x) : x \in Steps} \cup {AllSibs})
    BY <1>2
  <2> QED BY <2>1
<1> QED BY <1>1, <1>3

\* The slots on the way to a step of a path are all different.
LEMMA AloneAims == ASSUME NEW x \in Steps PROVE Aim(Alone(x))
<1> DEFINE t == Alone(x)
<1>1. PICK u \in Units : \E i \in 1 .. Len(Path[u]) : x = Path[u][i]
  BY DEF Steps
<1>2. x.slot \in Slots /\ x.value \in 0 .. Pow2[Width[x.slot]] - 1
  BY <1>1, StepIs
<1>3. DOMAIN t = {x.slot} /\ t[x.slot] = x.value
  BY DEF Alone
<1> HIDE DEF t
<1>4. Fits(t)
  BY <1>2, <1>3 DEF Fits
<1>5. ASSUME NEW r \in Required(t), NEW q \in Required(t), r.slot = q.slot PROVE r.value = q.value
  <2>1. PICK d \in 1 .. Len(Path[x.slot]) + 1 : r = Asked(t, x.slot, d)
    BY <1>3, <1>4, RequiredIs
  <2>2. PICK e \in 1 .. Len(Path[x.slot]) + 1 : q = Asked(t, x.slot, e)
    BY <1>3, <1>4, RequiredIs
  <2>3. r.depth = q.depth
    <3>1. r.depth = Len(Path[r.slot]) + 1
      BY <1>4, RequiredSlot
    <3>2. q.depth = Len(Path[q.slot]) + 1
      BY <1>4, RequiredSlot
    <3> QED BY <1>5, <3>1, <3>2
  <2>4. r.depth = d /\ q.depth = e
    BY <2>1, <2>2 DEF Asked, RequiredStep
  <2>5. d = e
    BY <2>3, <2>4
  <2> QED BY <2>1, <2>2, <2>5
<1>6. Aim(t)
  BY <1>3, <1>4, <1>5 DEF Aim
<1> QED BY <1>6 DEF t

\* All the SIBs outside a mux: what they require is SIBs, each open.
LEMMA AllSibsAim ==
  ASSUME Cardinality(SibsOutsideMuxes) > 1
  PROVE  Aim(AllSibs) /\ \A r \in Required(AllSibs) : r.slot \in Sibs
<1> DEFINE t == AllSibs
<1>1. DOMAIN t = SibsOutsideMuxes /\ \A s \in DOMAIN t : t[s] = 1
  BY DEF AllSibs
<1>2. SibsOutsideMuxes # {}
  <2>1. Cardinality({}) = 0
    BY FS_EmptySet
  <2> QED BY <2>1
<1> HIDE DEF t
<1>3. ASSUME NEW s \in Sibs PROVE s \in Slots /\ s \in Units /\ 1 \in 0 .. Pow2[Width[s]] - 1 /\ Arms(s) = {1}
  <2>1. Width[s] = 1 /\ Arms(s) = {1}
    BY NetworkAssumption DEF ValidPhysicalGraph
  <2>2. PICK p \in Nat \ {0} : p = Pow2[0] /\ Pow2[0 + 1] = 2 * p
    BY Pow2Is
  <2>3. Pow2[1] = 2 * p
    BY <2>2
  <2>4. 1 \in 0 .. 2 * p - 1
    OBVIOUS
  <2> QED BY <2>1, <2>3, <2>4 DEF Slots, Units
<1>4. Fits(t)
  BY <1>1, <1>3 DEF Fits, SibsOutsideMuxes
<1>5. ASSUME NEW r \in Required(t) PROVE r.slot \in Sibs /\ r.value = 1
  <2>1. PICK s \in DOMAIN t : \E d \in 1 .. Len(Path[s]) + 1 : r = Asked(t, s, d)
    BY <1>4, RequiredIs
  <2>2. PICK d \in 1 .. Len(Path[s]) + 1 : r = Asked(t, s, d)
    BY <2>1
  <2>3. /\ s \in Sibs /\ s \in Units /\ Len(Path[s]) \in Nat /\ t[s] = 1
        /\ \A j \in 1 .. Len(Path[s]) : Path[s][j].slot \in Sibs
    <3>1. s \in Sibs /\ \A j \in DOMAIN Path[s] : Path[s][j].slot \in Sibs
      BY <1>1 DEF SibsOutsideMuxes
    <3>2. s \in Units /\ t[s] = 1
      BY <1>1, <1>3, <3>1
    <3> QED BY <3>1, <3>2, GateStep
  <2>4. CASE d <= Len(Path[s])
    <3>1. d \in 1 .. Len(Path[s])
      BY <2>3, <2>4
    <3>2. r.slot = Path[s][d].slot /\ r.value = Path[s][d].value
      BY <2>2, <2>4 DEF Asked, RequiredStep
    <3>3. Path[s][d].value \in Arms(Path[s][d].slot) /\ Path[s][d].slot \in Sibs
      BY <2>3, <3>1, StepIs
    <3> QED BY <1>3, <3>2, <3>3
  <2>5. CASE ~(d <= Len(Path[s]))
    BY <2>2, <2>3, <2>5 DEF Asked
  <2> QED BY <2>4, <2>5
<1>6. Aim(t)
  BY <1>1, <1>2, <1>4, <1>5 DEF Aim
<1> QED BY <1>5, <1>6 DEF t

\* So whatever is probed can be opened.
LEMMA ProbedAims == ASSUME NEW t \in Probed PROVE Aim(t)
<1>1. CASE t \in {Alone(x) : x \in Steps}
  BY <1>1, AloneAims
<1>2. CASE Cardinality(SibsOutsideMuxes) > 1 /\ t = AllSibs
  BY <1>2, AllSibsAim
<1> QED BY <1>1, <1>2 DEF Probed

----------------------------------------------------------------------------
(* The scans of the program, and where they lead.                           *)

\* The maps of what is open.
Opens == UNION {[S -> Nat] : S \in SUBSET Slots}

\* What a scan of the program is for: it leaves the network still, under another
\* instruction, or it ends with the bits that take it from what is open to what is
\* to be.  A probe feeds the sentinel first and changes nothing.
Feeds(m, scan, from, to) ==
  /\ scan.open = from
  /\ \/ scan.kind = "unselected" /\ to = from /\ scan.tdi \in Seq({0, 1})
     \/ /\ scan.kind # "unselected" /\ Passes(from, to)
        /\ \E pre \in Seq({0, 1}) :
             /\ scan.tdi = pre \o Reverse(compose_bits(from, to, NoSlot, 0))
             /\ scan.kind = "probe" => to = from /\ pre = default_sentinel_pattern(m)

Scanning == INSTANCE InductionLemmas WITH Takes <- Feeds
Through(m, program, a, b) == Scanning!Passage(m, Opens, program, a, b)

\* Nothing is open, or the slots down to a depth are.
LEMMA OpensAre ==
  /\ << >> \in Opens
  /\ \A t : Aim(t) => \A e \in Nat : Down(t, e) \in Opens
<1>1. << >> \in Opens
  <2>1. << >> \in [{} -> Nat]
    OBVIOUS
  <2> QED BY <2>1 DEF Opens
<1>2. ASSUME NEW t, Aim(t), NEW e \in Nat PROVE Down(t, e) \in Opens
  <2> DEFINE b == Down(t, e)
  <2>1. b = [s \in DOMAIN b |-> b[s]]
    BY DEF Down, AsMap
  <2>2. Fits(b)
    BY <1>2, DownPasses DEF Passes
  <2>3. DOMAIN b \in SUBSET Slots /\ \A s \in DOMAIN b : b[s] \in Nat
    <3> HIDE DEF b
    <3>1. ASSUME NEW s \in DOMAIN b PROVE b[s] \in Nat
      <4>1. s \in Slots /\ b[s] \in 0 .. Pow2[Width[s]] - 1
        BY <2>2 DEF Fits
      <4> QED BY <4>1
    <3> QED BY <2>2, <3>1 DEF Fits
  <2> HIDE DEF b
  <2>4. b \in [DOMAIN b -> Nat]
    BY <2>1, <2>3
  <2>5. b \in Opens
    BY <2>3, <2>4 DEF Opens
  <2> QED BY <2>5 DEF b
<1> QED BY <1>1, <1>2

\* The bits of a scan that opens or closes slots.
LEMMA ScanFeeds ==
  ASSUME NEW m, NEW a, NEW b, Passes(a, b), NEW kind \in {"round", "close"}
  PROVE  Feeds(m, Scan(kind, a, Reverse(compose_bits(a, b, NoSlot, 0))), a, b)
<1> DEFINE back == Reverse(compose_bits(a, b, NoSlot, 0))  scan == Scan(kind, a, back)
<1>1. \A s \in DOMAIN b : b[s] \in Nat
  <2>1. ASSUME NEW s \in DOMAIN b PROVE b[s] \in Nat
    <3>1. b[s] \in 0 .. Pow2[Width[s]] - 1
      BY DEF Passes, Fits
    <3> QED BY <3>1
  <2> QED BY <2>1
<1>2. back \in Seq({0, 1})
  <2>1. SendsEach(a, b, NoSlot, 0)
    BY <1>1, ComposedBits
  <2> QED BY <2>1 DEF SendsEach
<1>3. scan.kind = kind /\ scan.open = a /\ scan.tdi = back
  BY DEF Scan
<1> HIDE DEF back
<1>4. << >> \in Seq({0, 1}) /\ back = << >> \o back
  BY <1>2
<1> HIDE DEF scan
<1>5. Feeds(m, scan, a, b)
  BY <1>3, <1>4 DEF Feeds, back
<1> QED BY <1>5 DEF scan, back

\* The fed patterns are bits.
LEMMA PatternBits ==
  ASSUME NEW n \in Nat
  PROVE  /\ default_sentinel_pattern(n) \in Seq({0, 1}) /\ Len(default_sentinel_pattern(n)) = n
         /\ Alternating(n, 0) \in Seq({0, 1}) /\ Alternating(n, 1) \in Seq({0, 1})
<1>1. \A i \in 1 .. n : ((i - 1) \div 2) % 2 \in {0, 1} /\ (0 + i - 1) % 2 \in {0, 1} /\ (1 + i - 1) % 2 \in {0, 1}
  OBVIOUS
<1> QED BY <1>1 DEF default_sentinel_pattern, Alternating

\* A probe's.
LEMMA ProbeFeeds ==
  ASSUME NEW m \in Nat, NEW b, Passes(b, b)
  PROVE  Feeds(m, Scan("probe", b, default_sentinel_pattern(m)
                                     \o Reverse(compose_bits(b, b, NoSlot, 0))), b, b)
<1> DEFINE pre == default_sentinel_pattern(m)  back == Reverse(compose_bits(b, b, NoSlot, 0))
           scan == Scan("probe", b, pre \o back)
<1>1. scan.kind = "probe" /\ scan.open = b /\ scan.tdi = pre \o back
  BY DEF Scan
<1>2. pre \in Seq({0, 1})
  BY PatternBits
<1> HIDE DEF scan
<1>3. Feeds(m, scan, b, b)
  BY <1>1, <1>2 DEF Feeds
<1> QED BY <1>3 DEF scan

\* build_overshift_ops: through its rounds, then the probe.
LEMMA RoundsThenProbe ==
  ASSUME NEW m \in Nat, NEW c \in Opens, NEW t, NEW D \in Nat \ {0}, NEW rounds \in [1 .. D -> Opens],
         stage_open_sequence(t, c) = rounds,
         \A i \in 1 .. D : Passes(IF i = 1 THEN c ELSE rounds[i - 1], rounds[i]),
         Passes(rounds[D], rounds[D])
  PROVE  Through(m, build_overshift_ops(t, c, m), c, rounds[D])
<1> DEFINE Prior(r) == IF r = 1 THEN c ELSE rounds[r - 1]
           one(r) == Scan("round", Prior(r), Reverse(compose_bits(Prior(r), rounds[r], NoSlot, 0)))
           round == [r \in 1 .. D |-> one(r)]
           probe == Scan("probe", rounds[D], default_sentinel_pattern(m)
                                               \o Reverse(compose_bits(rounds[D], rounds[D], NoSlot, 0)))
           way == [k \in 0 .. D |-> IF k = 0 THEN c ELSE rounds[k]]
<1>1. /\ D \in 1 .. D /\ Len(rounds) = D /\ DOMAIN rounds = 1 .. D /\ rounds # << >>
  OBVIOUS
<1>2. build_overshift_ops(t, c, m) = Append(round, probe)
  <2>1. Last(rounds) = rounds[D]
    BY <1>1 DEF Last
  <2> HIDE DEF round, probe
  <2> QED BY <1>1, <2>1, Zenon DEF build_overshift_ops, round, probe
<1>3. /\ way \in [0 .. D -> Opens] /\ way[0] = c /\ way[D] = rounds[D]
      /\ \A r \in 1 .. D : way[r - 1] = Prior(r) /\ way[r] = rounds[r]
  OBVIOUS
<1>4. ASSUME NEW r \in 1 .. D PROVE Feeds(m, one(r), Prior(r), rounds[r])
  <2>1. Passes(Prior(r), rounds[r])
    OBVIOUS
  <2> HIDE DEF Prior
  <2> QED BY <2>1, ScanFeeds
<1>5. Feeds(m, probe, rounds[D], rounds[D])
  BY ProbeFeeds
<1> HIDE DEF one, probe, way, Prior
<1>6. round \in Seq({one(r) : r \in 1 .. D}) /\ Len(round) = D /\ \A r \in 1 .. D : round[r] = one(r)
  <2>1. round \in [1 .. D -> {one(r) : r \in 1 .. D}] /\ \A r \in 1 .. D : round[r] = one(r)
    OBVIOUS
  <2> HIDE DEF round
  <2> QED BY <2>1, FunctionIsSeq
<1> HIDE DEF round
<1>7. \A r \in 1 .. D : Feeds(m, round[r], way[r - 1], way[r])
  BY <1>3, <1>4, <1>6
<1>8. Through(m, round, c, rounds[D])
  BY <1>3, <1>6, <1>7 DEF Through, Scanning!Passage
<1>9. rounds[D] \in Opens
  BY <1>1
<1>10. Through(m, Append(round, probe), c, rounds[D])
  BY <1>5, <1>8, <1>9, Scanning!WayAppend DEF Through
<1> QED BY <1>2, <1>10

\* Slots that hang off one another stay in the scan path and close.
Rooted(b) == b \in Opens /\ \A s \in DOMAIN b : Live(b, s)

\* A probe of a target opens it from a closed network.
LEMMA TargetThrough ==
  ASSUME NEW m \in Nat, NEW t, Aim(t)
  PROVE  /\ Through(m, build_overshift_ops(t, << >>, m), << >>, Opened(t)) /\ Rooted(Opened(t))
         /\ \A s \in DOMAIN Opened(t) : \E r \in Required(t) : r.slot = s
<1>1. PICK D \in Nat \ {0} : stage_open_sequence(t, << >>) = [i \in 1 .. D |-> Down(t, i)]
  BY RoundsOf
<1> DEFINE rounds == [i \in 1 .. D |-> Down(t, i)]
<1>2. rounds \in [1 .. D -> Opens] /\ rounds[D] = Down(t, D) /\ Len(rounds) = D
  <2>1. \A i \in 1 .. D : Down(t, i) \in Opens
    BY OpensAre
  <2> QED BY <2>1
<1>3. ASSUME NEW i \in 1 .. D PROVE Passes(IF i = 1 THEN << >> ELSE rounds[i - 1], rounds[i])
  <2>1. CASE i = 1
    BY <2>1, DownPasses
  <2>2. CASE i # 1
    <3>1. i - 1 \in Nat /\ i - 1 \in 1 .. D /\ (i - 1) + 1 = i
      BY <2>2
    <3>2. Passes(Down(t, i - 1), Down(t, (i - 1) + 1))
      BY <3>1, DownPasses
    <3>3. rounds[i - 1] = Down(t, i - 1) /\ rounds[i] = Down(t, i)
      BY <3>1
    <3> HIDE DEF rounds
    <3> QED BY <2>2, <3>1, <3>2, <3>3
  <2> QED BY <2>1, <2>2
<1>4. Passes(rounds[D], rounds[D])
  <2>1. D \in Nat /\ D \in 1 .. D
    OBVIOUS
  <2> QED BY <1>2, <2>1, DownPasses
<1>5. Opened(t) = rounds[D]
  BY <1>1, <1>2 DEF Opened, Last
<1>6. stage_open_sequence(t, << >>) = rounds
  BY <1>1
<1> HIDE DEF rounds
<1>7. Through(m, build_overshift_ops(t, << >>, m), << >>, rounds[D])
  <2>1. << >> \in Opens
    BY OpensAre
  <2> QED BY <1>2, <1>3, <1>4, <1>6, <2>1, RoundsThenProbe
<1>8. Rooted(rounds[D])
  <2>1. D \in 1 .. D
    OBVIOUS
  <2> QED BY <1>2, <1>4, <2>1 DEF Rooted, Passes
<1>9. \A s \in DOMAIN rounds[D] : \E r \in Required(t) : r.slot = s
  BY <1>2, DownIs
<1> QED BY <1>5, <1>7, <1>8, <1>9

\* The first probe closes the network and opens nothing.
LEMMA NothingThrough ==
  ASSUME NEW m \in Nat
  PROVE  Through(m, build_overshift_ops(<< >>, << >>, m), << >>, << >>) /\ Rooted(<< >>)
<1> DEFINE rounds == << << >> >>
<1>1. << >> \in Opens /\ DOMAIN << >> = {}
  BY OpensAre
<1>2. stage_open_sequence(<< >>, << >>) = rounds
  BY <1>1 DEF stage_open_sequence
<1>3. rounds \in [1 .. 1 -> Opens] /\ rounds[1] = << >>
  BY <1>1
<1>4. Passes(<< >>, << >>)
  BY <1>1 DEF Passes, Fits
<1>5. \A i \in 1 .. 1 : Passes(IF i = 1 THEN << >> ELSE rounds[i - 1], rounds[i])
  BY <1>3, <1>4
<1>6. Passes(rounds[1], rounds[1]) /\ 1 \in Nat \ {0}
  BY <1>3, <1>4
<1> HIDE DEF rounds
<1>7. Through(m, build_overshift_ops(<< >>, << >>, m), << >>, rounds[1])
  BY <1>1, <1>2, <1>3, <1>5, <1>6, RoundsThenProbe
<1> QED BY <1>1, <1>3, <1>7 DEF Rooted

\* Whatever is open, the closing scan leaves nothing open (_close_all).
LEMMA ClosingPasses == ASSUME NEW b, Rooted(b) PROVE Passes(b, << >>)
<1>1. DOMAIN << >> = {}
  OBVIOUS
<1> QED BY <1>1 DEF Rooted, Passes, Fits

\* _close_all's scan.
LEMMA CloseThrough ==
  ASSUME NEW m, NEW b, Rooted(b), DOMAIN b # {}
  PROVE  Through(m, CloseAll(b), b, << >>)
<1>1. CloseAll(b) = << Scan("close", b, Reverse(compose_bits(b, << >>, NoSlot, 0))) >>
  BY DEF CloseAll
<1>2. Feeds(m, Scan("close", b, Reverse(compose_bits(b, << >>, NoSlot, 0))), b, << >>)
  BY ClosingPasses, ScanFeeds
<1>3. b \in Opens /\ << >> \in Opens
  BY OpensAre DEF Rooted
<1> QED BY <1>1, <1>2, <1>3, Scanning!WayOne DEF Through

\* A sequence of two.
LEMMA AppendPair ==
  ASSUME NEW x, NEW y
  PROVE  Append(<< x >>, y) = << x, y >>
<1> DEFINE S == {x, y}  p == Append(<< x >>, y)  q == << x, y >>
<1>1. << x >> \in Seq(S) /\ Len(<< x >>) = 1 /\ << x >>[1] = x
  OBVIOUS
<1>2. p \in Seq(S) /\ Len(p) = 2 /\ p[1] = x /\ p[2] = y
  BY <1>1
<1>3. q \in Seq(S) /\ Len(q) = 2 /\ q[1] = x /\ q[2] = y
  OBVIOUS
<1> HIDE DEF p, q
<1>4. p = q
  <2>1. \A i \in 1 .. 2 : i = 1 \/ i = 2
    OBVIOUS
  <2> QED BY <1>2, <1>3, <2>1
<1> QED BY <1>4 DEF p, q

\* _network_hold_tests: a scan that does not select the network, and one that
\* feeds it two patterns and closes it.
LEMMA HoldThrough ==
  ASSUME NEW m \in Nat, NEW b, Rooted(b)
  PROVE  Through(m, NetworkHold(b, m), b, << >>)
<1> DEFINE length == layout_bit_length(b)
           first == Scan("unselected", b, default_sentinel_pattern(Cardinality(TopLevel) + m))
           pre == Alternating(length, 1) \o Alternating(length, 0)
           back == Reverse(compose_bits(b, << >>, NoSlot, 0))
           second == Scan("hold", b, pre \o back)
<1>1. NetworkHold(b, m) = << first, second >>
  BY DEF NetworkHold
<1>2. length \in Nat
  BY LayoutLength
<1> HIDE DEF length
<1>3. pre \in Seq({0, 1})
  <2>1. Alternating(length, 1) \in Seq({0, 1}) /\ Alternating(length, 0) \in Seq({0, 1})
    BY <1>2, PatternBits
  <2> QED BY <2>1
<1>4. Cardinality(TopLevel) + m \in Nat
  <2>1. IsFiniteSet(Units)
    <3>1. IsFiniteSet(1 .. N)
      BY OrderIndex, FS_Interval
    <3> DEFINE f == [i \in 1 .. N |-> Order[i]]
    <3>2. f \in Surjection(1 .. N, Units)
      BY OrderIndex DEF Surjection
    <3> HIDE DEF f
    <3> QED BY <3>1, <3>2, FS_Surjection
  <2>2. TopLevel \subseteq Units
    BY DEF TopLevel, Units
  <2>3. Cardinality(TopLevel) \in Nat
    BY <2>1, <2>2, FS_Subset, FS_CardinalityType
  <2> QED BY <2>3
<1>5. default_sentinel_pattern(Cardinality(TopLevel) + m) \in Seq({0, 1})
  BY <1>4, PatternBits
<1>6. Feeds(m, first, b, b)
  <2>1. /\ first.kind = "unselected" /\ first.open = b
        /\ first.tdi = default_sentinel_pattern(Cardinality(TopLevel) + m)
    BY DEF Scan
  <2> HIDE DEF first
  <2> QED BY <1>5, <2>1 DEF Feeds
<1>7. Feeds(m, second, b, << >>)
  <2>1. second.kind = "hold" /\ second.open = b /\ second.tdi = pre \o back
    BY DEF Scan
  <2>2. Passes(b, << >>)
    BY ClosingPasses
  <2> HIDE DEF second, pre
  <2> QED BY <1>3, <2>1, <2>2 DEF Feeds
<1>8. b \in Opens /\ << >> \in Opens
  BY OpensAre DEF Rooted
<1> HIDE DEF first, second
<1>9. Through(m, << first >>, b, b)
  BY <1>6, <1>8, Scanning!WayOne DEF Through
<1>10. Through(m, Append(<< first >>, second), b, << >>)
  BY <1>7, <1>8, <1>9, Scanning!WayAppend DEF Through
<1>11. Append(<< first >>, second) = << first, second >>
  BY AppendPair
<1> QED BY <1>1, <1>10, <1>11

----------------------------------------------------------------------------
(* What a scan loads and commits, and what the chip shifts and captures.    *)

\* A scan composed for the way from a to b commits b.
LEMMA PassCommits ==
  ASSUME NoArmZero, NEW po, DOMAIN po = Latched, NEW a, Carries(po, a), NEW b, Passes(a, b),
         NEW target, NEW v \in Nat, NEW shift, Loaded(shift, a, b, target, v)
  PROVE  DOMAIN Update(shift, po) = Latched /\ Carries(Update(shift, po), b)
<1>1. Slots \subseteq Units /\ Slots \cap Writes = {} /\ Latched = Slots \cup Writes
  BY NetworkAssumption DEF ValidPhysicalGraph, Units, Latched
<1>2. \A u \in Units : Live(po, u) <=> Live(a, u)
  BY CarriedLayout
<1>3. ASSUME NEW s \in DOMAIN b PROVE s \in Slots /\ b[s] \in Nat /\ b[s] % Pow2[Width[s]] = b[s]
  <2>1. s \in Slots /\ s \in Units /\ b[s] \in 0 .. Pow2[Width[s]] - 1
    BY <1>1 DEF Passes, Fits
  <2>2. Width[s] \in Nat
    BY <2>1, CellsOfUnit
  <2> QED BY <2>1, <2>2, FitsField
<1>4. ASSUME NEW s \in Slots, Live(a, s)
      PROVE  ValueOf(shift, s) = IF s \in DOMAIN b THEN b[s] ELSE 0
  <2>1. s \in Units
    BY <1>1
  <2>2. ValueOf(shift, s) = Sent(b, target, v, s) % Pow2[Width[s]]
    <3>1. \A t \in DOMAIN b : b[t] \in Nat
      BY <1>3
    <3> QED BY <1>4, <2>1, <3>1, LoadedUnits
  <2>3. CASE s \in DOMAIN b
    BY <1>3, <2>2, <2>3 DEF Sent
  <2>4. CASE s \notin DOMAIN b
    <3>1. Width[s] \in Nat
      BY <2>1, CellsOfUnit
    <3>2. 0 \in 0 .. Pow2[Width[s]] - 1
      <4>1. Pow2[Width[s]] \in Nat \ {0}
        BY <3>1, Pow2Is
      <4> QED BY <4>1
    <3>3. 0 % Pow2[Width[s]] = 0
      BY <3>1, <3>2, FitsField
    <3> QED BY <2>2, <2>4, <3>3 DEF Sent
  <2> QED BY <2>3, <2>4
<1>5. ASSUME NEW s \in Slots
      PROVE  Update(shift, po)[s] = IF s \in DOMAIN b THEN b[s] ELSE 0
  <2>1. s \in Latched /\ s \notin Writes /\ s \in Units
    BY <1>1
  <2>2. Update(shift, po)[s] = IF Live(po, s) THEN ValueOf(shift, s) ELSE po[s]
    BY <2>1 DEF Update
  <2>3. CASE Live(a, s)
    BY <1>2, <1>4, <2>1, <2>2, <2>3
  <2>4. CASE ~Live(a, s)
    <3>1. s \notin DOMAIN a /\ s \notin DOMAIN b
      BY <2>4 DEF Passes
    <3>2. po[s] = 0
      BY <3>1 DEF Carries
    <3> QED BY <1>2, <2>1, <2>2, <2>4, <3>1, <3>2
  <2> QED BY <2>3, <2>4
<1> QED BY <1>5 DEF Carries, Update

\* The last bits of a run are the ones in the chain.
LEMMA RunLoads ==
  ASSUME MuxesLast, NoArmZero, NEW po, DOMAIN po = Latched, NEW a, Carries(po, a),
         Len(Layout(a)) # 0, NEW b, \A s \in DOMAIN b : b[s] \in Nat,
         NEW target, NEW v \in Nat, NEW pre \in Seq({0, 1}), NEW run,
         Shifting(po, pre \o Reverse(compose_bits(a, b, target, v)), run)
  PROVE  LET tdi == pre \o Reverse(compose_bits(a, b, target, v)) IN
         /\ tdi \in Seq({0, 1}) /\ Len(tdi) = Len(pre) + Len(Layout(a))
         /\ Loaded(run[Len(tdi)].shift, a, b, target, v)
<1> DEFINE L == Layout(a)  n == Len(L)  bits == compose_bits(a, b, target, v)  back == Reverse(bits)
           tdi == pre \o back
<1>1. Layout(po) = L
  BY CarriedLayout
<1>2. n \in Nat
  BY LayoutLength
<1>3. back \in Seq({0, 1}) /\ Len(back) = n /\ \A m \in 1 .. n : back[n - m + 1] = bits[m]
  <2>1. SendsEach(a, b, target, v)
    BY ComposedBits
  <2> QED BY <2>1 DEF SendsEach
<1> HIDE DEF back, bits, L
<1>4. /\ tdi \in Seq({0, 1}) /\ Len(tdi) = Len(pre) + n /\ Len(pre) \in Nat
      /\ \A j \in 1 .. n : tdi[Len(pre) + j] = back[j]
  <2> HIDE DEF n
  <2> QED BY <1>2, <1>3
<1>5. Shifted(po, tdi, run, Len(tdi))
  <2>1. Shifting(po, tdi, run) /\ Len(Layout(po)) # 0
    BY <1>1 DEF L, back, bits
  <2>2. Len(tdi) \in 0 .. Len(tdi)
    BY <1>2, <1>4
  <2> HIDE DEF tdi
  <2> QED BY <1>4, <2>1, <2>2, RunMoves
<1>6. ASSUME NEW m \in 1 .. n PROVE run[Len(tdi)].shift[L[m]] = bits[m]
  <2>1. run[Len(tdi)].shift[L[m]] = tdi[Len(tdi) - m + 1]
    <3>1. m <= Len(tdi)
      BY <1>2, <1>4
    <3> HIDE DEF tdi
    <3> QED BY <1>1, <1>5, <3>1 DEF Shifted
  <2>2. Len(tdi) - m + 1 = Len(pre) + (n - m + 1) /\ n - m + 1 \in 1 .. n
    BY <1>2, <1>4
  <2> HIDE DEF tdi
  <2> QED BY <1>3, <1>4, <2>1, <2>2
<1> QED BY <1>4, <1>6 DEF L, back, bits, Loaded
ChipBase(from) == [shift |-> from.shift, out |-> << >>]
ChipStep(from, scan, bit) ==
  [shift |-> CellShift(scan.shift, from.po, bit, from.selected),
   out |-> Append(scan.out, ExternalTdo(scan.shift, from.po))]

ChipFold == INSTANCE InductionLemmas WITH FoldBase <- ChipBase, FoldStep <- ChipStep

\* The chip's shifts, one after the other.
LEMMA ChipSteps ==
  ASSUME NEW from, NEW S, NEW tdi \in Seq(S)
  PROVE  \E run : /\ run[0] = ChipBase(from) /\ run[Len(tdi)] = ChipScanned(from, tdi)
                  /\ \A k \in 0 .. Len(tdi) - 1 : run[k + 1] = ChipStep(from, run[k], tdi[k + 1])
<1> DEFINE n == Len(tdi)
           run == [k \in 0 .. n |-> ChipScanned(from, SubSeq(tdi, 1, k))]
<1>1. n \in Nat /\ SubSeq(tdi, 1, 0) = << >> /\ SubSeq(tdi, 1, n) = tdi
  OBVIOUS
<1>2. \A t : ChipScanned(from, t) = ChipFold!Fold(from, t)
  BY DEF ChipScanned, ChipBase, ChipStep, ChipFold!Fold, FoldLeft, ChipFold!FoldLeft,
         MapThenFoldSet, ChipFold!MapThenFoldSet, Max, ChipFold!Max
<1>3. ChipScanned(from, << >>) = ChipBase(from)
  BY <1>2, ChipFold!FoldEmpty
<1>4. ASSUME NEW q \in Seq(S), NEW bit \in S
      PROVE  ChipScanned(from, Append(q, bit)) = ChipStep(from, ChipScanned(from, q), bit)
  BY <1>2, ChipFold!FoldAppend
<1>5. ASSUME NEW k \in 0 .. n - 1
      PROVE  run[k + 1] = ChipStep(from, run[k], tdi[k + 1])
  <2> DEFINE q == SubSeq(tdi, 1, k)  bit == tdi[k + 1]
  <2>1. /\ q \in Seq(S) /\ bit \in S /\ SubSeq(tdi, 1, k + 1) = Append(q, bit)
        /\ k \in 0 .. n /\ k + 1 \in 0 .. n
    OBVIOUS
  <2>2. run[k + 1] = ChipScanned(from, Append(q, bit)) /\ run[k] = ChipScanned(from, q)
    BY <2>1
  <2> HIDE DEF q, bit, run
  <2>3. run[k + 1] = ChipStep(from, run[k], bit)
    BY <1>4, <2>1, <2>2
  <2> QED BY <2>3 DEF bit
<1>6. run[0] = ChipBase(from) /\ run[n] = ChipScanned(from, tdi)
  <2>1. 0 \in 0 .. n /\ n \in 0 .. n
    BY <1>1
  <2> HIDE DEF n
  <2> QED BY <1>1, <1>3, <2>1
<1> HIDE DEF run
<1> QED BY <1>5, <1>6

\* Selected, it shifts what the models' register would (SibNetworkRegister).
LEMMA ChipRuns ==
  ASSUME Units # {}, NEW from, DOMAIN from.po = Latched, from.selected = TRUE,
         NEW S, NEW tdi \in Seq(S)
  PROVE  \E run : /\ Shifting(from.po, tdi, run)
                  /\ run[0].shift = from.shift /\ run[Len(tdi)] = ChipScanned(from, tdi)
<1>1. PICK run : /\ run[0] = ChipBase(from) /\ run[Len(tdi)] = ChipScanned(from, tdi)
                 /\ \A k \in 0 .. Len(tdi) - 1 : run[k + 1] = ChipStep(from, run[k], tdi[k + 1])
  BY ChipSteps
<1>2. run[0].out = << >> /\ run[0].shift = from.shift
  BY <1>1 DEF ChipBase
<1>3. ASSUME NEW k \in 0 .. Len(tdi) - 1
      PROVE  /\ Agree(from.po, Shift(run[k].shift, from.po, tdi[k + 1]), run[k + 1].shift)
             /\ run[k + 1].out = Append(run[k].out, TailBit(run[k].shift, from.po))
  <2> DEFINE a == run[k].shift
  <2>1. run[k + 1] = ChipStep(from, run[k], tdi[k + 1])
    BY <1>1
  <2>2. /\ run[k + 1].shift = CellShift(a, from.po, tdi[k + 1], from.selected)
        /\ run[k + 1].out = Append(run[k].out, ExternalTdo(a, from.po))
    BY <2>1 DEF ChipStep
  <2>3. run[k + 1].shift = CellShift(a, from.po, tdi[k + 1], TRUE)
    BY <2>2
  <2>4. Agree(from.po, a, a)
    BY DEF Agree
  <2> HIDE DEF a
  <2>5. Agree(from.po, Shift(a, from.po, tdi[k + 1]), CellShift(a, from.po, tdi[k + 1], TRUE))
    BY <2>4, ShiftsAgree
  <2>6. {u \in Units : ~Nested(u)} # {}
    BY TailIsATopUnit
  <2>7. ExternalTdo(a, from.po) = TailBit(a, from.po)
    BY <2>4, <2>6, TailsAgree
  <2> QED BY <2>2, <2>3, <2>5, <2>7 DEF a
<1>4. Shifting(from.po, tdi, run)
  BY <1>2, <1>3 DEF Shifting
<1> QED BY <1>1, <1>2, <1>4

\* Not selected, a chip whose tail no mux relays shows it for the whole scan.
LEMMA ChipStays ==
  ASSUME Units # {}, NEW from, DOMAIN from.po = Latched, ~Matched(from.po, TailUnit),
         ~from.selected, NEW S, NEW tdi \in Seq(S)
  PROVE  LET scan == ChipScanned(from, tdi)  tail == <<TailUnit, 0>> IN
         /\ scan.shift[tail] = from.shift[tail]
         /\ DOMAIN scan.out = DOMAIN tdi /\ \A n \in DOMAIN tdi : scan.out[n] = from.shift[tail]
<1> DEFINE tail == <<TailUnit, 0>>  bit == from.shift[tail]
<1>1. PICK run : /\ run[0] = ChipBase(from) /\ run[Len(tdi)] = ChipScanned(from, tdi)
                 /\ \A k \in 0 .. Len(tdi) - 1 : run[k + 1] = ChipStep(from, run[k], tdi[k + 1])
  BY ChipSteps
<1>2. TailUnit \in Units /\ TailUnit \notin Instruments /\ tail \in Cells
  <2>1. TailUnit \in Units /\ ~Nested(TailUnit)
    BY TailIsATopUnit
  <2>2. TailUnit \notin Instruments
    BY <2>1, TopUnit
  <2>3. 0 \in 0 .. Width[TailUnit] - 1
    BY <2>1, CellsOfUnit
  <2> QED BY <2>1, <2>2, <2>3, CellsAre
<1> HIDE DEF tail
<1> DEFINE Holds(k) == /\ run[k].shift[tail] = bit
                       /\ run[k].out \in Seq({bit}) /\ Len(run[k].out) = k
           P == {k \in Nat : k <= Len(tdi) => Holds(k)}
<1>3. 0 \in P
  <2>1. run[0].shift = from.shift /\ run[0].out = << >>
    BY <1>1 DEF ChipBase
  <2>2. run[0].shift[tail] = bit
    BY <2>1
  <2> HIDE DEF bit
  <2>3. << >> \in Seq({bit}) /\ Len(<< >>) = 0
    OBVIOUS
  <2> QED BY <2>1, <2>2, <2>3
<1>4. ASSUME NEW k \in Nat, k \in P PROVE k + 1 \in P
  <2> SUFFICES ASSUME k + 1 <= Len(tdi) PROVE Holds(k + 1)
    OBVIOUS
  <2>1. k \in 0 .. Len(tdi) - 1 /\ Holds(k)
    BY <1>4
  <2> DEFINE a == run[k].shift
  <2>2. /\ run[k + 1].shift = CellShift(a, from.po, tdi[k + 1], from.selected)
        /\ run[k + 1].out = Append(run[k].out, ExternalTdo(a, from.po))
    <3>1. run[k + 1] = ChipStep(from, run[k], tdi[k + 1])
      BY <1>1, <2>1
    <3> QED BY <3>1 DEF ChipStep
  <2>3. CellShift(a, from.po, tdi[k + 1], from.selected)[tail] = a[tail]
    <3>1. tail[1] = TailUnit
      BY DEF tail
    <3> HIDE DEF a
    <3> QED BY <1>2, <3>1 DEF CellShift, Select
  <2>4. ExternalTdo(a, from.po) = a[tail]
    BY UnmatchedTail DEF tail
  <2> HIDE DEF bit
  <2> QED BY <2>1, <2>2, <2>3, <2>4
<1>5. Nat \subseteq P
  <2> HIDE DEF P
  <2> QED BY <1>3, <1>4, Induction
<1>6. Len(tdi) \in Nat /\ DOMAIN tdi = 1 .. Len(tdi)
  OBVIOUS
<1>7. Holds(Len(tdi))
  BY <1>5, <1>6
<1> HIDE DEF bit
<1>8. \A n \in DOMAIN tdi : run[Len(tdi)].out[n] = bit
  BY <1>6, <1>7
<1>9. DOMAIN run[Len(tdi)].out = DOMAIN tdi
  BY <1>6, <1>7
<1> QED BY <1>1, <1>7, <1>8, <1>9 DEF tail, bit

\* Every bit of zero is 0, and every bit of the largest number a field holds is 1.
LEMMA ExtremeBits ==
  ASSUME NEW w \in Nat \ {0}, NEW k \in 0 .. w - 1
  PROVE  Bit(0, k) = 0 /\ Bit(Pow2[w] - 1, k) = 1
<1>1. k \in Nat /\ w - (k + 1) \in Nat /\ w = (k + 1) + (w - (k + 1))
  OBVIOUS
<1>2. PICK p \in Nat \ {0} : p = Pow2[k] /\ Pow2[k + 1] = 2 * p
  BY <1>1, Pow2Is
<1>3. PICK q \in Nat \ {0} : q = Pow2[w - (k + 1)]
  BY <1>1, Pow2Is
<1>4. Pow2[w] = (2 * p) * q
  <2>1. Pow2[(k + 1) + (w - (k + 1))] = Pow2[k + 1] * Pow2[w - (k + 1)]
    <3>1. k + 1 \in Nat
      BY <1>1
    <3> QED BY <1>1, <3>1, Pow2Add
  <2> QED BY <1>1, <1>2, <1>3, <2>1
<1>5. /\ 0 = p * 0 + 0 /\ 0 \in 0 .. p - 1 /\ p - 1 \in 0 .. p - 1 /\ 2 * q - 1 \in Nat
      /\ (2 * p) * q - 1 = p * (2 * q - 1) + (p - 1)
  <2>1. PICK r \in Nat : r = p * q
    OBVIOUS
  <2>2. (2 * p) * q = 2 * r /\ p * (2 * q - 1) = 2 * r - p
    BY <2>1
  <2> QED BY <2>2
<1>6. 0 \div p = 0
  BY <1>5, DivModUnique
<1>7. (p * (2 * q - 1) + (p - 1)) \div p = 2 * q - 1
  BY <1>5, DivModUnique
<1>8. (Pow2[w] - 1) \div p = 2 * q - 1
  BY <1>4, <1>5, <1>7
<1>9. (2 * q - 1) % 2 = 1 /\ 0 % 2 = 0
  OBVIOUS
<1> QED BY <1>2, <1>6, <1>8, <1>9 DEF Bit

\* What a live instrument captures: 0s in one model and 1s in the other; any
\* other cell captures the same in both (_recaptured).
LEMMA ModelCaptures ==
  ASSUME NEW po, DOMAIN po = Latched, NEW a, NEW b, NEW c \in Cells, Live(po, c[1])
  PROVE  LET l == Low!Capture(a, po)[c]  h == High!Capture(b, po)[c] IN
         /\ c[1] \in LiveInstruments => l = 0 /\ h = 1
         /\ c[1] \notin LiveInstruments => l = CapturedBit(po, c[1], c[2]) /\ h = l
<1> DEFINE u == c[1]  k == c[2]
<1>1. u \in Units /\ u \in Slots \cup Instruments /\ k \in 0 .. Width[u] - 1 /\ k \in Nat
  <2>1. PICK v \in Units : \E j \in 0 .. Width[v] - 1 : c = <<v, j>>
    BY CellsAre
  <2>2. PICK j \in 0 .. Width[v] - 1 : c = <<v, j>>
    BY <2>1
  <2> QED BY <2>2 DEF Units
<1>2. Low!CaptureOpen(po, u) /\ High!CaptureOpen(po, u)
  BY DEF Low!CaptureOpen, High!CaptureOpen, Live
<1>3. Low!Capture(a, po)[c] = Low!CapturedBit(po, u, k)
  <2>1. c \in Low!Cells
    BY DEF Low!Cells, Cells, Low!Units, Units, Low!Slots, Slots, Low!UnitCells, UnitCells,
           Low!ToSet, ToSet
  <2> QED BY <1>2, <2>1 DEF Low!Capture
<1>4. High!Capture(b, po)[c] = High!CapturedBit(po, u, k)
  <2>1. c \in High!Cells
    BY DEF High!Cells, Cells, High!Units, Units, High!Slots, Slots, High!UnitCells, UnitCells,
           High!ToSet, ToSet
  <2> QED BY <1>2, <2>1 DEF High!Capture
<1>5. /\ Low!CapturedBit(po, u, k) = IF u \in Latched THEN Bit(po[u], k) ELSE Bit(Recaptured(FALSE)[u], k)
      /\ High!CapturedBit(po, u, k) = IF u \in Latched THEN Bit(po[u], k) ELSE Bit(Recaptured(TRUE)[u], k)
  BY DEF Low!CapturedBit, High!CapturedBit, Low!Latched, High!Latched, Latched,
         Low!Slots, High!Slots, Slots, Low!Bit, High!Bit, Bit, Low!Pow2, High!Pow2, Pow2
<1>6. /\ DOMAIN CaptureValue = Instruments \ Writes /\ Writes \subseteq Instruments
      /\ Slots \cap Instruments = {} /\ LiveInstruments \subseteq Instruments \ Writes
  BY NetworkAssumption, IntegrityAssumption DEF ValidPhysicalGraph, ValidLive
<1>7. CASE u \in LiveInstruments
  <2>1. u \notin Latched /\ u \in DOMAIN CaptureValue
    BY <1>6, <1>7 DEF Latched
  <2>2. Recaptured(FALSE)[u] = 0 /\ Recaptured(TRUE)[u] = Pow2[Width[u]] - 1
    BY <1>7, <2>1 DEF Recaptured, AllOnes
  <2>3. Bit(0, k) = 0 /\ Bit(Pow2[Width[u]] - 1, k) = 1
    BY <1>1, CellsOfUnit, ExtremeBits
  <2> QED BY <1>3, <1>4, <1>5, <1>7, <2>1, <2>2, <2>3
<1>8. CASE u \notin LiveInstruments
  <2>1. u \in Latched \/ u \in DOMAIN CaptureValue
    BY <1>1, <1>6 DEF Latched
  <2>2. u \notin Latched => Recaptured(FALSE)[u] = CaptureValue[u] /\ Recaptured(TRUE)[u] = CaptureValue[u]
    BY <1>8, <2>1 DEF Recaptured
  <2> QED BY <1>3, <1>4, <1>5, <1>8, <2>2 DEF CapturedBit
<1> QED BY <1>7, <1>8

\* ... and so does the chip.
LEMMA ChipCaptures ==
  ASSUME NEW po, DOMAIN po = Latched, NEW a, NEW c \in Cells, Live(po, c[1])
  PROVE  CellCapture(a, po, TRUE)[c] = CapturedBit(po, c[1], c[2])
BY DEF CellCapture, Select

----------------------------------------------------------------------------
(* What TDO shows.                                                          *)

\* A chain that has a unit has a cell.
LEMMA ChainHasCells ==
  ASSUME Units # {}, NEW open
  PROVE  Len(Layout(open)) # 0
<1>1. TailUnit \in Units /\ ~Nested(TailUnit)
  BY TailIsATopUnit
<1>2. Live(open, TailUnit) /\ 0 \in 0 .. Width[TailUnit] - 1
  BY <1>1, TopUnit, CellsOfUnit
<1>3. PICK m \in 1 .. Len(Layout(open)) : Layout(open)[m] = <<TailUnit, 0>>
  BY <1>1, <1>2, CellPlace
<1> QED BY <1>3

\* Cells that hold the same bits agree, the tail's too.
LEMMA LoadedAgree ==
  ASSUME NoArmZero, Units # {}, NEW po, DOMAIN po = Latched, NEW a, Carries(po, a), NEW b, NEW target, NEW v,
         NEW l, Loaded(l, a, b, target, v), NEW h, Loaded(h, a, b, target, v)
  PROVE  Agree(po, l, h) /\ l[<<TailUnit, 0>>] = h[<<TailUnit, 0>>]
<1>1. ASSUME NEW u \in Units, Live(po, u), NEW k \in 0 .. Width[u] - 1
      PROVE  l[<<u, k>>] = h[<<u, k>>]
  <2>1. Live(a, u)
    BY <1>1, CarriedLayout
  <2>2. PICK m \in 1 .. Len(Layout(a)) : Layout(a)[m] = <<u, k>>
    BY <2>1, CellPlace
  <2> QED BY <2>2 DEF Loaded
<1>2. Agree(po, l, h)
  <2> SUFFICES ASSUME NEW c \in Cells, Live(po, c[1]) PROVE l[c] = h[c]
    BY DEF Agree
  <2>1. PICK u \in Units : \E k \in 0 .. Width[u] - 1 : c = <<u, k>>
    BY CellsAre
  <2>2. PICK k \in 0 .. Width[u] - 1 : c = <<u, k>>
    BY <2>1
  <2> QED BY <1>1, <2>2
<1>3. TailUnit \in Units /\ ~Nested(TailUnit)
  BY TailIsATopUnit
<1>4. Live(po, TailUnit) /\ 0 \in 0 .. Width[TailUnit] - 1
  BY <1>3, TopUnit, CellsOfUnit
<1> QED BY <1>1, <1>2, <1>3, <1>4

\* What TDO shows of a run: what was in the chain, then the bits fed.
Shows(a, start, tdi, p, out) ==
  /\ DOMAIN out = 1 .. Len(tdi)
  /\ \A j \in 1 .. Len(tdi) : out[j] = IF j <= p THEN start[Layout(a)[p - j + 1]] ELSE tdi[j - p]

\* A run of a scan that selects the network loads what the scan is for.
LEMMA RunFeeds ==
  ASSUME MuxesLast, NoArmZero, Units # {}, NEW po, DOMAIN po = Latched, NEW a, Carries(po, a),
         NEW m, NEW scan, NEW b, Feeds(m, scan, a, b), scan.kind # "unselected",
         NEW run, Shifting(po, scan.tdi, run)
  PROVE  /\ scan.tdi \in Seq({0, 1}) /\ Loaded(run[Len(scan.tdi)].shift, a, b, NoSlot, 0)
         /\ Shows(a, run[0].shift, scan.tdi, TailPlace(po), run[Len(scan.tdi)].out)
<1> DEFINE tdi == scan.tdi  n == Len(tdi)
<1>1. PICK pre \in Seq({0, 1}) : tdi = pre \o Reverse(compose_bits(a, b, NoSlot, 0))
  BY DEF Feeds
<1>2. \A s \in DOMAIN b : b[s] \in Nat
  <2> SUFFICES ASSUME NEW s \in DOMAIN b PROVE b[s] \in Nat
    OBVIOUS
  <2>1. b[s] \in 0 .. Pow2[Width[s]] - 1
    BY DEF Feeds, Passes, Fits
  <2> QED BY <2>1
<1>3. Len(Layout(a)) # 0 /\ Len(Layout(po)) # 0
  BY ChainHasCells
<1>4. tdi \in Seq({0, 1}) /\ Loaded(run[n].shift, a, b, NoSlot, 0)
  <2> DEFINE whole == pre \o Reverse(compose_bits(a, b, NoSlot, 0))
  <2>1. Shifting(po, whole, run) /\ 0 \in Nat
    BY <1>1
  <2>2. /\ whole \in Seq({0, 1}) /\ Len(whole) = Len(pre) + Len(Layout(a))
        /\ Loaded(run[Len(whole)].shift, a, b, NoSlot, 0)
    BY <1>2, <1>3, <2>1, RunLoads
  <2> QED BY <1>1, <2>2
<1>5. n \in Nat /\ n \in 0 .. n
  BY <1>4
<1>6. Shifted(po, tdi, run, n)
  BY <1>3, <1>4, <1>5, RunMoves
<1>7. Layout(po) = Layout(a)
  BY CarriedLayout
<1> HIDE DEF n, tdi
<1>8. Shows(a, run[0].shift, tdi, TailPlace(po), run[n].out)
  BY <1>5, <1>6, <1>7 DEF Shifted, Shows, n
<1> QED BY <1>4, <1>8 DEF n, tdi

\* What a bit of TDO shows comes from the same cell, or the same bit fed, in the
\* two models and in the chip: where the models agree the chip does, if it
\* captured what they did wherever they captured the same.
AsCaptured(po, l, h, x) == \A c \in Cells : Live(po, c[1]) /\ l[c] = h[c] => x[c] = l[c]

\* So no care bit fails (check_integrity).
LEMMA SameCellShown ==
  ASSUME NoArmZero, NEW po, DOMAIN po = Latched, NEW a, Carries(po, a),
         NEW p \in 1 .. Len(Layout(a)), NEW tdi \in Seq({0, 1}), NEW l, NEW h, NEW x,
         AsCaptured(po, l, h, x),
         NEW lo, Shows(a, l, tdi, p, lo), NEW ho, Shows(a, h, tdi, p, ho), NEW xo, Shows(a, x, tdi, p, xo)
  PROVE  Failures(lo, ho, xo) = {}
<1>0. Len(Layout(a)) \in Nat /\ Len(tdi) \in Nat
  BY LayoutLength
<1> SUFFICES ASSUME NEW j \in 1 .. Len(tdi), lo[j] = ho[j] PROVE xo[j] = lo[j]
  BY DEF Failures, Shows
<1>1. CASE j <= p
  <2> DEFINE c == Layout(a)[p - j + 1]
  <2>1. p - j + 1 \in 1 .. Len(Layout(a))
    BY <1>0, <1>1
  <2>2. c \in Cells /\ Live(a, c[1]) /\ c[1] \in Units
    BY <2>1, LayoutCells
  <2>3. Live(po, c[1])
    BY <2>2, CarriedLayout
  <2>4. lo[j] = l[c] /\ ho[j] = h[c] /\ xo[j] = x[c]
    BY <1>1 DEF Shows
  <2> HIDE DEF c
  <2> QED BY <2>2, <2>3, <2>4 DEF AsCaptured
<1>2. CASE ~(j <= p)
  BY <1>2 DEF Shows
<1> QED BY <1>1, <1>2

\* With SIBs alone open no mux relays, so TDO is the chain's last cell.
OnlySibs(a) == DOMAIN a \subseteq Sibs

\* Where SIBs alone are open, the tail's place is the chain's last.
LEMMA SibsDoNotRelay ==
  ASSUME NoArmZero, NEW po, DOMAIN po = Latched, NEW a, Carries(po, a), OnlySibs(a)
  PROVE  ~Relays(po) /\ TailPlace(po) = Len(Layout(a))
<1>1. ASSUME NEW m \in Muxes PROVE ~Matched(po, m)
  <2>1. m \in Slots /\ m \notin DOMAIN a
    BY NetworkAssumption DEF ValidPhysicalGraph, Slots, OnlySibs
  <2>2. po[m] = 0
    BY <2>1 DEF Carries
  <2> QED BY <2>2 DEF Matched, NoArmZero
<1>2. Layout(po) = Layout(a)
  BY CarriedLayout
<1> QED BY <1>1, <1>2 DEF Relays, TailPlace

\* A probe's sentinel comes back after as many bits as the chain is long.
Returned(m, a, out) ==
  \A i \in 1 .. m : out[layout_bit_length(a) + i] = default_sentinel_pattern(m)[i]

\* So it is in what TDO shows of a probe, whatever the chain held.
LEMMA SentinelReturns ==
  ASSUME MuxesLast, NoArmZero, Units # {}, NEW po, DOMAIN po = Latched, NEW a, Carries(po, a),
         OnlySibs(a),
         NEW m \in Nat, NEW scan, NEW b, Feeds(m, scan, a, b), scan.kind = "probe",
         NEW start, NEW out, Shows(a, start, scan.tdi, TailPlace(po), out)
  PROVE  Returned(m, a, out)
<1> DEFINE n == Len(Layout(a))  back == Reverse(compose_bits(a, b, NoSlot, 0))
           pre == default_sentinel_pattern(m)
<1>1. scan.tdi = pre \o back /\ a = b /\ Passes(a, b)
  BY DEF Feeds
<1>2. \A s \in DOMAIN b : b[s] \in Nat
  <2> SUFFICES ASSUME NEW s \in DOMAIN b PROVE b[s] \in Nat
    OBVIOUS
  <2>1. b[s] \in 0 .. Pow2[Width[s]] - 1
    BY <1>1 DEF Passes, Fits
  <2> QED BY <2>1
<1>3. back \in Seq({0, 1}) /\ Len(back) = n
  <2>1. SendsEach(a, b, NoSlot, 0)
    BY <1>2, ComposedBits
  <2> QED BY <2>1 DEF SendsEach
<1>4. n = layout_bit_length(a) /\ n \in Nat /\ TailPlace(po) = n
  BY LayoutLength, SibsDoNotRelay
<1>5. pre \in Seq({0, 1}) /\ Len(pre) = m
  BY PatternBits
<1> HIDE DEF n, back, pre
<1> SUFFICES ASSUME NEW i \in 1 .. m PROVE out[n + i] = pre[i]
  BY <1>4 DEF pre, Returned
<1>6. n + i \in 1 .. Len(scan.tdi) /\ ~(n + i <= n) /\ (n + i) - n = i /\ scan.tdi[i] = pre[i]
  BY <1>1, <1>3, <1>4, <1>5
<1> QED BY <1>4, <1>6 DEF Shows

----------------------------------------------------------------------------
(* One scan of the two models and the chip.                                 *)

\* A scan of the two models and of the chip that selects the network, from what
\* they captured: all commit the same, what the scan is for, and hold the same bit
\* at TDO.  If the chip captured what the models did wherever they captured the
\* same, no care bit fails; and a probe's sentinel returns.
ScannedAlike(po, a, m, scan, b, l0, h0, x0) ==
  LET l == Shifts([shift |-> l0, po |-> po], scan.tdi)
      h == Shifts([shift |-> h0, po |-> po], scan.tdi)
      c == ChipScanned([shift |-> x0, po |-> po, selected |-> TRUE], scan.tdi)
      new == CellUpdate(c.shift, po, TRUE)
      tail == <<TailUnit, 0>>
  IN  /\ Update(l.shift, po) = new /\ Update(h.shift, po) = new
      /\ new = [u \in Latched |-> new[u]] /\ Carries(new, b)
      /\ l.shift[tail] = c.shift[tail] /\ h.shift[tail] = c.shift[tail]
      /\ AsCaptured(po, l0, h0, x0) => Failures(l.out, h.out, c.out) = {}
      /\ scan.kind = "probe" /\ OnlySibs(a) => Returned(m, a, c.out)

\* Whatever the three held before, a scan that selects them does that.
LEMMA SelectedScan ==
  ASSUME MuxesLast, NoArmZero, Units # {}, NEW po, DOMAIN po = Latched, NEW a, Carries(po, a),
         NEW m \in Nat, NEW scan, NEW b, Feeds(m, scan, a, b), scan.kind # "unselected",
         NEW l0, NEW h0, NEW x0
  PROVE  ScannedAlike(po, a, m, scan, b, l0, h0, x0)
<1> DEFINE lf == [shift |-> l0, po |-> po]  hf == [shift |-> h0, po |-> po]
           cf == [shift |-> x0, po |-> po, selected |-> TRUE]
           tdi == scan.tdi  n == Len(tdi)
           l == Shifts(lf, tdi)  h == Shifts(hf, tdi)  c == ChipScanned(cf, tdi)
           new == CellUpdate(c.shift, po, TRUE)  tail == <<TailUnit, 0>>
<1>1. tdi \in Seq({0, 1})
  <2>1. PICK pre \in Seq({0, 1}) : tdi = pre \o Reverse(compose_bits(a, b, NoSlot, 0))
    BY DEF Feeds
  <2>2. \A s \in DOMAIN b : b[s] \in Nat
    <3> SUFFICES ASSUME NEW s \in DOMAIN b PROVE b[s] \in Nat
      OBVIOUS
    <3>1. b[s] \in 0 .. Pow2[Width[s]] - 1
      BY DEF Feeds, Passes, Fits
    <3> QED BY <3>1
  <2>3. Reverse(compose_bits(a, b, NoSlot, 0)) \in Seq({0, 1})
    <3>1. SendsEach(a, b, NoSlot, 0)
      BY <2>2, ComposedBits
    <3> QED BY <3>1 DEF SendsEach
  <2> QED BY <2>1, <2>3
<1>2. PICK run : Shifting(lf.po, tdi, run) /\ run[0].shift = lf.shift /\ run[n] = l
  <2> HIDE DEF lf, tdi
  <2> QED BY <1>1, ShiftsRun DEF l, n
<1>3. PICK hrun : Shifting(hf.po, tdi, hrun) /\ hrun[0].shift = hf.shift /\ hrun[n] = h
  <2> HIDE DEF hf, tdi
  <2> QED BY <1>1, ShiftsRun DEF h, n
<1>4. PICK crun : Shifting(cf.po, tdi, crun) /\ crun[0].shift = cf.shift /\ crun[n] = c
  <2>1. DOMAIN cf.po = Latched /\ cf.selected = TRUE
    OBVIOUS
  <2> HIDE DEF cf, tdi
  <2> QED BY <1>1, <2>1, ChipRuns DEF c, n
<1> HIDE DEF l, h, c
<1>5. /\ Shifting(po, tdi, run) /\ run[0].shift = l0 /\ Shifting(po, tdi, hrun) /\ hrun[0].shift = h0
      /\ Shifting(po, tdi, crun) /\ crun[0].shift = x0
  BY <1>2, <1>3, <1>4
<1>6. Loaded(l.shift, a, b, NoSlot, 0) /\ Shows(a, l0, tdi, TailPlace(po), l.out)
  BY <1>2, <1>5, RunFeeds
<1>7. Loaded(h.shift, a, b, NoSlot, 0) /\ Shows(a, h0, tdi, TailPlace(po), h.out)
  BY <1>3, <1>5, RunFeeds
<1>8. Loaded(c.shift, a, b, NoSlot, 0) /\ Shows(a, x0, tdi, TailPlace(po), c.out)
  BY <1>4, <1>5, RunFeeds
<1> HIDE DEF tdi
<1>9. Agree(po, l.shift, c.shift) /\ l.shift[tail] = c.shift[tail]
  BY <1>6, <1>8, LoadedAgree
<1>10. Agree(po, h.shift, c.shift) /\ h.shift[tail] = c.shift[tail]
  BY <1>7, <1>8, LoadedAgree
<1>11. Update(l.shift, po) = new /\ Update(h.shift, po) = new
  BY <1>9, <1>10, UpdatesAgree
<1>12. new = [u \in Latched |-> new[u]]
  BY DEF CellUpdate
<1>13. Carries(new, b)
  <2>1. Passes(a, b) /\ 0 \in Nat
    BY DEF Feeds
  <2>2. Carries(Update(l.shift, po), b)
    BY <1>6, <2>1, PassCommits
  <2> QED BY <1>11, <2>2
<1> HIDE DEF new
<1>14. ASSUME AsCaptured(po, l0, h0, x0)
       PROVE  Failures(l.out, h.out, c.out) = {}
  <2>1. TailPlace(po) \in 1 .. Len(Layout(a))
    <3>1. Len(Layout(po)) # 0 /\ Layout(po) = Layout(a)
      BY ChainHasCells, CarriedLayout
    <3> QED BY <3>1, TailReads
  <2> DEFINE p == TailPlace(po)
  <2> HIDE DEF p
  <2>2. p \in 1 .. Len(Layout(a))
    BY <2>1 DEF p
  <2>3. Shows(a, l0, tdi, p, l.out) /\ Shows(a, h0, tdi, p, h.out) /\ Shows(a, x0, tdi, p, c.out)
    BY <1>6, <1>7, <1>8 DEF p
  <2> QED BY <1>1, <1>14, <2>2, <2>3, SameCellShown
<1>15. ASSUME scan.kind = "probe", OnlySibs(a) PROVE Returned(m, a, c.out)
  <2>1. Shows(a, x0, scan.tdi, TailPlace(po), c.out)
    BY <1>8 DEF tdi
  <2> QED BY <1>15, <2>1, SentinelReturns
<1> HIDE DEF tail
<1>16. /\ Update(l.shift, po) = new /\ Update(h.shift, po) = new
       /\ new = [u \in Latched |-> new[u]] /\ Carries(new, b)
       /\ l.shift[tail] = c.shift[tail] /\ h.shift[tail] = c.shift[tail]
       /\ AsCaptured(po, l0, h0, x0) => Failures(l.out, h.out, c.out) = {}
       /\ scan.kind = "probe" /\ OnlySibs(a) => Returned(m, a, c.out)
  BY <1>9, <1>10, <1>11, <1>12, <1>13, <1>14, <1>15
<1> HIDE DEF lf, hf, cf
<1> QED BY <1>16, Zenon DEF ScannedAlike, l, h, c, new, tdi, tail, lf, hf, cf

\* A scan that does not select the network: with no mux relaying at the end, the
\* two models and the chip show the same tail for the whole scan.
LEMMA UnselectedScan ==
  ASSUME Units # {}, NEW po, DOMAIN po = Latched, ~Matched(po, TailUnit),
         NEW S, NEW tdi \in Seq(S), NEW l0, NEW h0, NEW x0,
         l0[<<TailUnit, 0>>] = x0[<<TailUnit, 0>>]
  PROVE  LET l == ModelScanned([shift |-> l0, po |-> po], tdi, FALSE)
             h == ModelScanned([shift |-> h0, po |-> po], tdi, FALSE)
             c == ChipScanned([shift |-> x0, po |-> po, selected |-> FALSE], tdi)
             tail == <<TailUnit, 0>>
         IN  /\ l.shift = l0 /\ h.shift = h0 /\ c.shift[tail] = x0[tail]
             /\ Failures(l.out, h.out, c.out) = {}
<1> DEFINE tail == <<TailUnit, 0>>
           lf == [shift |-> l0, po |-> po]
           hf == [shift |-> h0, po |-> po]
           cf == [shift |-> x0, po |-> po, selected |-> FALSE]
           l == ModelScanned(lf, tdi, FALSE)
           h == ModelScanned(hf, tdi, FALSE)
           c == ChipScanned(cf, tdi)
<1>1. h.shift = h0
  BY DEF ModelScanned
<1>2. l.shift = l0 /\ DOMAIN l.out = DOMAIN tdi
      /\ \A n \in DOMAIN tdi : l.out[n] = TailBit(l0, po)
  BY DEF ModelScanned
<1>3. TailBit(l0, po) = l0[tail]
  BY UnmatchedTail
<1>4. c.shift[tail] = x0[tail] /\ DOMAIN c.out = DOMAIN tdi /\ \A n \in DOMAIN tdi : c.out[n] = x0[tail]
  <2>1. DOMAIN cf.po = Latched /\ ~Matched(cf.po, TailUnit) /\ ~cf.selected /\ cf.shift = x0
    OBVIOUS
  <2> HIDE DEF cf
  <2> QED BY <2>1, ChipStays DEF c, tail
<1>5. l0[tail] = x0[tail]
  OBVIOUS
<1> HIDE DEF tail, c, l, h, lf, hf, cf
<1>6. \A n \in DOMAIN c.out : l.out[n] = c.out[n]
  BY <1>2, <1>3, <1>4, <1>5
<1>7. Failures(l.out, h.out, c.out) = {}
  BY <1>6 DEF Failures
<1> QED BY <1>1, <1>2, <1>4, <1>7, Zenon DEF tail, l, h, c, lf, hf, cf

\* What each network holds as a scan starts, captured.
LowStart(selected) ==
  [shift |-> IF selected THEN Low!Capture(low.shift, low.po)
             ELSE Low!CaptureUnselected(low.shift, low.po),
   po |-> low.po]
HighStart(selected) ==
  [shift |-> IF selected THEN High!Capture(high.shift, high.po)
             ELSE High!CaptureUnselected(high.shift, high.po),
   po |-> high.po]
ChipCaptured(selected, sensed) ==
  [b \in Cells |-> IF b[1] \in LiveInstruments THEN sensed[b]
                   ELSE CellCapture(chip.shift, chip.po, selected)[b]]
ChipStart(selected, sensed) ==
  [shift |-> ChipCaptured(selected, sensed), po |-> chip.po, selected |-> selected]

\* What playing one scan does.
Plays(scan, selected, sensed) ==
  LET l == ModelScanned(LowStart(selected), scan.tdi, selected)
      h == ModelScanned(HighStart(selected), scan.tdi, selected)
      c == ChipScanned(ChipStart(selected, sensed), scan.tdi)
  IN  /\ low' = ModelAfter(low, l, selected)
      /\ high' = ModelAfter(high, h, selected)
      /\ chip' = [shift |-> c.shift, po |-> CellUpdate(c.shift, chip.po, selected)]
      /\ played' = [scan |-> scan, low |-> l.out, high |-> h.out, chip |-> c.out]

\* Play plays the first scan and leaves the program's own state alone.
LEMMA PlayIs ==
  ASSUME Play
  PROVE  /\ scans # << >> /\ scans' = Tail(scans)
         /\ margin' = margin /\ targets' = targets /\ held' = held /\ opened' = opened
         /\ \E sensed : Plays(Head(scans), Head(scans).kind # "unselected", sensed)
<1>1. /\ scans # << >> /\ scans' = Tail(scans)
      /\ margin' = margin /\ targets' = targets /\ held' = held /\ opened' = opened
  BY DEF Play
<1>2. \E sensed \in LiveBits : Plays(Head(scans), Head(scans).kind # "unselected", sensed)
  BY Zenon DEF Play, Plays, LowStart, HighStart, ChipStart, ChipCaptured
<1> QED BY <1>1, <1>2

----------------------------------------------------------------------------
(* The program at work: the invariant, and the theorems.                    *)

\* The program under way: what is committed, in the chip and in both models, is
\* what some scan before it left, and the scans to come take that to what the
\* program takes to be open.
ProbeInv ==
  /\ margin \in Nat
  /\ targets \in Seq(Probed)
  /\ Rooted(opened)
  /\ LiveValuesNeverCommit
  /\ chip.po = [u \in Latched |-> chip.po[u]]
  /\ \E a \in Opens : Carries(chip.po, a) /\ Through(margin, scans, a, opened)
  /\ SentinelReturnsOnTime

\* The three networks hold the same bit at TDO.
TailsShow ==
  /\ low.shift[<<TailUnit, 0>>] = chip.shift[<<TailUnit, 0>>]
  /\ high.shift[<<TailUnit, 0>>] = chip.shift[<<TailUnit, 0>>]

\* The network is left unselected only with no mux open.
UnselectedInSight ==
  \A i \in DOMAIN scans : scans[i].kind = "unselected" => OnlySibs(scans[i].open)

\* The effect of a scan that selects the network.
LEMMA PlaySelected ==
  ASSUME MuxesLast, NoArmZero, Units # {}, LiveValuesNeverCommit,
         DOMAIN chip.po = Latched, NEW a, Carries(chip.po, a),
         NEW m \in Nat, NEW scan, NEW b, Feeds(m, scan, a, b), scan.kind # "unselected",
         NEW sensed, Plays(scan, TRUE, sensed)
  PROVE  /\ LiveValuesNeverCommit' /\ chip'.po = [u \in Latched |-> chip'.po[u]]
         /\ Carries(chip'.po, b) /\ TailsShow' /\ CareBitsAreSound'
         /\ played'.scan = scan
         /\ scan.kind = "probe" /\ OnlySibs(a) => Returned(m, a, played'.chip)
<1> DEFINE po == chip.po
           l0 == Low!Capture(low.shift, low.po)
           h0 == High!Capture(high.shift, high.po)
           x0 == ChipCaptured(TRUE, sensed)
           l == Shifts([shift |-> l0, po |-> po], scan.tdi)
           h == Shifts([shift |-> h0, po |-> po], scan.tdi)
           c == ChipScanned([shift |-> x0, po |-> po, selected |-> TRUE], scan.tdi)
           new == CellUpdate(c.shift, po, TRUE)
           tail == <<TailUnit, 0>>
<1>1. low.po = po /\ high.po = po
  BY DEF LiveValuesNeverCommit
<1>2. AsCaptured(po, l0, h0, x0)
  <2> SUFFICES ASSUME NEW u \in Cells, Live(po, u[1]), l0[u] = h0[u] PROVE x0[u] = l0[u]
    BY DEF AsCaptured
  <2>1. /\ u[1] \in LiveInstruments => l0[u] = 0 /\ h0[u] = 1
        /\ u[1] \notin LiveInstruments => l0[u] = CapturedBit(po, u[1], u[2])
    BY <1>1, ModelCaptures
  <2>2. u[1] \notin LiveInstruments
    BY <2>1
  <2>3. x0[u] = CellCapture(chip.shift, po, TRUE)[u]
    BY <2>2 DEF ChipCaptured
  <2> QED BY <2>1, <2>2, <2>3, ChipCaptures
<1> HIDE DEF po, l0, h0, x0
<1>3. /\ Update(l.shift, po) = new /\ Update(h.shift, po) = new
      /\ new = [u \in Latched |-> new[u]] /\ Carries(new, b)
      /\ l.shift[tail] = c.shift[tail] /\ h.shift[tail] = c.shift[tail]
      /\ AsCaptured(po, l0, h0, x0) => Failures(l.out, h.out, c.out) = {}
      /\ scan.kind = "probe" /\ OnlySibs(a) => Returned(m, a, c.out)
  <2>1. DOMAIN po = Latched /\ Carries(po, a)
    BY DEF po
  <2>2. ScannedAlike(po, a, m, scan, b, l0, h0, x0)
    BY <2>1, SelectedScan
  <2> QED BY <2>2, Zenon DEF ScannedAlike
<1>4. /\ low' = [shift |-> l.shift, po |-> Update(l.shift, po)]
      /\ high' = [shift |-> h.shift, po |-> Update(h.shift, po)]
      /\ chip' = [shift |-> c.shift, po |-> new]
      /\ played' = [scan |-> scan, low |-> l.out, high |-> h.out, chip |-> c.out]
  <2>1. /\ LowStart(TRUE) = [shift |-> l0, po |-> po]
        /\ HighStart(TRUE) = [shift |-> h0, po |-> po]
        /\ ChipStart(TRUE, sensed) = [shift |-> x0, po |-> po, selected |-> TRUE]
    BY <1>1 DEF LowStart, HighStart, ChipStart, l0, h0, x0, po
  <2>2. \A from, tdi : ModelScanned(from, tdi, TRUE) = Shifts(from, tdi)
    BY DEF ModelScanned
  <2>3. /\ low' = ModelAfter(LowStart(TRUE), l, TRUE)
        /\ high' = ModelAfter(HighStart(TRUE), h, TRUE)
        /\ chip' = [shift |-> c.shift, po |-> new]
        /\ played' = [scan |-> scan, low |-> l.out, high |-> h.out, chip |-> c.out]
    <3>1. \A s : ModelAfter(low, s, TRUE) = ModelAfter(LowStart(TRUE), s, TRUE)
                 /\ ModelAfter(high, s, TRUE) = ModelAfter(HighStart(TRUE), s, TRUE)
      BY DEF ModelAfter, LowStart, HighStart
    <3>2. /\ low' = ModelAfter(low, l, TRUE) /\ high' = ModelAfter(high, h, TRUE)
          /\ chip' = [shift |-> c.shift, po |-> CellUpdate(c.shift, chip.po, TRUE)]
          /\ played' = [scan |-> scan, low |-> l.out, high |-> h.out, chip |-> c.out]
      BY <2>1, <2>2 DEF Plays
    <3> QED BY <3>1, <3>2 DEF po
  <2>4. \A s : /\ ModelAfter(LowStart(TRUE), s, TRUE) = [shift |-> s.shift, po |-> Update(s.shift, po)]
              /\ ModelAfter(HighStart(TRUE), s, TRUE) = [shift |-> s.shift, po |-> Update(s.shift, po)]
    <3>1. \A from, s : ModelAfter(from, s, TRUE) = [shift |-> s.shift, po |-> Update(s.shift, from.po)]
      BY DEF ModelAfter
    <3>2. LowStart(TRUE).po = po /\ HighStart(TRUE).po = po
      BY <1>1 DEF LowStart, HighStart
    <3> QED BY <3>1, <3>2
  <2> HIDE DEF l, h, c, new
  <2> QED BY <2>3, <2>4
<1> HIDE DEF l, h, c, new, tail
<1>5. LiveValuesNeverCommit' /\ Carries(chip'.po, b) /\ chip'.po = [u \in Latched |-> chip'.po[u]]
  BY <1>3, <1>4 DEF LiveValuesNeverCommit
<1>6. TailsShow'
  BY <1>3, <1>4 DEF TailsShow, tail
<1>7. CareBitsAreSound'
  BY <1>2, <1>3, <1>4 DEF CareBitsAreSound
<1>8. played'.scan = scan /\ (scan.kind = "probe" /\ OnlySibs(a) => Returned(m, a, played'.chip))
  BY <1>3, <1>4
<1> QED BY <1>5, <1>6, <1>7, <1>8

\* The effect of a scan that does not.
LEMMA PlayUnselected ==
  ASSUME NoArmZero, Units # {}, LiveValuesNeverCommit,
         chip.po = [u \in Latched |-> chip.po[u]], NEW a, Carries(chip.po, a),
         NEW scan, scan.tdi \in Seq({0, 1}),
         NEW sensed, Plays(scan, FALSE, sensed)
  PROVE  /\ LiveValuesNeverCommit' /\ chip'.po = chip.po
         /\ played'.scan = scan
         /\ OnlySibs(a) /\ TailsShow => TailsShow' /\ CareBitsAreSound'
<1> DEFINE po == chip.po
           l0 == Low!CaptureUnselected(low.shift, low.po)
           h0 == High!CaptureUnselected(high.shift, high.po)
           x0 == ChipCaptured(FALSE, sensed)
           l == ModelScanned([shift |-> l0, po |-> po], scan.tdi, FALSE)
           h == ModelScanned([shift |-> h0, po |-> po], scan.tdi, FALSE)
           c == ChipScanned([shift |-> x0, po |-> po, selected |-> FALSE], scan.tdi)
           tail == <<TailUnit, 0>>
<1>1. low.po = po /\ high.po = po
  BY DEF LiveValuesNeverCommit
<1>2. /\ l0[tail] = low.shift[tail] /\ h0[tail] = high.shift[tail] /\ x0[tail] = chip.shift[tail]
  <2>1. TailUnit \in Units /\ ~Nested(TailUnit)
    BY TailIsATopUnit
  <2>2. TailUnit \notin Instruments /\ 0 \in 0 .. Width[TailUnit] - 1
    <3>1. Width[TailUnit] \in Nat \ {0}
      BY <2>1, CellsOfUnit
    <3>2. TailUnit \notin Instruments
      BY <2>1, TopUnit
    <3> QED BY <3>1, <3>2
  <2>3. tail \in Cells /\ tail[1] = TailUnit
    BY <2>1, <2>2, CellsAre
  <2>4. tail \in Low!Cells /\ tail \in High!Cells
    BY <2>3 DEF Low!Cells, High!Cells, Cells, Low!Units, High!Units, Units, Low!Slots, High!Slots, Slots,
         Low!UnitCells, High!UnitCells, UnitCells, Low!ToSet, High!ToSet, ToSet
  <2>5. TailUnit \notin LiveInstruments
    BY <2>2, IntegrityAssumption DEF ValidLive
  <2> HIDE DEF tail
  <2>6. l0[tail] = low.shift[tail]
    BY <2>2, <2>3, <2>4 DEF Low!CaptureUnselected
  <2>7. h0[tail] = high.shift[tail]
    BY <2>2, <2>3, <2>4 DEF High!CaptureUnselected
  <2>8. x0[tail] = chip.shift[tail]
    BY <2>2, <2>3, <2>5 DEF ChipCaptured, CellCapture, Select
  <2> QED BY <2>6, <2>7, <2>8
<1>3. \A s : CellUpdate(s, po, FALSE) = po
  BY DEF CellUpdate, Select
<1> HIDE DEF po, l0, h0, x0, tail
<1>4. /\ low' = [shift |-> l.shift, po |-> po]
      /\ high' = [shift |-> h.shift, po |-> po]
      /\ chip' = [shift |-> c.shift, po |-> po]
      /\ played' = [scan |-> scan, low |-> l.out, high |-> h.out, chip |-> c.out]
  <2>1. /\ LowStart(FALSE) = [shift |-> l0, po |-> po]
        /\ HighStart(FALSE) = [shift |-> h0, po |-> po]
        /\ ChipStart(FALSE, sensed) = [shift |-> x0, po |-> po, selected |-> FALSE]
    BY <1>1 DEF LowStart, HighStart, ChipStart, l0, h0, x0, po
  <2>2. /\ low' = ModelAfter(low, l, FALSE) /\ high' = ModelAfter(high, h, FALSE)
        /\ chip' = [shift |-> c.shift, po |-> CellUpdate(c.shift, po, FALSE)]
        /\ played' = [scan |-> scan, low |-> l.out, high |-> h.out, chip |-> c.out]
    BY <2>1 DEF Plays, po
  <2> HIDE DEF l, h, c
  <2> QED BY <1>1, <1>3, <2>2 DEF ModelAfter
<1>5. ASSUME OnlySibs(a), TailsShow
      PROVE  TailsShow' /\ CareBitsAreSound'
  <2>1. DOMAIN po = Latched /\ ~Matched(po, TailUnit)
    <3>1. DOMAIN po = Latched /\ Carries(po, a)
      BY DEF po
    <3>2. ~Relays(po)
      BY <1>5, <3>1, SibsDoNotRelay
    <3> QED BY <3>1, <3>2 DEF Relays, Matched
  <2>2. l0[tail] = x0[tail] /\ h0[tail] = x0[tail]
    BY <1>2, <1>5 DEF TailsShow, tail
  <2>3. /\ l.shift = l0 /\ h.shift = h0 /\ c.shift[tail] = x0[tail]
        /\ Failures(l.out, h.out, c.out) = {}
    <3> HIDE DEF l, h, c
    <3> QED BY <2>1, <2>2, UnselectedScan, Zenon DEF l, h, c, tail
  <2> HIDE DEF l, h, c
  <2>4. TailsShow'
    BY <1>4, <2>2, <2>3 DEF TailsShow, tail
  <2>5. CareBitsAreSound'
    BY <1>4, <2>3 DEF CareBitsAreSound
  <2> QED BY <2>4, <2>5
<1> HIDE DEF l, h, c
<1>6. LiveValuesNeverCommit' /\ chip'.po = chip.po /\ played'.scan = scan
  BY <1>4 DEF LiveValuesNeverCommit, po
<1> QED BY <1>5, <1>6

\* Initially nothing is open and the first probe is to come.
LEMMA ProbeInvInit == ProbeInit => ProbeInv
<1> SUFFICES ASSUME ProbeInit PROVE ProbeInv
  OBVIOUS
<1>1. margin \in Nat
  BY IntegrityAssumption DEF ProbeInit
<1>2. targets \in Seq(Probed)
  BY ProbeTargetsAre DEF ProbeInit
<1>3. Through(margin, scans, << >>, opened) /\ Rooted(opened)
  BY <1>1, NothingThrough DEF ProbeInit
<1>4. LiveValuesNeverCommit
  BY DEF LiveValuesNeverCommit, ProbeInit
<1>5. chip.po = [u \in Latched |-> 0]
  BY DEF ProbeInit, ResetNetwork, Low!PoZero, Low!Latched, Latched, Low!Slots, Slots
<1>6. Carries(chip.po, << >>)
  BY <1>5 DEF Carries, Latched
<1>7. << >> \in Opens
  BY OpensAre
<1>8. SentinelReturnsOnTime
  BY DEF ProbeInit, NothingPlayed, Scan, SentinelReturnsOnTime
<1>9. chip.po = [u \in Latched |-> chip.po[u]]
  BY <1>5
<1> QED BY <1>1, <1>2, <1>3, <1>4, <1>6, <1>7, <1>8, <1>9 DEF ProbeInv

\* The state that the emissions leave alone.
LEMMA Emitting ==
  ASSUME ProbeInv, scans = << >>
  PROVE  Carries(chip.po, opened)
<1>1. PICK a \in Opens : Carries(chip.po, a) /\ Through(margin, scans, a, opened)
  BY DEF ProbeInv
<1>2. a = opened
  BY <1>1, Scanning!WayNone DEF Through
<1> QED BY <1>1, <1>2

\* Closing what is open, then a probe.
LEMMA ProbeInvEmitProbe == ASSUME ProbeInv, EmitProbe PROVE ProbeInv'
<1> DEFINE t == Head(targets)  build == build_overshift_ops(t, << >>, margin)
<1>1. /\ scans = << >> /\ targets # << >> /\ scans' = CloseAll(opened) \o build
      /\ opened' = Opened(t) /\ targets' = Tail(targets)
      /\ margin' = margin /\ chip' = chip /\ low' = low /\ high' = high /\ played' = played
  BY DEF EmitProbe
<1>2. /\ margin \in Nat /\ targets \in Seq(Probed) /\ Rooted(opened) /\ Carries(chip.po, opened)
  BY <1>1, Emitting DEF ProbeInv
<1>3. t \in Probed /\ targets' \in Seq(Probed)
  BY <1>1, <1>2
<1> HIDE DEF t
<1>4. Aim(t)
  BY <1>3, ProbedAims
<1>5. Through(margin, build, << >>, Opened(t)) /\ Rooted(Opened(t))
  BY <1>2, <1>4, TargetThrough
<1> HIDE DEF build
<1>6. \E a \in Opens : Carries(chip.po, a) /\ Through(margin, CloseAll(opened) \o build, a, Opened(t))
  <2>1. CASE DOMAIN opened = {}
    <3>1. Carries(chip.po, << >>)
      BY <1>2, <2>1 DEF Carries
    <3>2. \E S : build \in Seq(S)
      BY <1>5 DEF Through, Scanning!Passage
    <3>3. << >> \o build = build
      BY <3>2
    <3>4. CloseAll(opened) = << >> /\ << >> \in Opens
      BY <2>1, OpensAre DEF CloseAll
    <3> QED BY <1>5, <3>1, <3>3, <3>4
  <2>2. CASE DOMAIN opened # {}
    <3>1. Through(margin, CloseAll(opened), opened, << >>)
      BY <1>2, <2>2, CloseThrough
    <3>2. Through(margin, CloseAll(opened) \o build, opened, Opened(t))
      BY <1>5, <3>1, Scanning!WayMore DEF Through
    <3> QED BY <1>2, <3>2 DEF Rooted
  <2> QED BY <2>1, <2>2
<1>7. LiveValuesNeverCommit' /\ SentinelReturnsOnTime'
  BY <1>1 DEF ProbeInv, LiveValuesNeverCommit, SentinelReturnsOnTime
<1>8. chip'.po = [u \in Latched |-> chip'.po[u]]
  BY <1>1 DEF ProbeInv
<1> QED BY <1>1, <1>2, <1>3, <1>5, <1>6, <1>7, <1>8 DEF ProbeInv

\* The network-hold scans.
LEMMA ProbeInvEmitNetworkHold == ASSUME ProbeInv, EmitNetworkHold PROVE ProbeInv'
<1>1. /\ scans = << >> /\ scans' = NetworkHold(opened, margin)
      /\ opened' = << >> /\ targets' = targets
      /\ margin' = margin /\ chip' = chip /\ low' = low /\ high' = high /\ played' = played
  BY DEF EmitNetworkHold
<1>2. /\ margin \in Nat /\ Rooted(opened) /\ opened \in Opens /\ Carries(chip.po, opened)
  BY <1>1, Emitting DEF ProbeInv, Rooted
<1>3. Through(margin, NetworkHold(opened, margin), opened, << >>) /\ Rooted(<< >>)
  BY <1>2, HoldThrough, NothingThrough
<1>4. LiveValuesNeverCommit' /\ SentinelReturnsOnTime'
  BY <1>1 DEF ProbeInv, LiveValuesNeverCommit, SentinelReturnsOnTime
<1> QED BY <1>1, <1>2, <1>3, <1>4 DEF ProbeInv

\* A scan, and what it shows.
LEMMA ProbeInvPlay ==
  ASSUME MuxesLast, NoArmZero, Units # {}, ProbeInv, Play
  PROVE  /\ ProbeInv'
         /\ UnselectedInSight /\ TailsShow => TailsShow' /\ CareBitsAreSound'
<1> DEFINE scan == Head(scans)
<1>1. /\ scans # << >> /\ scans' = Tail(scans)
      /\ margin' = margin /\ targets' = targets /\ opened' = opened
      /\ \E sensed : Plays(scan, scan.kind # "unselected", sensed)
  BY PlayIs
<1>2. PICK sensed : Plays(scan, scan.kind # "unselected", sensed)
  BY <1>1
<1>3. /\ margin \in Nat /\ LiveValuesNeverCommit /\ chip.po = [u \in Latched |-> chip.po[u]]
      /\ DOMAIN chip.po = Latched /\ targets \in Seq(Probed) /\ Rooted(opened)
  BY DEF ProbeInv
<1>4. PICK a \in Opens : Carries(chip.po, a) /\ Through(margin, scans, a, opened)
  BY DEF ProbeInv
<1>5. scan = scans[1] /\ \E S : scans \in Seq(S)
  BY <1>4 DEF Through, Scanning!Passage
<1>6. \E b \in Opens : Feeds(margin, scans[1], a, b) /\ Through(margin, Tail(scans), b, opened)
  <2>1. \E b \in Opens : a \in Opens /\ Feeds(margin, scans[1], a, b)
                          /\ Scanning!Passage(margin, Opens, Tail(scans), b, opened)
    BY <1>1, <1>4, Scanning!WayTail DEF Through
  <2> QED BY <2>1 DEF Through
<1>7. PICK b \in Opens : Feeds(margin, scan, a, b) /\ Through(margin, Tail(scans), b, opened)
  BY <1>5, <1>6
<1>8. UnselectedInSight /\ scan.kind = "unselected" => OnlySibs(a)
  <2>1. 1 \in DOMAIN scans
    BY <1>1, <1>5
  <2> QED BY <1>5, <1>7, <2>1 DEF UnselectedInSight, Feeds
<1>9. /\ LiveValuesNeverCommit' /\ chip'.po = [u \in Latched |-> chip'.po[u]]
      /\ Carries(chip'.po, b) /\ SentinelReturnsOnTime'
      /\ UnselectedInSight /\ TailsShow => TailsShow' /\ CareBitsAreSound'
  <2>1. CASE scan.kind # "unselected"
    <3>1. Plays(scan, TRUE, sensed)
      <4>1. (scan.kind # "unselected") = TRUE
        BY <2>1
      <4> QED BY <1>2, <4>1
    <3> HIDE DEF scan
    <3>2. /\ LiveValuesNeverCommit' /\ chip'.po = [u \in Latched |-> chip'.po[u]]
          /\ Carries(chip'.po, b) /\ TailsShow' /\ CareBitsAreSound'
          /\ played'.scan = scan
          /\ scan.kind = "probe" /\ OnlySibs(a) => Returned(margin, a, played'.chip)
      BY <1>3, <1>4, <1>7, <2>1, <3>1, PlaySelected
    <3>3. scan.open = a
      BY <1>7 DEF Feeds
    <3>4. SentinelReturnsOnTime'
      BY <1>1, <3>2, <3>3 DEF SentinelReturnsOnTime, OnlySibs, Returned
    <3> QED BY <3>2, <3>4
  <2>2. CASE scan.kind = "unselected"
    <3>1. Plays(scan, FALSE, sensed)
      <4>1. (scan.kind # "unselected") = FALSE
        BY <2>2
      <4> QED BY <1>2, <4>1
    <3> HIDE DEF scan
    <3>2. scan.tdi \in Seq({0, 1}) /\ a = b
      BY <1>7, <2>2 DEF Feeds
    <3>3. /\ LiveValuesNeverCommit' /\ chip'.po = chip.po /\ played'.scan = scan
          /\ OnlySibs(a) /\ TailsShow => TailsShow' /\ CareBitsAreSound'
      BY <1>3, <1>4, <3>1, <3>2, PlayUnselected
    <3>4. SentinelReturnsOnTime'
      BY <2>2, <3>3 DEF SentinelReturnsOnTime
    <3> QED BY <1>3, <1>4, <1>8, <2>2, <3>2, <3>3, <3>4
  <2> QED BY <2>1, <2>2
<1> HIDE DEF scan
<1>10. \E d \in Opens : Carries(chip'.po, d) /\ Through(margin', scans', d, opened')
  BY <1>1, <1>7, <1>9
<1> QED BY <1>1, <1>3, <1>9, <1>10 DEF ProbeInv

\* Every step keeps it.
LEMMA ProbeInvNext ==
  ASSUME MuxesLast, NoArmZero, Units # {}, ProbeInv, [ProbeNext]_probeVars
  PROVE  ProbeInv'
<1>1. CASE EmitProbe
  BY <1>1, ProbeInvEmitProbe
<1>2. CASE EmitNetworkHold
  BY <1>2, ProbeInvEmitNetworkHold
<1>3. CASE Play
  BY <1>3, ProbeInvPlay
<1>4. CASE UNCHANGED probeVars
  BY <1>4 DEF probeVars, ProbeInv, LiveValuesNeverCommit, SentinelReturnsOnTime
<1> QED BY <1>1, <1>2, <1>3, <1>4 DEF ProbeNext

\* It is an invariant of the program.
LEMMA ProbeInvHolds ==
  ASSUME MuxesLast, NoArmZero, Units # {}
  PROVE  ProbeSpec => []ProbeInv
<1>1. ProbeInit => ProbeInv
  BY ProbeInvInit
<1>2. ProbeInv /\ [ProbeNext]_probeVars => ProbeInv'
  BY ProbeInvNext
<1> QED BY <1>1, <1>2, PTL DEF ProbeSpec

\* Between two parts of the program the chip has open just what the program takes
\* to be open (build_overshift_ops, _close_all): no slot is left behind or lost.
THEOREM NetworkIsAsTrackedHolds ==
  ASSUME MuxesLast, NoArmZero, Units # {}
  PROVE  ProbeSpec => []NetworkIsAsTracked
<1>1. ProbeInv => NetworkIsAsTracked
  BY Emitting DEF NetworkIsAsTracked, Carries
<1> QED BY <1>1, ProbeInvHolds, PTL

\* Whatever the live instruments capture, the two models and the chip commit the
\* same values: a captured value never reaches a slot or a WRITE instrument.
THEOREM LiveValuesNeverCommitHolds ==
  ASSUME MuxesLast, NoArmZero, Units # {}
  PROVE  ProbeSpec => []LiveValuesNeverCommit
<1>1. ProbeInv => LiveValuesNeverCommit
  BY DEF ProbeInv
<1> QED BY <1>1, ProbeInvHolds, PTL

\* A probe under which SIBs alone are open gets its sentinel back after as many
\* cycles as layout_bit_length says, at every margin.
THEOREM SentinelReturnsOnTimeHolds ==
  ASSUME MuxesLast, NoArmZero, Units # {}
  PROVE  ProbeSpec => []SentinelReturnsOnTime
<1>1. ProbeInv => SentinelReturnsOnTime
  BY DEF ProbeInv
<1> QED BY <1>1, ProbeInvHolds, PTL

\* Once the last probe is out, SIBs alone are open.
SibsAtTheEnd ==
  /\ targets # << >> => targets[Len(targets)] = ProbeTargets[Len(ProbeTargets)]
  /\ targets = << >> /\ ~held => OnlySibs(opened)

\* What CareBitsAreSound needs besides: a scan under another instruction shows the
\* last cell's bit, which the three must hold alike, and no mux relays it.
CareInv ==
  /\ ProbeInv
  /\ CareBitsAreSound /\ TailsShow
  /\ UnselectedInSight /\ SibsAtTheEnd

\* A probe of a target is scans that select the network.
LEMMA ProbesSelect ==
  ASSUME NEW m \in Nat, NEW t, NEW D \in Nat \ {0}, NEW S, NEW rounds \in [1 .. D -> S],
         stage_open_sequence(t, << >>) = rounds
  PROVE  LET build == build_overshift_ops(t, << >>, m) IN
         \A i \in DOMAIN build : build[i].kind # "unselected"
<1> DEFINE Prior(r) == IF r = 1 THEN << >> ELSE rounds[r - 1]
           one(r) == Scan("round", Prior(r), Reverse(compose_bits(Prior(r), rounds[r], NoSlot, 0)))
           round == [r \in 1 .. D |-> one(r)]
           probe == Scan("probe", rounds[D], default_sentinel_pattern(m)
                                               \o Reverse(compose_bits(rounds[D], rounds[D], NoSlot, 0)))
           build == build_overshift_ops(t, << >>, m)
<1>1. /\ D \in 1 .. D /\ Len(rounds) = D /\ DOMAIN rounds = 1 .. D /\ rounds # << >>
  OBVIOUS
<1>2. build = Append(round, probe)
  <2>1. Last(rounds) = rounds[D]
    BY <1>1 DEF Last
  <2> HIDE DEF round, probe
  <2> QED BY <1>1, <2>1, Zenon DEF build_overshift_ops, round, probe
<1>3. probe.kind = "probe" /\ \A r \in 1 .. D : one(r).kind = "round"
  BY DEF Scan
<1> HIDE DEF one, probe, Prior, build
<1>4. round \in Seq({one(r) : r \in 1 .. D}) /\ Len(round) = D /\ \A r \in 1 .. D : round[r] = one(r)
  <2>1. round \in [1 .. D -> {one(r) : r \in 1 .. D}] /\ \A r \in 1 .. D : round[r] = one(r)
    OBVIOUS
  <2> HIDE DEF round
  <2> QED BY <2>1, FunctionIsSeq
<1> HIDE DEF round
<1>5. /\ DOMAIN build = 1 .. D + 1 /\ build[D + 1] = probe
      /\ \A i \in 1 .. D : build[i] = one(i)
  <2> DEFINE T == {one(r) : r \in 1 .. D} \cup {probe}
  <2>1. round \in Seq(T) /\ probe \in T
    BY <1>4
  <2> HIDE DEF T
  <2> QED BY <1>2, <1>4, <2>1
<1>6. ASSUME NEW i \in DOMAIN build PROVE build[i].kind # "unselected"
  <2>1. i = D + 1 \/ i \in 1 .. D
    BY <1>5
  <2> QED BY <1>3, <1>5, <2>1
<1> QED BY <1>6 DEF build

\* A property of every scan of two programs is one of both in a row.
LEMMA EveryScan ==
  ASSUME NEW S, NEW p \in Seq(S), NEW q \in Seq(S),
         \A i \in DOMAIN p : p[i].kind # "unselected", \A i \in DOMAIN q : q[i].kind # "unselected",
         NEW i \in DOMAIN (p \o q)
  PROVE  (p \o q)[i].kind # "unselected"
<1>1. /\ Len(p) \in Nat /\ Len(q) \in Nat /\ DOMAIN (p \o q) = 1 .. Len(p) + Len(q)
      /\ DOMAIN p = 1 .. Len(p) /\ DOMAIN q = 1 .. Len(q)
  OBVIOUS
<1>2. CASE i <= Len(p)
  <2>1. i \in DOMAIN p /\ (p \o q)[i] = p[i]
    BY <1>1, <1>2
  <2> QED BY <2>1
<1>3. CASE ~(i <= Len(p))
  <2>1. i - Len(p) \in DOMAIN q /\ (p \o q)[i] = q[i - Len(p)]
    BY <1>1, <1>3
  <2> QED BY <2>1
<1> QED BY <1>2, <1>3

\* Nothing has been played, and the first probe selects the network.
LEMMA CareInvInit ==
  ASSUME SibsProbedLast
  PROVE  ProbeInit => CareInv
<1> SUFFICES ASSUME ProbeInit PROVE CareInv
  OBVIOUS
<1>1. ProbeInv
  BY ProbeInvInit
<1>2. CareBitsAreSound
  BY DEF ProbeInit, NothingPlayed, CareBitsAreSound, Failures
<1>3. TailsShow
  BY DEF ProbeInit, TailsShow
<1>4. UnselectedInSight
  <2> DEFINE rounds == << << >> >>
  <2>1. stage_open_sequence(<< >>, << >>) = rounds /\ rounds \in [1 .. 1 -> {<< >>}]
    BY DEF stage_open_sequence
  <2> HIDE DEF rounds
  <2>2. margin \in Nat /\ 1 \in Nat \ {0}
    BY <1>1 DEF ProbeInv
  <2>3. \A i \in DOMAIN scans : scans[i].kind # "unselected"
    BY <2>1, <2>2, ProbesSelect DEF ProbeInit
  <2> QED BY <2>3 DEF UnselectedInSight
<1>5. SibsAtTheEnd
  BY DEF ProbeInit, SibsAtTheEnd, OnlySibs
<1> QED BY <1>1, <1>2, <1>3, <1>4, <1>5 DEF CareInv

\* The last target opens SIBs alone.
LEMMA LastOpensSibs ==
  ASSUME SibsProbedLast, NEW t, Aim(t), t = ProbeTargets[Len(ProbeTargets)]
  PROVE  OnlySibs(Opened(t))
<1>1. Rooted(Opened(t)) /\ \A s \in DOMAIN Opened(t) : \E r \in Required(t) : r.slot = s
  <2>1. 0 \in Nat
    OBVIOUS
  <2> QED BY <2>1, TargetThrough
<1>2. CASE Muxes = {}
  <2>1. DOMAIN Opened(t) \subseteq Slots
    BY <1>1 DEF Rooted, Opens
  <2> QED BY <1>2, <2>1 DEF Slots, OnlySibs
<1>3. CASE Cardinality(SibsOutsideMuxes) > 1
  <2>1. t = AllSibs
    BY <1>3, LastProbed
  <2>2. \A r \in Required(AllSibs) : r.slot \in Sibs
    BY <1>3, AllSibsAim
  <2> QED BY <1>1, <2>1, <2>2 DEF OnlySibs
<1> QED BY <1>2, <1>3 DEF SibsProbedLast

\* A probe adds no scan under another instruction.
LEMMA CareInvEmitProbe == ASSUME SibsProbedLast, CareInv, EmitProbe PROVE CareInv'
<1> DEFINE t == Head(targets)  build == build_overshift_ops(t, << >>, margin)
<1>1. /\ scans = << >> /\ targets # << >> /\ scans' = CloseAll(opened) \o build
      /\ opened' = Opened(t) /\ targets' = Tail(targets)
      /\ chip' = chip /\ low' = low /\ high' = high /\ played' = played
  BY DEF EmitProbe
<1>2. ProbeInv'
  BY ProbeInvEmitProbe DEF CareInv
<1>3. margin \in Nat /\ targets \in Seq(Probed) /\ Rooted(opened)
  BY DEF CareInv, ProbeInv
<1>4. t \in Probed /\ t = targets[1]
  BY <1>1, <1>3
<1> HIDE DEF t
<1>5. Aim(t)
  BY <1>4, ProbedAims
<1>6. UnselectedInSight'
  <2>1. PICK D \in Nat \ {0} : stage_open_sequence(t, << >>) = [i \in 1 .. D |-> Down(t, i)]
    BY <1>5, RoundsOf
  <2> DEFINE rounds == [i \in 1 .. D |-> Down(t, i)]  S == {Down(t, i) : i \in 1 .. D}
  <2>2. rounds \in [1 .. D -> S] /\ stage_open_sequence(t, << >>) = rounds
    BY <2>1
  <2> HIDE DEF rounds, S
  <2>3. \A i \in DOMAIN build : build[i].kind # "unselected"
    BY <1>3, <2>2, ProbesSelect
  <2>4. \E T : build \in Seq(T)
    <3>1. Through(margin, build, << >>, Opened(t))
      BY <1>3, <1>5, TargetThrough
    <3> QED BY <3>1 DEF Through, Scanning!Passage
  <2> DEFINE close == Scan("close", opened, Reverse(compose_bits(opened, << >>, NoSlot, 0)))
  <2>5. close.kind # "unselected"
    BY DEF Scan
  <2>6. CloseAll(opened) = << >> \/ CloseAll(opened) = << close >>
    BY DEF CloseAll
  <2> HIDE DEF close, build
  <2>7. PICK T : build \in Seq(T)
    BY <2>4
  <2> DEFINE Q == T \cup {close}
  <2>8. CloseAll(opened) \in Seq(Q) /\ build \in Seq(Q)
    <3>1. << >> \in Seq(Q) /\ << close >> \in Seq(Q)
      OBVIOUS
    <3>2. T \subseteq Q
      OBVIOUS
    <3>3. build \in Seq(Q)
      BY <2>7, <3>2
    <3> QED BY <2>6, <3>1, <3>3
  <2>9. \A i \in DOMAIN CloseAll(opened) : CloseAll(opened)[i].kind # "unselected"
    BY <2>5, <2>6
  <2> HIDE DEF Q
  <2>10. \A i \in DOMAIN scans' : scans'[i].kind # "unselected"
    BY <1>1, <2>3, <2>8, <2>9, EveryScan
  <2> QED BY <2>10 DEF UnselectedInSight
<1>7. SibsAtTheEnd'
  <2>1. /\ Len(targets) \in Nat \ {0} /\ Len(targets') = Len(targets) - 1
        /\ \A i \in 1 .. Len(targets') : targets'[i] = targets[i + 1]
    BY <1>1, <1>3
  <2>2. targets[Len(targets)] = ProbeTargets[Len(ProbeTargets)]
    BY <1>1 DEF CareInv, SibsAtTheEnd
  <2>3. ASSUME targets' # << >>
        PROVE  targets'[Len(targets')] = ProbeTargets[Len(ProbeTargets)]
    <3>1. targets' \in Seq(Probed) /\ Len(targets') # 0
      BY <1>1, <1>3, <2>3
    <3>2. Len(targets') \in 1 .. Len(targets') /\ Len(targets') + 1 = Len(targets)
      BY <2>1, <3>1
    <3> QED BY <2>1, <2>2, <3>2
  <2>4. ASSUME targets' = << >>
        PROVE  OnlySibs(opened')
    <3>1. Len(targets) = 1
      BY <2>1, <2>4
    <3>2. t = ProbeTargets[Len(ProbeTargets)]
      BY <1>4, <2>2, <3>1
    <3> QED BY <1>1, <1>5, <3>2, LastOpensSibs
  <2> QED BY <2>3, <2>4 DEF SibsAtTheEnd
<1>8. CareBitsAreSound' /\ TailsShow'
  BY <1>1 DEF CareInv, CareBitsAreSound, TailsShow
<1> QED BY <1>2, <1>6, <1>7, <1>8 DEF CareInv

\* The one that the network-hold test adds finds SIBs alone open.
LEMMA CareInvEmitNetworkHold == ASSUME CareInv, EmitNetworkHold PROVE CareInv'
<1>1. /\ targets = << >> /\ ~held /\ scans' = NetworkHold(opened, margin)
      /\ held' = TRUE /\ targets' = targets
      /\ chip' = chip /\ low' = low /\ high' = high /\ played' = played
  BY DEF EmitNetworkHold
<1>2. ProbeInv'
  BY ProbeInvEmitNetworkHold DEF CareInv
<1>3. OnlySibs(opened)
  BY <1>1 DEF CareInv, SibsAtTheEnd
<1>4. UnselectedInSight'
  <2>1. \A i \in DOMAIN NetworkHold(opened, margin) : NetworkHold(opened, margin)[i].open = opened
    BY DEF NetworkHold, Scan
  <2> QED BY <1>1, <1>3, <2>1 DEF UnselectedInSight
<1>5. SibsAtTheEnd' /\ CareBitsAreSound' /\ TailsShow'
  BY <1>1 DEF CareInv, SibsAtTheEnd, CareBitsAreSound, TailsShow
<1> QED BY <1>2, <1>4, <1>5 DEF CareInv

\* What a scan shows of the three is what ProbeInvPlay says.
LEMMA CareInvPlay ==
  ASSUME MuxesLast, NoArmZero, Units # {}, CareInv, Play
  PROVE  CareInv'
<1>1. scans # << >> /\ scans' = Tail(scans) /\ targets' = targets /\ held' = held /\ opened' = opened
  BY PlayIs
<1>2. ProbeInv' /\ TailsShow' /\ CareBitsAreSound'
  BY ProbeInvPlay DEF CareInv
<1>3. UnselectedInSight'
  <2>1. PICK S : scans \in Seq(S)
    BY DEF CareInv, ProbeInv, Through, Scanning!Passage
  <2>2. \A i \in DOMAIN Tail(scans) : i + 1 \in DOMAIN scans /\ Tail(scans)[i] = scans[i + 1]
    BY <1>1, <2>1
  <2> QED BY <1>1, <2>2 DEF CareInv, UnselectedInSight
<1>4. SibsAtTheEnd'
  BY <1>1 DEF CareInv, SibsAtTheEnd
<1> QED BY <1>2, <1>3, <1>4 DEF CareInv

\* Every step keeps it.
LEMMA CareInvNext ==
  ASSUME MuxesLast, NoArmZero, Units # {}, SibsProbedLast, CareInv, [ProbeNext]_probeVars
  PROVE  CareInv'
<1>1. CASE EmitProbe
  BY <1>1, CareInvEmitProbe
<1>2. CASE EmitNetworkHold
  BY <1>2, CareInvEmitNetworkHold
<1>3. CASE Play
  BY <1>3, CareInvPlay
<1>4. CASE UNCHANGED probeVars
  <2>1. ProbeInv'
    BY <1>4, ProbeInvNext DEF CareInv
  <2> QED BY <1>4, <2>1 DEF probeVars, CareInv, CareBitsAreSound, TailsShow, UnselectedInSight, SibsAtTheEnd
<1> QED BY <1>1, <1>2, <1>3, <1>4 DEF ProbeNext

\* A chip that matches the description fails no care cycle, whatever its live
\* instruments capture: no bit on which the two models agree shows another TDO
\* (_expected_cycles, check_integrity).  SibsProbedLast is needed: see the finding
\* on a program that ends with a mux open.
THEOREM CareBitsAreSoundHolds ==
  ASSUME MuxesLast, NoArmZero, Units # {}, SibsProbedLast
  PROVE  ProbeSpec => []CareBitsAreSound
<1>1. ProbeInit => CareInv
  BY CareInvInit
<1>2. CareInv /\ [ProbeNext]_probeVars => CareInv'
  BY CareInvNext
<1>3. CareInv => CareBitsAreSound
  BY DEF CareInv
<1> QED BY <1>1, <1>2, <1>3, PTL DEF ProbeSpec
===============================================================================
