------------------------- MODULE ScanNetworkProofs -------------------------
(***************************************************************************)
(* The scan chain of every network validate_physical_graph accepts: where  *)
(* the order of the units puts what a slot splices in, and where the       *)
(* layout puts each unit's cells.                                          *)
(***************************************************************************)
EXTENDS SibCells, InductionLemmas

N == Len(Order)
Step == [slot : Slots, value : Nat]

\* The unit at depth i of the way down to u: u itself at the bottom.
Ancestor(u, i) == IF i = Len(Path[u]) THEN u ELSE Path[u][i + 1].slot

\* Every unit has one place in the order.
LEMMA OrderIndex ==
  /\ N \in Nat
  /\ \A u \in Units : IndexOf(u) \in 1 .. N /\ Order[IndexOf(u)] = u
  /\ \A i \in 1 .. N : Order[i] \in Units /\ IndexOf(Order[i]) = i
<1>1. /\ Order \in Seq(Units) /\ N \in Nat /\ DOMAIN Order = 1 .. N
      /\ {Order[i] : i \in 1 .. N} = Units /\ N = Cardinality(Units)
  BY NetworkAssumption DEF ValidPhysicalGraph, ToSet, N
<1>2. Order \in Surjection(1 .. N, Units)
  <2>1. Order \in [1 .. N -> Units]
    BY <1>1
  <2> QED BY <2>1, <1>1 DEF Surjection
<1>3. IsFiniteSet(1 .. N) /\ Cardinality(1 .. N) = N
  <2>1. 1 \in Int /\ N \in Int
    BY <1>1
  <2>2. IsFiniteSet(1 .. N) /\ Cardinality(1 .. N) = IF 1 > N THEN 0 ELSE N - 1 + 1
    BY <2>1, FS_Interval
  <2> QED BY <2>2, <1>1
<1>4. Order \in Injection(1 .. N, Units)
  BY <1>1, <1>2, <1>3, FS_SurjSameCardinalityImpliesInj
<1>5. \A i, j \in 1 .. N : Order[i] = Order[j] => i = j
  BY <1>4 DEF Injection, IsInjective
<1>6. ASSUME NEW u \in Units PROVE IndexOf(u) \in 1 .. N /\ Order[IndexOf(u)] = u
  <2>1. \E i \in DOMAIN Order : Order[i] = u
    BY <1>1
  <2> QED BY <2>1, <1>1 DEF IndexOf
<1>7. ASSUME NEW i \in 1 .. N PROVE Order[i] \in Units /\ IndexOf(Order[i]) = i
  <2>1. Order[i] \in Units
    BY <1>1
  <2> QED BY <2>1, <1>5, <1>6
<1> QED BY <1>1, <1>6, <1>7

\* Units with the same place are the same unit.
LEMMA SameIndex ==
  ASSUME NEW u \in Units, NEW v \in Units, u # v
  PROVE  IndexOf(u) < IndexOf(v) \/ IndexOf(v) < IndexOf(u)
BY OrderIndex

\* The path of a gated unit is its slot's path and one step.
LEMMA GateStep ==
  ASSUME NEW u \in Units
  PROVE  /\ Path[u] \in Seq(Step) /\ Len(Path[u]) \in Nat
         /\ Nested(u) <=> Len(Path[u]) # 0
         /\ Nested(u) =>
              /\ Gate(u) \in Step /\ Gate(u) = Path[u][Len(Path[u])]
              /\ Gate(u).slot \in Slots /\ Gate(u).slot \in Units
              /\ Len(Path[Gate(u).slot]) = Len(Path[u]) - 1
              /\ \A j \in 1 .. Len(Path[u]) - 1 : Path[Gate(u).slot][j] = Path[u][j]
              /\ IndexOf(u) < IndexOf(Gate(u).slot)
<1>1. Path[u] \in Seq(Step)
  BY NetworkAssumption DEF ValidPhysicalGraph, Step
<1>2. Nested(u) <=> Len(Path[u]) # 0
  BY <1>1 DEF Nested
<1>3. ASSUME Nested(u)
      PROVE  /\ Gate(u) \in Step /\ Gate(u).slot \in Slots /\ Gate(u).slot \in Units
             /\ Len(Path[Gate(u).slot]) = Len(Path[u]) - 1
             /\ \A j \in 1 .. Len(Path[u]) - 1 : Path[Gate(u).slot][j] = Path[u][j]
             /\ IndexOf(u) < IndexOf(Gate(u).slot)
  <2> DEFINE g == Gate(u)
  <2>1. /\ g.slot \in Slots /\ Path[u] = Append(Path[g.slot], g)
        /\ IndexOf(u) < IndexOf(g.slot)
    BY <1>3, NetworkAssumption DEF ValidPhysicalGraph
  <2>2. g \in Step
    BY <1>1, <1>2, <1>3 DEF Gate
  <2>3. g.slot \in Units /\ Path[g.slot] \in Seq(Step)
    BY <2>1, NetworkAssumption DEF ValidPhysicalGraph, Step, Units
  <2> HIDE DEF g
  <2>4. /\ Len(Path[u]) = Len(Path[g.slot]) + 1
        /\ \A j \in 1 .. Len(Path[g.slot]) : Path[u][j] = Path[g.slot][j]
    BY <2>1, <2>2, <2>3
  <2>5. Len(Path[g.slot]) \in Nat
    BY <2>3
  <2> QED BY <2>1, <2>2, <2>3, <2>4, <2>5 DEF g
<1> QED BY <1>1, <1>2, <1>3 DEF Gate

\* The units on the way down to u: each has its own part of u's path, comes
\* at or after u, and has u inside unless it is u.
LEMMA Ancestors ==
  ASSUME NEW u \in Units, NEW i \in 0 .. Len(Path[u])
  PROVE  /\ Ancestor(u, i) \in Units
         /\ Len(Path[Ancestor(u, i)]) = i
         /\ \A j \in 1 .. i : Path[Ancestor(u, i)][j] = Path[u][j]
         /\ IndexOf(u) <= IndexOf(Ancestor(u, i))
         /\ Ancestor(u, i) # u => u \in Inside(Ancestor(u, i))
<1> DEFINE Fine(v, k) ==
             /\ Ancestor(v, k) \in Units /\ Len(Path[Ancestor(v, k)]) = k
             /\ \A j \in 1 .. k : Path[Ancestor(v, k)][j] = Path[v][j]
             /\ IndexOf(v) <= IndexOf(Ancestor(v, k))
           Good(n) == \A v \in Units : Len(Path[v]) = n => \A k \in 0 .. n : Fine(v, k)
           P == {n \in Nat : Good(n)}
<1>1. ASSUME NEW v \in Units PROVE Fine(v, Len(Path[v]))
  BY OrderIndex DEF Ancestor
<1>2. Good(0)
  <2> SUFFICES ASSUME NEW v \in Units, Len(Path[v]) = 0, NEW k \in 0 .. 0 PROVE Fine(v, k)
    OBVIOUS
  <2>1. k = Len(Path[v])
    OBVIOUS
  <2> HIDE DEF Fine
  <2> QED BY <2>1, <1>1
<1>3. ASSUME NEW n \in Nat, Good(n) PROVE Good(n + 1)
  <2> SUFFICES ASSUME NEW v \in Units, Len(Path[v]) = n + 1, NEW k \in 0 .. n + 1
               PROVE  Fine(v, k)
    OBVIOUS
  <2>1. CASE k = n + 1
    <3> HIDE DEF Fine
    <3> QED BY <2>1, <1>1
  <2>2. CASE k # n + 1
    <3> DEFINE s == Gate(v).slot
    <3>1. /\ s \in Units /\ Len(Path[s]) = n /\ IndexOf(v) < IndexOf(s)
          /\ \A j \in 1 .. n : Path[s][j] = Path[v][j]
          /\ s = Path[v][n + 1].slot
      BY GateStep
    <3> HIDE DEF s
    <3>2. k \in 0 .. n /\ k # Len(Path[v])
      BY <2>2
    <3>3. Fine(s, k)
      <4> HIDE DEF Fine
      <4> QED BY <1>3, <3>1, <3>2
    <3>4. Ancestor(v, k) = Ancestor(s, k)
      <4>1. Ancestor(v, k) = Path[v][k + 1].slot
        BY <3>2 DEF Ancestor
      <4>2. CASE k = n
        BY <4>1, <4>2, <3>1 DEF Ancestor
      <4>3. CASE k # n
        <5>1. k + 1 \in 1 .. n
          BY <4>3, <3>2
        <5> QED BY <4>1, <4>3, <5>1, <3>1 DEF Ancestor
      <4> QED BY <4>2, <4>3
    <3>5. \A j \in 1 .. k : Path[Ancestor(s, k)][j] = Path[s][j] /\ j \in 1 .. n
      BY <3>3, <3>2
    <3>6. IndexOf(v) <= IndexOf(Ancestor(s, k))
      BY <3>1, <3>3, OrderIndex
    <3> QED BY <3>1, <3>3, <3>4, <3>5, <3>6
  <2> QED BY <2>1, <2>2
<1>4. Nat \subseteq P
  <2>1. 0 \in P /\ \A n \in Nat : n \in P => n + 1 \in P
    <3> HIDE DEF Good
    <3> QED BY <1>2, <1>3
  <2> HIDE DEF P
  <2> QED BY <2>1, Induction
<1>5. Len(Path[u]) \in Nat
  BY GateStep
<1>6. Fine(u, i)
  <2>1. Good(Len(Path[u]))
    <3> HIDE DEF Good
    <3> QED BY <1>4, <1>5
  <2> HIDE DEF Fine
  <2> QED BY <2>1
<1>7. Ancestor(u, i) # u => u \in Inside(Ancestor(u, i))
  <2> HAVE Ancestor(u, i) # u
  <2>1. i # Len(Path[u]) /\ Ancestor(u, i) = Path[u][i + 1].slot
    BY DEF Ancestor
  <2>2. i + 1 \in DOMAIN Path[u]
    BY <2>1, <1>5, GateStep
  <2> QED BY <2>1, <2>2 DEF Inside
<1> QED BY <1>6, <1>7

\* What is inside a slot comes before it and has its path, one step longer at
\* least: that step opens the slot.
LEMMA InsideSlot ==
  ASSUME NEW s, NEW u \in Inside(s)
  PROVE  LET d == Len(Path[s]) + 1 IN
         /\ u \in Units /\ s \in Slots /\ s \in Units
         /\ IndexOf(u) < IndexOf(s)
         /\ d \in 1 .. Len(Path[u]) /\ Path[u][d].slot = s
         /\ \A j \in 1 .. d - 1 : Path[u][j] = Path[s][j]
<1>1. u \in Units
  BY DEF Inside
<1>2. PICK i \in DOMAIN Path[u] : Path[u][i].slot = s
  BY DEF Inside
<1>3. /\ Path[u] \in Seq(Step) /\ i \in 1 .. Len(Path[u]) /\ Len(Path[u]) \in Nat
      /\ i - 1 \in 0 .. Len(Path[u]) /\ i - 1 # Len(Path[u]) /\ (i - 1) + 1 = i
  BY <1>1, GateStep
<1>4. Ancestor(u, i - 1) = s
  BY <1>2, <1>3 DEF Ancestor
<1>5. /\ s \in Units /\ Len(Path[s]) = i - 1 /\ IndexOf(u) <= IndexOf(s)
      /\ \A j \in 1 .. i - 1 : Path[s][j] = Path[u][j]
  BY <1>1, <1>3, <1>4, Ancestors
<1>6. s # u
  BY <1>3, <1>5
<1>7. IndexOf(u) < IndexOf(s)
  BY <1>1, <1>5, <1>6, SameIndex, OrderIndex
<1>8. s \in Slots
  <2>1. Path[u][i] \in Step
    BY <1>3
  <2> QED BY <2>1, <1>2 DEF Step
<1> QED BY <1>1, <1>2, <1>3, <1>5, <1>7, <1>8

\* A sequence is its length and its elements.
LEMMA SamePath ==
  ASSUME NEW u \in Units, NEW v \in Units, Len(Path[u]) = Len(Path[v]),
         \A j \in 1 .. Len(Path[u]) : Path[u][j] = Path[v][j]
  PROVE  Path[u] = Path[v]
<1>1. Path[u] \in Seq(Step) /\ Path[v] \in Seq(Step)
  BY GateStep
<1> QED BY <1>1

----------------------------------------------------------------------------
(* What a live unit finds before it in the order. *)

\* A live unit w before a live unit u of the same chain's level or deeper is u's
\* content, or part of an earlier unit of u's own chain.
LEMMA EarlierSibling ==
  ASSUME NEW open, NEW u \in Units, NEW w \in Units, Live(open, u), Live(open, w),
         IndexOf(w) < IndexOf(u), w \notin Inside(u),
         Nested(u) => w \in Inside(Gate(u).slot)
  PROVE  \E x \in Units : /\ Path[x] = Path[u]
                           /\ IndexOf(x) < IndexOf(u) /\ IndexOf(w) <= IndexOf(x)
<1> DEFINE d == Len(Path[u])  x == Ancestor(w, d)
<1>1. d \in 0 .. Len(Path[w]) /\ \A j \in 1 .. d : Path[w][j] = Path[u][j]
  <2>1. CASE ~Nested(u)
    <3>1. d = 0 /\ Len(Path[w]) \in Nat
      BY <2>1, GateStep
    <3> QED BY <3>1
  <2>2. CASE Nested(u)
    <3> DEFINE s == Gate(u).slot
    <3>1. /\ s \in Units /\ s \in Slots /\ Len(Path[s]) = d - 1 /\ d \in Nat /\ d # 0
          /\ Gate(u) = Path[u][d] /\ Gate(u) \in Step
          /\ \A j \in 1 .. d - 1 : Path[s][j] = Path[u][j]
          /\ Path[u] \in Seq(Step)
      BY <2>2, GateStep
    <3>2. w \in Inside(s)
      BY <2>2
    <3> HIDE DEF d
    <3>3. /\ d \in 1 .. Len(Path[w]) /\ Path[w][d].slot = s
          /\ \A j \in 1 .. d - 1 : Path[w][j] = Path[s][j]
      <4>1. Len(Path[s]) + 1 = d
        BY <3>1
      <4> QED BY <3>2, <4>1, InsideSlot
    <3>4. Path[w][d] \in Step /\ d \in DOMAIN Path[w] /\ d \in DOMAIN Path[u]
      <4>1. Path[w] \in Seq(Step)
        BY GateStep
      <4> QED BY <4>1, <3>3, <3>1 DEF d
    <3>5. Path[w][d].value = open[s] /\ Path[u][d].value = open[s]
      BY <3>1, <3>3, <3>4 DEF Live
    <3>6. Path[w][d] = Path[u][d]
      <4>1. \A p, q \in Step : p.slot = q.slot /\ p.value = q.value => p = q
        BY DEF Step
      <4>2. Path[u][d] \in Step /\ Path[u][d].slot = s
        BY <3>1
      <4> HIDE DEF s
      <4> QED BY <4>1, <4>2, <3>3, <3>4, <3>5
    <3>7. \A j \in 1 .. d : Path[w][j] = Path[u][j]
      BY <3>1, <3>3, <3>6
    <3> QED BY <3>1, <3>3, <3>7
  <2> QED BY <2>1, <2>2
<1>2. /\ x \in Units /\ Len(Path[x]) = d /\ \A j \in 1 .. d : Path[x][j] = Path[w][j]
      /\ IndexOf(w) <= IndexOf(x) /\ (x # w => w \in Inside(x))
  BY <1>1, Ancestors
<1> HIDE DEF x
<1>3. Path[x] = Path[u]
  BY <1>1, <1>2, SamePath
<1>4. x # u
  BY <1>2, OrderIndex
<1>5. ~(IndexOf(u) < IndexOf(x))
  <2> SUFFICES ASSUME IndexOf(u) < IndexOf(x) PROVE FALSE
    OBVIOUS
  <2>1. w \in Inside(x)
    BY <1>2, OrderIndex
  <2>2. x \in Slots
    BY <2>1, InsideSlot
  <2>3. u \in Inside(x)
    BY <2>1, <2>2, NetworkAssumption DEF ValidPhysicalGraph
  <2>4. x \in Inside(x)
    BY <2>3, <1>2, <1>3 DEF Inside
  <2> QED BY <2>4, InsideSlot, OrderIndex
<1>6. IndexOf(x) < IndexOf(u)
  BY <1>2, <1>4, <1>5, SameIndex
<1> QED BY <1>2, <1>3, <1>6

\* What is live inside a live slot is, or is part of, a unit of the chain the
\* slot splices in.
LEMMA SplicedUnit ==
  ASSUME NEW open, NEW s \in Slots, NEW w \in Inside(s), Live(open, w)
  PROVE  \E x \in Units : /\ Nested(x) /\ Gate(x) = [slot |-> s, value |-> open[s]]
                           /\ IndexOf(w) <= IndexOf(x)
<1> DEFINE d == Len(Path[s]) + 1  x == Ancestor(w, d)
<1>1. w \in Units /\ d \in 1 .. Len(Path[w]) /\ Path[w][d].slot = s /\ d \in 0 .. Len(Path[w])
  BY InsideSlot
<1> HIDE DEF d
<1>2. /\ x \in Units /\ Len(Path[x]) = d /\ Path[x][d] = Path[w][d] /\ IndexOf(w) <= IndexOf(x)
  BY <1>1, Ancestors
<1> HIDE DEF x
<1>3. Nested(x) /\ Gate(x) = Path[w][d]
  BY <1>1, <1>2, GateStep
<1>4. Path[w] \in Seq(Step)
  BY <1>1, GateStep
<1>5. Path[w][d] \in Step /\ Path[w][d].value = open[s]
  BY <1>1, <1>4 DEF Live
<1> QED BY <1>1, <1>2, <1>3, <1>5 DEF Step

\* A unit is live if its slot is and carries the value of its step.
LEMMA LiveUnit ==
  ASSUME NEW open, NEW u \in Units, Nested(u)
  PROVE  Live(open, u) <=> /\ Live(open, Gate(u).slot)
                           /\ Gate(u).slot \in DOMAIN open
                           /\ open[Gate(u).slot] = Gate(u).value
<1> DEFINE s == Gate(u).slot  n == Len(Path[u])
<1>1. /\ s \in Units /\ n \in Nat /\ n # 0 /\ Len(Path[s]) = n - 1 /\ Gate(u) = Path[u][n]
      /\ \A j \in 1 .. n - 1 : Path[s][j] = Path[u][j]
  BY GateStep
<1>2. DOMAIN Path[u] = 1 .. n /\ DOMAIN Path[s] = 1 .. n - 1
  <2>1. Path[u] \in Seq(Step) /\ Path[s] \in Seq(Step)
    BY <1>1, GateStep
  <2> QED BY <2>1, <1>1
<1>3. \A j \in 1 .. n : j \in 1 .. n - 1 \/ j = n
  BY <1>1
<1>4. n \in 1 .. n /\ \A j \in 1 .. n - 1 : j \in 1 .. n
  BY <1>1
<1> HIDE DEF n, s
<1> QED BY <1>1, <1>2, <1>3, <1>4 DEF Live, s

----------------------------------------------------------------------------
(* Where the layout puts each cell. *)

Cell == Units \X Nat

\* A unit's cells, TDI side first.
LEMMA CellsOfUnit ==
  ASSUME NEW u \in Units
  PROVE  /\ Width[u] \in Nat \ {0}
         /\ UnitCells(u) \in Seq(Cell) /\ Len(UnitCells(u)) = Width[u]
         /\ \A j \in 1 .. Width[u] :
              UnitCells(u)[j] = IF u \in Instruments THEN <<u, j - 1>> ELSE <<u, Width[u] - j>>
         /\ \A k \in 0 .. Width[u] - 1 : \E j \in 1 .. Width[u] : UnitCells(u)[j] = <<u, k>>
         /\ ToSet(UnitCells(u)) = {<<u, k>> : k \in 0 .. Width[u] - 1}
<1> DEFINE n == Width[u]  cs == UnitCells(u)
<1>1. n \in Nat \ {0}
  BY NetworkAssumption DEF ValidPhysicalGraph
<1> HIDE DEF n
<1>2. /\ cs \in [1 .. n -> Cell]
      /\ \A j \in 1 .. n : cs[j] = IF u \in Instruments THEN <<u, j - 1>> ELSE <<u, n - j>>
  BY <1>1 DEF UnitCells, Cell, n
<1> HIDE DEF cs
<1>3. cs \in Seq(Cell) /\ Len(cs) = n /\ DOMAIN cs = 1 .. n
  BY <1>1, <1>2, FunctionIsSeq
<1>4. ASSUME NEW k \in 0 .. n - 1 PROVE \E j \in 1 .. n : cs[j] = <<u, k>>
  <2>1. CASE u \in Instruments
    <3>1. k + 1 \in 1 .. n /\ (k + 1) - 1 = k  BY <1>1
    <3> QED BY <3>1, <2>1, <1>2
  <2>2. CASE u \notin Instruments
    <3>1. n - k \in 1 .. n /\ n - (n - k) = k  BY <1>1
    <3> QED BY <3>1, <2>2, <1>2
  <2> QED BY <2>1, <2>2
<1>5. \A j \in 1 .. n : \E k \in 0 .. n - 1 : cs[j] = <<u, k>>
  <2> TAKE j \in 1 .. n
  <2>1. j - 1 \in 0 .. n - 1 /\ n - j \in 0 .. n - 1
    BY <1>1
  <2> QED BY <2>1, <1>2
<1>6. ToSet(cs) = {<<u, k>> : k \in 0 .. n - 1}
  <2>1. \A c : c \in ToSet(cs) <=> \E j \in 1 .. n : c = cs[j]
    BY <1>3 DEF ToSet
  <2>2. \A c : c \in ToSet(cs) <=> \E k \in 0 .. n - 1 : c = <<u, k>>
    BY <2>1, <1>4, <1>5
  <2> QED BY <2>2
<1> QED BY <1>1, <1>2, <1>3, <1>4, <1>6 DEF n, cs

\* The cells of the network.
LEMMA CellsAre ==
  /\ \A c : c \in Cells <=> \E u \in Units : \E k \in 0 .. Width[u] - 1 : c = <<u, k>>
  /\ \A u \in Units : \A k : <<u, k>> \in Cells <=> k \in 0 .. Width[u] - 1
<1>1. \A u \in Units : ToSet(UnitCells(u)) = {<<u, k>> : k \in 0 .. Width[u] - 1}
  BY CellsOfUnit
<1>2. \A c : c \in Cells <=> \E u \in Units : \E k \in 0 .. Width[u] - 1 : c = <<u, k>>
  BY <1>1 DEF Cells
<1> QED BY <1>2

\* The units the layout leaves out are those off the scan path, and the cells
\* of the others follow one another in order.
LEMMA LayoutPositions ==
  ASSUME NEW open
  PROVE  LET W(i) == IF Live(open, Order[i]) THEN Width[Order[i]] ELSE 0 IN
         \E off \in [0 .. N -> Nat] :
           /\ off[0] = 0
           /\ \A i \in 1 .. N : off[i] = off[i - 1] + W(i)
           /\ Layout(open) \in Seq(Cell) /\ Len(Layout(open)) = off[N]
           /\ \A i \in 1 .. N : Live(open, Order[i]) => \A j \in 1 .. Width[Order[i]] :
                /\ off[i - 1] + j \in 1 .. off[N]
                /\ Layout(open)[off[i - 1] + j] = UnitCells(Order[i])[j]
           /\ \A m \in 1 .. off[N] : \E i \in 1 .. N :
                Live(open, Order[i]) /\ m - off[i - 1] \in 1 .. Width[Order[i]]
<1> DEFINE seqs == [i \in 1 .. N |-> IF Live(open, Order[i]) THEN UnitCells(Order[i]) ELSE <<>>]
<1>1. N \in Nat /\ \A i \in 1 .. N : Order[i] \in Units
  BY OrderIndex
<1>2. Layout(open) = FlattenSeq(seqs)
  <2>1. DOMAIN Order = 1 .. N
    BY NetworkAssumption DEF ValidPhysicalGraph, N
  <2> QED BY <2>1 DEF Layout
<1>3. ASSUME NEW i \in 1 .. N
      PROVE  /\ seqs[i] \in Seq(Cell) /\ Width[Order[i]] \in Nat
             /\ Live(open, Order[i]) => /\ seqs[i] = UnitCells(Order[i])
                                        /\ Len(seqs[i]) = Width[Order[i]]
             /\ ~Live(open, Order[i]) => Len(seqs[i]) = 0
  <2>1. /\ UnitCells(Order[i]) \in Seq(Cell) /\ Len(UnitCells(Order[i])) = Width[Order[i]]
        /\ Width[Order[i]] \in Nat
    BY <1>1, CellsOfUnit
  <2>2. CASE Live(open, Order[i])
    <3>1. seqs[i] = UnitCells(Order[i])  BY <2>2
    <3> QED BY <3>1, <2>1, <2>2
  <2>3. CASE ~Live(open, Order[i])
    <3>1. seqs[i] = <<>>  BY <2>3
    <3> HIDE DEF seqs
    <3> QED BY <3>1, <2>1, <2>3
  <2> QED BY <2>2, <2>3
<1>4. seqs \in [1 .. N -> Seq(Cell)]
  <2>1. seqs = [i \in 1 .. N |-> seqs[i]]
    OBVIOUS
  <2> HIDE DEF seqs
  <2> QED BY <2>1, <1>3
<1> HIDE DEF seqs
<1>5. seqs \in Seq(Seq(Cell)) /\ Len(seqs) = N
  BY <1>1, <1>4, FunctionIsSeq
<1>6. PICK off \in [0 .. N -> Nat] :
           /\ off[0] = 0
           /\ \A i \in 1 .. N : off[i] = off[i - 1] + Len(seqs[i])
           /\ FlattenSeq(seqs) \in Seq(Cell)
           /\ Len(FlattenSeq(seqs)) = off[N]
           /\ \A i \in 1 .. N, j \in Nat : j \in 1 .. Len(seqs[i]) =>
                /\ off[i - 1] + j <= off[N]
                /\ FlattenSeq(seqs)[off[i - 1] + j] = seqs[i][j]
           /\ \A m \in 1 .. off[N] : \E i \in 1 .. N : m - off[i - 1] \in 1 .. Len(seqs[i])
  <2> DEFINE Placed(n) ==
         \E off \in [0 .. n -> Nat] :
           /\ off[0] = 0
           /\ \A i \in 1 .. n : off[i] = off[i - 1] + Len(seqs[i])
           /\ FlattenSeq(seqs) \in Seq(Cell)
           /\ Len(FlattenSeq(seqs)) = off[n]
           /\ \A i \in 1 .. n, j \in Nat : j \in 1 .. Len(seqs[i]) =>
                /\ off[i - 1] + j <= off[n]
                /\ FlattenSeq(seqs)[off[i - 1] + j] = seqs[i][j]
           /\ \A m \in 1 .. off[n] : \E i \in 1 .. n : m - off[i - 1] \in 1 .. Len(seqs[i])
  <2>1. Placed(Len(seqs))
    BY <1>5, FlattenPositions
  <2>2. Placed(N)
    <3> HIDE DEF Placed
    <3> QED BY <2>1, <1>5
  <2> QED BY <2>2
<1>7. ASSUME NEW i \in 1 .. N, Live(open, Order[i]), NEW j \in 1 .. Width[Order[i]]
      PROVE  /\ off[i - 1] + j \in 1 .. off[N]
             /\ Layout(open)[off[i - 1] + j] = UnitCells(Order[i])[j]
  <2>1. Len(seqs[i]) = Width[Order[i]] /\ seqs[i] = UnitCells(Order[i]) /\ Width[Order[i]] \in Nat
    BY <1>3, <1>7, Zenon
  <2>2. j \in Nat /\ j >= 1 /\ j \in 1 .. Len(seqs[i]) /\ i - 1 \in 0 .. N
    BY <1>1, <2>1
  <2>3. off[i - 1] \in Nat /\ off[N] \in Nat
    BY <1>1, <2>2
  <2>4. off[i - 1] + j <= off[N] /\ FlattenSeq(seqs)[off[i - 1] + j] = seqs[i][j]
    BY <1>6, <2>2
  <2> QED BY <1>2, <2>1, <2>2, <2>3, <2>4
<1>8. ASSUME NEW m \in 1 .. off[N]
      PROVE  \E i \in 1 .. N : Live(open, Order[i]) /\ m - off[i - 1] \in 1 .. Width[Order[i]]
  <2>1. PICK i \in 1 .. N : m - off[i - 1] \in 1 .. Len(seqs[i])
    BY <1>6
  <2>2. Live(open, Order[i])
    <3>1. Len(seqs[i]) # 0
      BY <2>1
    <3> QED BY <3>1, <1>3, Zenon
  <2>3. Len(seqs[i]) = Width[Order[i]]
    BY <2>2, <1>3, Zenon
  <2> QED BY <2>1, <2>2, <2>3
<1>9. ASSUME NEW i \in 1 .. N
      PROVE  off[i] = off[i - 1] + IF Live(open, Order[i]) THEN Width[Order[i]] ELSE 0
  <2>1. Len(seqs[i]) = IF Live(open, Order[i]) THEN Width[Order[i]] ELSE 0
    BY <1>3, Zenon
  <2> QED BY <2>1, <1>6
<1> HIDE DEF seqs
<1> QED BY <1>2, <1>6, <1>7, <1>8, <1>9

\* off[i] cells of the layout lie in the first i units.
Places(open, off) ==
  /\ off \in [0 .. N -> Nat] /\ off[0] = 0
  /\ \A i \in 1 .. N : Live(open, Order[i]) => off[i] = off[i - 1] + Width[Order[i]]
  /\ \A i \in 1 .. N : ~Live(open, Order[i]) => off[i] = off[i - 1]
  /\ Layout(open) \in Seq(Cell) /\ Len(Layout(open)) = off[N]
  /\ \A i \in 1 .. N : Live(open, Order[i]) => \A j \in 1 .. Width[Order[i]] :
       /\ off[i - 1] + j \in 1 .. off[N]
       /\ Layout(open)[off[i - 1] + j] = UnitCells(Order[i])[j]
  /\ \A m \in 1 .. off[N] : \E i \in 1 .. N :
       Live(open, Order[i]) /\ m - off[i - 1] \in 1 .. Width[Order[i]]

\* Such an off exists.
LEMMA PlacesExist ==
  ASSUME NEW open PROVE \E off : Places(open, off)
<1> DEFINE W(i) == IF Live(open, Order[i]) THEN Width[Order[i]] ELSE 0
<1>1. PICK off \in [0 .. N -> Nat] :
           /\ off[0] = 0
           /\ \A i \in 1 .. N : off[i] = off[i - 1] + W(i)
           /\ Layout(open) \in Seq(Cell) /\ Len(Layout(open)) = off[N]
           /\ \A i \in 1 .. N : Live(open, Order[i]) => \A j \in 1 .. Width[Order[i]] :
                /\ off[i - 1] + j \in 1 .. off[N]
                /\ Layout(open)[off[i - 1] + j] = UnitCells(Order[i])[j]
           /\ \A m \in 1 .. off[N] : \E i \in 1 .. N :
                Live(open, Order[i]) /\ m - off[i - 1] \in 1 .. Width[Order[i]]
  BY LayoutPositions
<1>2. N \in Nat
  BY OrderIndex
<1>3. \A i \in 1 .. N : ~Live(open, Order[i]) => off[i] = off[i - 1]
  <2> TAKE i \in 1 .. N
  <2> HAVE ~Live(open, Order[i])
  <2>1. off[i] = off[i - 1] + 0
    BY <1>1
  <2>2. off[i - 1] \in Nat
    BY <1>2
  <2> QED BY <2>1, <2>2
<1>4. \A i \in 1 .. N : Live(open, Order[i]) => off[i] = off[i - 1] + Width[Order[i]]
  BY <1>1
<1> HIDE DEF W
<1> QED BY <1>1, <1>3, <1>4 DEF Places

\* Units off the path take no place.
LEMMA DeadGap ==
  ASSUME NEW open, NEW off, Places(open, off), NEW a \in 0 .. N, NEW b \in 0 .. N, a <= b,
         \A i \in 1 .. N : a < i /\ i <= b => ~Live(open, Order[i])
  PROVE  off[a] = off[b]
<1> DEFINE Good(k) == a + k <= b => off[a] = off[a + k]
           P == {k \in Nat : Good(k)}
<1>1. N \in Nat
  BY OrderIndex
<1>2. Good(0)
  BY <1>1
<1>3. ASSUME NEW k \in Nat, Good(k) PROVE Good(k + 1)
  <2> HAVE a + (k + 1) <= b
  <2>1. /\ a + k <= b /\ a + (k + 1) \in 1 .. N /\ (a + (k + 1)) - 1 = a + k
        /\ a < a + (k + 1)
    BY <1>1
  <2>2. off[a + (k + 1)] = off[a + k]
    BY <2>1 DEF Places
  <2> QED BY <2>1, <2>2, <1>3
<1>4. Nat \subseteq P
  <2> HIDE DEF Good
  <2>1. 0 \in P /\ \A k \in Nat : k \in P => k + 1 \in P
    BY <1>2, <1>3
  <2> HIDE DEF P
  <2> QED BY <2>1, Induction
<1>5. b - a \in Nat /\ a + (b - a) = b
  BY <1>1
<1>6. Good(b - a)
  <2> HIDE DEF Good
  <2> QED BY <1>4, <1>5
<1> QED BY <1>5, <1>6

\* The places go up with the units.
LEMMA PlacesGrow ==
  ASSUME NEW open, NEW off, Places(open, off), NEW a \in 0 .. N, NEW b \in 0 .. N, a <= b
  PROVE  off[a] <= off[b]
<1> DEFINE Good(k) == a + k <= b => off[a] <= off[a + k]
           P == {k \in Nat : Good(k)}
<1>1. N \in Nat /\ \A i \in 0 .. N : off[i] \in Nat
  BY OrderIndex DEF Places
<1>2. Good(0)
  BY <1>1
<1>3. ASSUME NEW k \in Nat, Good(k) PROVE Good(k + 1)
  <2> HAVE a + (k + 1) <= b
  <2>1. /\ a + k <= b /\ a + (k + 1) \in 1 .. N /\ (a + (k + 1)) - 1 = a + k
        /\ a + k \in 0 .. N /\ a + (k + 1) \in 0 .. N
    BY <1>1
  <2>2. off[a + k] <= off[a + (k + 1)]
    <3>1. Width[Order[a + (k + 1)]] \in Nat
      BY <2>1, OrderIndex, CellsOfUnit
    <3>2. off[a + (k + 1)] = off[a + k] \/ off[a + (k + 1)] = off[a + k] + Width[Order[a + (k + 1)]]
      BY <2>1 DEF Places
    <3> QED BY <3>1, <3>2, <2>1, <1>1
  <2> QED BY <2>1, <2>2, <1>1, <1>3
<1>4. Nat \subseteq P
  <2> HIDE DEF Good
  <2>1. 0 \in P /\ \A k \in Nat : k \in P => k + 1 \in P
    BY <1>2, <1>3
  <2> HIDE DEF P
  <2> QED BY <2>1, Induction
<1>5. b - a \in Nat /\ a + (b - a) = b
  BY <1>1
<1>6. Good(b - a)
  <2> HIDE DEF Good
  <2> QED BY <1>4, <1>5
<1> QED BY <1>5, <1>6

\* A live unit's cells lie from after the units before it to its own place.
LEMMA UnitPlace ==
  ASSUME NEW open, NEW off, Places(open, off), NEW u \in Units, Live(open, u)
  PROVE  LET i == IndexOf(u) IN
         /\ i \in 1 .. N /\ i - 1 \in 0 .. N /\ off[i - 1] \in Nat /\ off[i] \in Nat
         /\ Width[u] \in Nat \ {0} /\ off[i] = off[i - 1] + Width[u]
         /\ off[i] \in 1 .. off[N]
         /\ \A j \in 1 .. Width[u] : /\ off[i - 1] + j \in 1 .. off[N]
                                     /\ Layout(open)[off[i - 1] + j] = UnitCells(u)[j]
<1> DEFINE i == IndexOf(u)
<1>1. i \in 1 .. N /\ Order[i] = u /\ N \in Nat
  BY OrderIndex
<1> HIDE DEF i
<1>2. i - 1 \in 0 .. N /\ i \in 0 .. N
  BY <1>1
<1>3. Width[u] \in Nat \ {0}
  BY CellsOfUnit
<1>4. \A j \in 1 .. Width[u] : /\ off[i - 1] + j \in 1 .. off[N]
                               /\ Layout(open)[off[i - 1] + j] = UnitCells(u)[j]
  BY <1>1 DEF Places
<1>5. off[i] = off[i - 1] + Width[u] /\ off[i - 1] \in Nat /\ off[i] \in Nat
  BY <1>1, <1>2 DEF Places
<1>6. off[i] \in 1 .. off[N]
  BY <1>3, <1>4, <1>5
<1> QED BY <1>1, <1>2, <1>3, <1>4, <1>5, <1>6 DEF i

\* What lies at a place: a cell of a live unit, between that unit's ends.
LEMMA PlaceUnit ==
  ASSUME NEW open, NEW off, Places(open, off), NEW m \in 1 .. Len(Layout(open))
  PROVE  \E u \in Units : /\ Live(open, u)
                           /\ m - off[IndexOf(u) - 1] \in 1 .. Width[u]
                           /\ Layout(open)[m] = UnitCells(u)[m - off[IndexOf(u) - 1]]
<1>1. PICK i \in 1 .. N : Live(open, Order[i]) /\ m - off[i - 1] \in 1 .. Width[Order[i]]
  BY DEF Places
<1>2. Order[i] \in Units /\ IndexOf(Order[i]) = i
  BY OrderIndex
<1>3. off[i - 1] \in Nat /\ m \in Nat /\ off[i - 1] + (m - off[i - 1]) = m
  <2>1. i - 1 \in 0 .. N
    BY OrderIndex
  <2>2. off \in [0 .. N -> Nat] /\ Layout(open) \in Seq(Cell)
    BY DEF Places
  <2>3. off[i - 1] \in Nat
    BY <2>1, <2>2
  <2>4. m \in Nat
    BY <2>2
  <2> HIDE DEF Places
  <2> QED BY <2>3, <2>4
<1>4. Layout(open)[m] = UnitCells(Order[i])[m - off[i - 1]]
  BY <1>1, <1>3 DEF Places
<1> QED BY <1>1, <1>2, <1>4

\* A live cell has one place.
LEMMA OnePlace ==
  ASSUME NEW open, NEW off, Places(open, off), NEW u \in Units, Live(open, u),
         NEW j \in 1 .. Width[u]
  PROVE  (CHOOSE n \in DOMAIN Layout(open) : Layout(open)[n] = UnitCells(u)[j])
           = off[IndexOf(u) - 1] + j
<1> DEFINE layout == Layout(open)  c == UnitCells(u)[j]  m == off[IndexOf(u) - 1] + j
<1>1. m \in 1 .. Len(layout) /\ layout[m] = c /\ DOMAIN layout = 1 .. Len(layout)
  <2>1. m \in 1 .. off[N] /\ layout[m] = c
    BY UnitPlace
  <2>2. layout \in Seq(Cell) /\ Len(layout) = off[N]
    BY DEF Places
  <2> HIDE DEF layout, m, c
  <2> QED BY <2>1, <2>2
<1>2. ASSUME NEW n \in 1 .. Len(layout), layout[n] = c
      PROVE  n = m
  <2>1. PICK v \in Units : /\ Live(open, v)
                            /\ n - off[IndexOf(v) - 1] \in 1 .. Width[v]
                            /\ layout[n] = UnitCells(v)[n - off[IndexOf(v) - 1]]
    BY PlaceUnit
  <2> DEFINE k == n - off[IndexOf(v) - 1]
  <2>2. k \in 1 .. Width[v] /\ UnitCells(v)[k] = c
    BY <2>1, <1>2
  <2> HIDE DEF k
  <2>3. /\ UnitCells(v)[k] = IF v \in Instruments THEN <<v, k - 1>> ELSE <<v, Width[v] - k>>
        /\ UnitCells(u)[j] = IF u \in Instruments THEN <<u, j - 1>> ELSE <<u, Width[u] - j>>
        /\ Width[u] \in Nat /\ Width[v] \in Nat
    BY <2>2, CellsOfUnit
  <2>4. u = v
    <3>1. UnitCells(v)[k][1] = v
      BY <2>3
    <3>2. UnitCells(u)[j][1] = u
      BY <2>3
    <3> QED BY <3>1, <3>2, <2>2
  <2>5. k = j
    <3> DEFINE a == UnitCells(u)[k]  b == UnitCells(u)[j]
    <3>1. a[2] = IF u \in Instruments THEN k - 1 ELSE Width[u] - k
      BY <2>3, <2>4
    <3>2. b[2] = IF u \in Instruments THEN j - 1 ELSE Width[u] - j
      BY <2>3
    <3>3. a[2] = b[2] /\ k \in Int /\ j \in Int
      BY <2>2, <2>3, <2>4
    <3> HIDE DEF a, b
    <3> QED BY <3>1, <3>2, <3>3, <2>3
  <2>6. off[IndexOf(v) - 1] \in Nat
    BY <2>1, UnitPlace
  <2> QED BY <2>4, <2>5, <2>6 DEF k
<1> HIDE DEF layout, c, m
<1>3. (CHOOSE n \in DOMAIN layout : layout[n] = c) = m
  BY <1>1, <1>2
<1> QED BY <1>3 DEF layout, c, m

----------------------------------------------------------------------------
(* How the register and the cells go through the layout.                    *)

\* A chain has a last unit.
LEMMA LastUnit ==
  ASSUME NEW units \in SUBSET Units, units # {}
  PROVE  /\ LastOf(units) \in units
         /\ \A w \in units : IndexOf(w) <= IndexOf(LastOf(units))
<1> DEFINE T == {N - IndexOf(u) : u \in units}
<1>1. N \in Nat /\ \A u \in units : IndexOf(u) \in 1 .. N
  BY OrderIndex
<1>2. T \in SUBSET Nat /\ T # {}
  BY <1>1
<1>3. PICK m \in T : \A k \in T : m <= k
  BY <1>2, LeastNatural
<1>4. PICK v \in units : m = N - IndexOf(v)
  BY <1>3
<1>5. \A w \in units : IndexOf(w) <= IndexOf(v)
  <2> TAKE w \in units
  <2>1. N - IndexOf(v) <= N - IndexOf(w)
    BY <1>3, <1>4
  <2> QED BY <2>1, <1>1
<1>6. v \in units /\ \A w \in units : IndexOf(w) <= IndexOf(v)
  BY <1>4, <1>5
<1> QED BY <1>6 DEF LastOf

\* The unit before u on its chain is the last of those before it.
LEMMA PreviousUnit ==
  ASSUME NEW u \in Units, Before(u) # {}
  PROVE  /\ Previous(u) \in Before(u)
         /\ \A w \in Before(u) : IndexOf(w) <= IndexOf(Previous(u))
<1>1. Before(u) \in SUBSET Units /\ Previous(u) = LastOf(Before(u))
  BY DEF Before, Siblings, Previous, LastOf
<1> QED BY <1>1, LastUnit

\* What an open or matched slot relays: the last unit of the chain it splices in.
LEMMA ContentLast ==
  ASSUME NEW s \in Slots, NEW value \in Arms(s)
  PROVE  LET v == LastOf(Content(s, value)) IN
         /\ v \in Units /\ Nested(v) /\ Gate(v) = [slot |-> s, value |-> value]
         /\ \A w \in Content(s, value) : IndexOf(w) <= IndexOf(v)
         /\ IndexOf(v) < IndexOf(s)
<1>1. PICK u \in Units : Nested(u) /\ Gate(u).slot = s /\ Gate(u).value = value
  BY DEF Arms
<1>2. Gate(u) \in Step
  BY <1>1, GateStep
<1>3. u \in Content(s, value)
  BY <1>1, <1>2 DEF Content, Step
<1> DEFINE v == LastOf(Content(s, value))
<1>4. Content(s, value) \in SUBSET Units /\ Content(s, value) # {}
  BY <1>3 DEF Content
<1>5. v \in Content(s, value) /\ \A w \in Content(s, value) : IndexOf(w) <= IndexOf(v)
  BY <1>4, LastUnit
<1> HIDE DEF v
<1>6. v \in Units /\ Nested(v) /\ Gate(v) = [slot |-> s, value |-> value]
  BY <1>5 DEF Content
<1>7. IndexOf(v) < IndexOf(s)
  BY <1>6, GateStep
<1> QED BY <1>5, <1>6, <1>7 DEF v

\* So is the wiring it describes: a loop-free one.
LEMMA SoEquation ==
  ASSUME NEW shift, NEW po, NEW u \in Units
  PROVE  So(shift, po)[u] =
           IF Matched(po, u) THEN So(shift, po)[LastOf(Content(u, po[u]))]
           ELSE IF u \in Instruments THEN shift[<<u, Width[u] - 1>>]
           ELSE shift[<<u, 0>>]
<1> DEFINE own(w) == IF w \in Instruments THEN shift[<<w, Width[w] - 1>>] ELSE shift[<<w, 0>>]
           last(w) == IndexOf(LastOf(Content(w, po[w])))
           G(f) == f = [i \in DOMAIN Order |->
                          LET w == Order[i] IN
                          IF Matched(po, w) THEN f[IndexOf(LastOf(Content(w, po[w])))]
                          ELSE IF w \in Instruments THEN shift[<<w, Width[w] - 1>>]
                          ELSE shift[<<w, 0>>]]
           D == 1 .. N
           rank == [i \in D |-> i]
           C == {i \in D : Matched(po, Order[i])}
           from == [i \in C |-> last(Order[i])]
           v == [i \in D |-> own(Order[i])]
<1>1. N \in Nat /\ DOMAIN Order = D
  BY OrderIndex, NetworkAssumption DEF ValidPhysicalGraph, N
<1>2. \A i \in C : last(Order[i]) \in D /\ last(Order[i]) < i
  <2> TAKE i \in C
  <2>1. Order[i] \in Units /\ IndexOf(Order[i]) = i /\ i \in D
    BY OrderIndex
  <2>2. Order[i] \in Slots /\ po[Order[i]] \in Arms(Order[i])
    BY DEF Matched, Slots
  <2>3. LET x == LastOf(Content(Order[i], po[Order[i]])) IN x \in Units /\ IndexOf(x) < i
    BY <2>1, <2>2, ContentLast
  <2> QED BY <2>3, OrderIndex
<1>3. LoopFree(D, N, rank, C, from)
  BY <1>1, <1>2 DEF LoopFree
<1>4. PICK f : /\ f = [i \in D |-> f[i]]
               /\ \A i \in D : f[i] = IF i \in C THEN f[from[i]] ELSE v[i]
  <2> HIDE DEF D, C, from, rank, v
  <2>1. PICK f : Wires(f, D, C, from, v)
    BY <1>3, WiresExist
  <2> QED BY <2>1 DEF Wires
<1>5. ASSUME NEW i \in D
      PROVE  f[i] = LET w == Order[i] IN
                    IF Matched(po, w) THEN f[IndexOf(LastOf(Content(w, po[w])))]
                    ELSE IF w \in Instruments THEN shift[<<w, Width[w] - 1>>]
                    ELSE shift[<<w, 0>>]
  <2>1. f[i] = IF i \in C THEN f[from[i]] ELSE v[i]
    BY <1>4
  <2>2. CASE Matched(po, Order[i])
    <3>1. i \in C /\ from[i] = last(Order[i])
      BY <2>2
    <3> QED BY <3>1, <2>1, <2>2
  <2>3. CASE ~Matched(po, Order[i])
    <3>1. i \notin C /\ v[i] = own(Order[i])
      BY <2>3
    <3> QED BY <3>1, <2>1, <2>3
  <2> QED BY <2>2, <2>3
<1>6. G(f)
  <2>1. f = [i \in D |-> f[i]]
    BY <1>4
  <2> HIDE DEF D, C, from, v
  <2> QED BY <2>1, <1>1, <1>5
<1> DEFINE Out == CHOOSE g : G(g)
<1>7. G(Out)
  <2> HIDE DEF G
  <2> QED BY <1>6
<1>8. So(shift, po) = [w \in Units |-> Out[IndexOf(w)]]
  BY DEF So
<1>9. \A i \in D : Out[i] = LET w == Order[i] IN
                    IF Matched(po, w) THEN Out[last(w)] ELSE own(w)
  <2>1. \A g : G(g) => \A i \in D : g[i] = LET w == Order[i] IN
                    IF Matched(po, w) THEN g[last(w)] ELSE own(w)
    BY <1>1
  <2> HIDE DEF G
  <2> QED BY <1>7, <2>1
<1> HIDE DEF Out
<1>10. IndexOf(u) \in D /\ Order[IndexOf(u)] = u
  BY OrderIndex
<1>11. Out[IndexOf(u)] = IF Matched(po, u) THEN Out[last(u)] ELSE own(u)
  BY <1>9, <1>10
<1>12. Matched(po, u) => LastOf(Content(u, po[u])) \in Units
  BY ContentLast DEF Matched, Slots
<1> QED BY <1>8, <1>11, <1>12

\* Si is the wiring it describes: the first unit of a chain has its gate's input.
LEMMA SiEquation ==
  ASSUME NEW shift, NEW po, NEW tdi, NEW u \in Units
  PROVE  Si(shift, po, tdi)[u] =
           IF Before(u) # {} THEN So(shift, po)[Previous(u)]
           ELSE IF Nested(u) THEN Si(shift, po, tdi)[Gate(u).slot]
           ELSE tdi
<1> DEFINE so == So(shift, po)
           own(w) == IF Before(w) # {} THEN so[Previous(w)] ELSE tdi
           G(f) == f = [w \in Units |-> IF Before(w) # {} THEN so[Previous(w)]
                                        ELSE IF Nested(w) THEN f[Gate(w).slot] ELSE tdi]
           rank == [w \in Units |-> N - IndexOf(w)]
           C == {w \in Units : Before(w) = {} /\ Nested(w)}
           from == [w \in C |-> Gate(w).slot]
           v == [w \in Units |-> own(w)]
<1>1. LoopFree(Units, N, rank, C, from)
  <2>1. N \in Nat /\ rank \in [Units -> 0 .. N]
    BY OrderIndex
  <2>2. \A w \in C : Gate(w).slot \in Units /\ IndexOf(w) < IndexOf(Gate(w).slot)
    BY GateStep
  <2>3. \A w \in C : from[w] \in Units /\ rank[from[w]] < rank[w]
    <3> TAKE w \in C
    <3>1. from[w] = Gate(w).slot /\ w \in Units
      OBVIOUS
    <3>2. rank[from[w]] = N - IndexOf(Gate(w).slot) /\ rank[w] = N - IndexOf(w)
      BY <3>1, <2>2
    <3> QED BY <3>1, <3>2, <2>2, OrderIndex
  <2>4. from \in [C -> Units] /\ C \subseteq Units
    BY <2>2
  <2> HIDE DEF rank, C, from
  <2> QED BY <2>1, <2>3, <2>4 DEF LoopFree
<1>2. PICK f : Wires(f, Units, C, from, v)
  <2> HIDE DEF C, from, rank, v
  <2> QED BY <1>1, WiresExist
<1>3. ASSUME NEW w \in Units
      PROVE  f[w] = IF Before(w) # {} THEN so[Previous(w)]
                    ELSE IF Nested(w) THEN f[Gate(w).slot] ELSE tdi
  <2>1. f[w] = IF w \in C THEN f[from[w]] ELSE v[w]
    BY <1>2 DEF Wires
  <2>2. CASE w \in C
    BY <2>1, <2>2
  <2>3. CASE w \notin C
    BY <2>1, <2>3
  <2> QED BY <2>2, <2>3
<1>4. G(f)
  <2>1. f = [w \in Units |-> f[w]]
    BY <1>2 DEF Wires
  <2> HIDE DEF so
  <2> QED BY <2>1, <1>3
<1> DEFINE In == CHOOSE g : G(g)
<1>5. G(In)
  <2> HIDE DEF G
  <2> QED BY <1>4
<1>6. Si(shift, po, tdi) = In
  BY DEF Si
<1>7. In[u] = IF Before(u) # {} THEN so[Previous(u)]
              ELSE IF Nested(u) THEN In[Gate(u).slot] ELSE tdi
  <2>1. \A g : G(g) => g[u] = IF Before(u) # {} THEN so[Previous(u)]
                              ELSE IF Nested(u) THEN g[Gate(u).slot] ELSE tdi
    OBVIOUS
  <2> HIDE DEF G
  <2> QED BY <1>5, <2>1
<1> QED BY <1>6, <1>7

\* An open slot's cells follow those of the last unit it splices in.
LEMMA SpliceEnd ==
  ASSUME NEW po, DOMAIN po = Latched, NEW off, Places(po, off),
         NEW s \in Slots, Live(po, s), po[s] \in Arms(s)
  PROVE  LET v == LastOf(Content(s, po[s])) IN
         /\ v \in Units /\ Live(po, v) /\ IndexOf(v) < IndexOf(s)
         /\ off[IndexOf(s) - 1] = off[IndexOf(v)]
<1> DEFINE v == LastOf(Content(s, po[s]))
<1>1. /\ v \in Units /\ Nested(v) /\ Gate(v).slot = s /\ Gate(v).value = po[s]
      /\ \A w \in Content(s, po[s]) : IndexOf(w) <= IndexOf(v)
      /\ IndexOf(v) < IndexOf(s)
  BY ContentLast
<1> HIDE DEF v
<1>2. s \in Units /\ s \in DOMAIN po
  BY DEF Units, Latched
<1>3. Live(po, v)
  BY <1>1, <1>2, LiveUnit
<1>4. v \in Inside(s)
  <2>1. Path[v] \in Seq(Step) /\ Len(Path[v]) \in Nat /\ Len(Path[v]) # 0
    BY <1>1, GateStep
  <2>2. Len(Path[v]) \in DOMAIN Path[v] /\ Path[v][Len(Path[v])].slot = s
    BY <1>1, <2>1 DEF Gate
  <2> QED BY <1>1, <2>2 DEF Inside
<1>5. ASSUME NEW i \in 1 .. N, IndexOf(v) < i, i <= IndexOf(s) - 1
      PROVE  ~Live(po, Order[i])
  <2> SUFFICES ASSUME Live(po, Order[i]) PROVE FALSE
    OBVIOUS
  <2> DEFINE w == Order[i]
  <2>1. w \in Units /\ IndexOf(w) = i
    BY OrderIndex
  <2>2. IndexOf(v) < IndexOf(w) /\ IndexOf(w) < IndexOf(s)
    BY <2>1, <1>2, <1>5, OrderIndex
  <2>3. w \in Inside(s)
    BY <2>1, <2>2, <1>4, NetworkAssumption DEF ValidPhysicalGraph
  <2>4. PICK x \in Units : /\ Nested(x) /\ Gate(x) = [slot |-> s, value |-> po[s]]
                           /\ IndexOf(w) <= IndexOf(x)
    BY <2>3, SplicedUnit
  <2>5. x \in Content(s, po[s])
    BY <2>4 DEF Content
  <2>6. IndexOf(x) <= IndexOf(v)
    BY <2>5, <1>1
  <2> QED BY <2>1, <2>2, <2>4, <2>6, <1>1, OrderIndex
<1>6. off[IndexOf(v)] = off[IndexOf(s) - 1]
  <2>1. /\ IndexOf(v) \in 0 .. N /\ IndexOf(s) - 1 \in 0 .. N /\ IndexOf(v) <= IndexOf(s) - 1
    BY <1>1, <1>2, OrderIndex
  <2> QED BY <2>1, <1>5, DeadGap
<1> QED BY <1>1, <1>3, <1>6 DEF v

\* A cell of the layout that relays is the last of an open mux, and relays the
\* cell before the mux's own.
LEMMA RelayPlace ==
  ASSUME NEW po, DOMAIN po = Latched, NEW off, Places(po, off),
         NEW n \in 1 .. Len(Layout(po)),
         Layout(po)[n][2] = 0, Matched(po, Layout(po)[n][1])
  PROVE  LET u == Layout(po)[n][1] IN
         /\ u \in Slots /\ Live(po, u) /\ n = off[IndexOf(u)]
         /\ n - Width[u] = off[IndexOf(u) - 1]
         /\ n - Width[u] \in 1 .. n - 1
<1>1. PICK u \in Units : /\ Live(po, u)
                         /\ n - off[IndexOf(u) - 1] \in 1 .. Width[u]
                         /\ Layout(po)[n] = UnitCells(u)[n - off[IndexOf(u) - 1]]
  BY PlaceUnit
<1> DEFINE j == n - off[IndexOf(u) - 1]
<1>2. /\ Width[u] \in Nat \ {0} /\ off[IndexOf(u)] = off[IndexOf(u) - 1] + Width[u]
      /\ off[IndexOf(u) - 1] \in Nat /\ n = off[IndexOf(u) - 1] + j
  BY <1>1, UnitPlace
<1>3. j \in 1 .. Width[u] /\ Layout(po)[n] = UnitCells(u)[j]
  BY <1>1
<1> HIDE DEF j
<1>4. UnitCells(u)[j] = IF u \in Instruments THEN <<u, j - 1>> ELSE <<u, Width[u] - j>>
  BY <1>3, CellsOfUnit
<1>5. Layout(po)[n][1] = u
  BY <1>3, <1>4
<1>6. u \in Slots /\ u \notin Instruments /\ po[u] \in Arms(u)
  BY <1>5, NetworkAssumption DEF Matched, Slots, ValidPhysicalGraph
<1>7. Width[u] - j = 0
  BY <1>3, <1>4, <1>6
<1>8. j = Width[u]
  BY <1>2, <1>3, <1>7
<1>9. LET v == LastOf(Content(u, po[u])) IN
      v \in Units /\ Live(po, v) /\ off[IndexOf(u) - 1] = off[IndexOf(v)]
  BY <1>1, <1>6, SpliceEnd
<1>10. off[IndexOf(u) - 1] >= 1
  BY <1>9, UnitPlace
<1>11. n = off[IndexOf(u)] /\ n - Width[u] = off[IndexOf(u) - 1]
  BY <1>2, <1>8
<1>12. n - Width[u] \in 1 .. n - 1
  BY <1>2, <1>10, <1>11
<1> QED BY <1>1, <1>5, <1>6, <1>11, <1>12

\* The register's reading is what _read says of each cell of the layout.
LEMMA ReadingEquation ==
  ASSUME NEW shift, NEW po, DOMAIN po = Latched, NEW n \in 1 .. Len(Layout(po))
  PROVE  LET layout == Layout(po)
             c == layout[n]
         IN  Reading(shift, po, layout)[n] =
               IF c[2] = 0 /\ Matched(po, c[1])
               THEN Reading(shift, po, layout)[n - Width[c[1]]] ELSE shift[c]
<1> DEFINE layout == Layout(po)
           D == 1 .. Len(layout)
           relays(m) == layout[m][2] = 0 /\ Matched(po, layout[m][1])
           G(f) == f = [m \in 1 .. Len(layout) |->
                          LET c == layout[m] IN
                          IF c[2] = 0 /\ Matched(po, c[1]) THEN f[m - Width[c[1]]] ELSE shift[c]]
           C == {m \in D : relays(m)}
           from == [m \in C |-> m - Width[layout[m][1]]]
           rank == [m \in D |-> m]
           v == [m \in D |-> shift[layout[m]]]
<1>1. PICK off : Places(po, off)
  BY PlacesExist
<1>2. Len(layout) \in Nat
  BY <1>1 DEF Places
<1>3. LoopFree(D, Len(layout), rank, C, from)
  <2>1. \A m \in C : m - Width[layout[m][1]] \in 1 .. m - 1 /\ m \in D
    BY <1>1, RelayPlace
  <2> HIDE DEF layout, relays
  <2>2. \A m \in C : from[m] \in D /\ rank[from[m]] < rank[m]
    <3> TAKE m \in C
    <3>1. from[m] = m - Width[layout[m][1]]
      OBVIOUS
    <3>2. from[m] \in 1 .. m - 1 /\ m \in D
      BY <3>1, <2>1
    <3> HIDE DEF from
    <3> QED BY <3>2, <1>2
  <2>3. rank \in [D -> 0 .. Len(layout)] /\ C \subseteq D
    BY <1>2
  <2>4. from \in [C -> D]
    BY <2>2
  <2> HIDE DEF D, C, from, rank
  <2> QED BY <1>2, <2>2, <2>3, <2>4 DEF LoopFree
<1>4. PICK f : Wires(f, D, C, from, v)
  <2> HIDE DEF D, C, from, rank, v, layout
  <2> QED BY <1>3, WiresExist
<1>5. ASSUME NEW m \in D
      PROVE  f[m] = LET c == layout[m] IN
                    IF c[2] = 0 /\ Matched(po, c[1]) THEN f[m - Width[c[1]]] ELSE shift[c]
  <2> HIDE DEF layout
  <2>1. f[m] = IF m \in C THEN f[from[m]] ELSE v[m]
    BY <1>4 DEF Wires
  <2>2. CASE relays(m)
    BY <2>1, <2>2
  <2>3. CASE ~relays(m)
    BY <2>1, <2>3
  <2> QED BY <2>2, <2>3
<1>6. G(f)
  <2>1. f = [m \in D |-> f[m]]
    BY <1>4 DEF Wires
  <2> HIDE DEF layout
  <2> QED BY <2>1, <1>5
<1> DEFINE Read == CHOOSE g : G(g)
<1>7. G(Read)
  <2> HIDE DEF G
  <2> QED BY <1>6
<1>8. Reading(shift, po, layout) = Read
  BY DEF Reading
<1>9. Read[n] = LET c == layout[n] IN
                IF c[2] = 0 /\ Matched(po, c[1]) THEN Read[n - Width[c[1]]] ELSE shift[c]
  <2>1. \A g : G(g) => g[n] = LET c == layout[n] IN
                IF c[2] = 0 /\ Matched(po, c[1]) THEN g[n - Width[c[1]]] ELSE shift[c]
    <3> HIDE DEF layout
    <3>1. n \in 1 .. Len(layout)
      BY DEF layout
    <3> QED BY <3>1
  <2> HIDE DEF G, layout
  <2> QED BY <1>7, <2>1
<1> QED BY <1>8, <1>9

----------------------------------------------------------------------------
(* Two shift registers, a under the layout and b on the wires, that agree on *)
(* every cell in the scan path.                                              *)

Agree(po, a, b) == \A c \in Cells : Live(po, c[1]) => a[c] = b[c]

\* The register reads at a live unit's last cell what the unit's so carries.
LEMMA ReadingIsSo ==
  ASSUME NEW po, DOMAIN po = Latched, NEW off, Places(po, off), NEW a, NEW b, Agree(po, a, b),
         NEW u \in Units, Live(po, u)
  PROVE  Reading(a, po, Layout(po))[off[IndexOf(u)]] = So(b, po)[u]
<1> DEFINE layout == Layout(po)
           R(n) == Reading(a, po, layout)[n]
           so == So(b, po)
           Good(k) == \A w \in Units : Live(po, w) /\ IndexOf(w) <= k => R(off[IndexOf(w)]) = so[w]
           P == {k \in Nat : Good(k)}
<1> HIDE DEF R, so
<1>1. N \in Nat /\ \A w \in Units : IndexOf(w) \in 1 .. N
  BY OrderIndex
<1>2. Good(0)
  BY <1>1
<1>3. ASSUME NEW k \in Nat, Good(k), NEW w \in Units, Live(po, w), IndexOf(w) = k + 1
      PROVE  R(off[IndexOf(w)]) = so[w]
  <2> DEFINE n == off[IndexOf(w)]  c == layout[n]  wd == Width[w]
  <2>1. /\ wd \in Nat \ {0} /\ n = off[IndexOf(w) - 1] + wd /\ off[IndexOf(w) - 1] \in Nat
        /\ n \in 1 .. off[N] /\ layout[off[IndexOf(w) - 1] + wd] = UnitCells(w)[wd]
    <3>1. wd \in Nat \ {0}
      BY CellsOfUnit
    <3>2. wd \in 1 .. wd
      BY <3>1
    <3>3. /\ n = off[IndexOf(w) - 1] + wd /\ off[IndexOf(w) - 1] \in Nat /\ n \in 1 .. off[N]
          /\ \A j \in 1 .. wd : layout[off[IndexOf(w) - 1] + j] = UnitCells(w)[j]
      BY <1>3, UnitPlace
    <3> HIDE DEF n, wd, layout
    <3> QED BY <3>1, <3>2, <3>3
  <2>2. Len(layout) = off[N]
    BY DEF Places
  <2>3. c = IF w \in Instruments THEN <<w, wd - 1>> ELSE <<w, 0>>
    <3>1. wd \in 1 .. wd /\ wd - wd = 0
      BY <2>1
    <3>2. UnitCells(w)[wd] = IF w \in Instruments THEN <<w, wd - 1>> ELSE <<w, wd - wd>>
      BY <3>1, CellsOfUnit
    <3> HIDE DEF n, wd, layout
    <3> QED BY <2>1, <3>1, <3>2
  <2>4. R(n) = IF c[2] = 0 /\ Matched(po, c[1]) THEN R(n - Width[c[1]]) ELSE a[c]
    <3>1. n \in 1 .. Len(layout)
      BY <2>1, <2>2
    <3> HIDE DEF n
    <3> QED BY <3>1, ReadingEquation DEF R
  <2>5. so[w] = IF Matched(po, w) THEN so[LastOf(Content(w, po[w]))]
                ELSE IF w \in Instruments THEN b[<<w, wd - 1>>] ELSE b[<<w, 0>>]
    BY SoEquation DEF so
  <2> HIDE DEF n, c, wd, layout
  <2>6. CASE Matched(po, w)
    <3> DEFINE v == LastOf(Content(w, po[w]))
    <3>1. w \in Slots /\ w \notin Instruments /\ po[w] \in Arms(w)
      BY <2>6, NetworkAssumption DEF Matched, Slots, ValidPhysicalGraph
    <3>2. v \in Units /\ Live(po, v) /\ IndexOf(v) < IndexOf(w) /\ off[IndexOf(w) - 1] = off[IndexOf(v)]
      BY <3>1, <1>3, SpliceEnd
    <3> HIDE DEF v
    <3>3. R(off[IndexOf(v)]) = so[v]
      BY <3>2, <1>1, <1>3
    <3>4. c = <<w, 0>> /\ c[1] = w /\ c[2] = 0
      BY <2>3, <3>1
    <3>5. n - wd = off[IndexOf(v)]
      BY <2>1, <3>2
    <3>6. R(n) = R(n - wd)
      BY <2>4, <2>6, <3>4 DEF wd
    <3> QED BY <2>5, <2>6, <3>3, <3>5, <3>6 DEF n, v
  <2>7. CASE ~Matched(po, w)
    <3>1. c[1] = w /\ c \in Cells
      <4>1. 0 \in 0 .. wd - 1 /\ wd - 1 \in 0 .. wd - 1
        BY <2>1
      <4>2. <<w, 0>> \in Cells /\ <<w, wd - 1>> \in Cells
        BY <4>1, CellsAre DEF wd
      <4> QED BY <2>3, <4>2
    <3>2. a[c] = b[c]
      BY <3>1, <1>3 DEF Agree
    <3>3. R(n) = a[c]
      BY <2>4, <2>7, <3>1
    <3>4. so[w] = b[c]
      BY <2>3, <2>5, <2>7
    <3> QED BY <3>2, <3>3, <3>4 DEF n
  <2> QED BY <2>6, <2>7 DEF n
<1>4. Nat \subseteq P
  <2>1. ASSUME NEW k \in Nat, Good(k) PROVE Good(k + 1)
    <3> TAKE w \in Units
    <3> HAVE Live(po, w) /\ IndexOf(w) <= k + 1
    <3>1. CASE IndexOf(w) <= k
      BY <3>1, <2>1
    <3>2. CASE ~(IndexOf(w) <= k)
      <4>1. IndexOf(w) = k + 1
        BY <3>2, <1>1
      <4> QED BY <4>1, <1>3, <2>1
    <3> QED BY <3>1, <3>2
  <2> HIDE DEF Good
  <2>2. 0 \in P /\ \A k \in Nat : k \in P => k + 1 \in P
    BY <1>2, <2>1
  <2> HIDE DEF P
  <2> QED BY <2>2, Induction
<1>5. Good(N)
  <2> HIDE DEF Good
  <2> QED BY <1>1, <1>4
<1>6. R(off[IndexOf(u)]) = so[u]
  BY <1>1, <1>5
<1> QED BY <1>6 DEF R, so

\* Where what enters u's chain segment comes from: the last live unit before u
\* that is not inside u, if there is one.
EntersFrom(po, u, n) ==
  /\ n \in 0 .. IndexOf(u) - 1
  /\ \A i \in 1 .. N : n < i /\ i < IndexOf(u) /\ Live(po, Order[i]) => Order[i] \in Inside(u)
  /\ n # 0 => Live(po, Order[n]) /\ Order[n] \notin Inside(u)

\* There is always such a place.
LEMMA EntersExists ==
  ASSUME NEW po, NEW u \in Units
  PROVE  \E n : EntersFrom(po, u, n)
<1> DEFINE Here(n) == n # 0 => Live(po, Order[n]) /\ Order[n] \notin Inside(u)
           T == {k \in Nat : k <= IndexOf(u) - 1 /\ Here(IndexOf(u) - 1 - k)}
<1>1. N \in Nat /\ IndexOf(u) \in 1 .. N
  BY OrderIndex
<1>2. IndexOf(u) - 1 \in T
  BY <1>1
<1>3. PICK m \in T : \A k \in T : m <= k
  BY <1>2, LeastNatural
<1> DEFINE n == IndexOf(u) - 1 - m
<1>4. n \in 0 .. IndexOf(u) - 1 /\ Here(n)
  BY <1>1, <1>3
<1>5. ASSUME NEW i \in 1 .. N, n < i, i < IndexOf(u), Live(po, Order[i])
      PROVE  Order[i] \in Inside(u)
  <2> SUFFICES ASSUME Order[i] \notin Inside(u) PROVE FALSE
    OBVIOUS
  <2> DEFINE k == IndexOf(u) - 1 - i
  <2>1. k \in Nat /\ k <= IndexOf(u) - 1 /\ IndexOf(u) - 1 - k = i /\ k < m
    BY <1>1, <1>3, <1>5
  <2>2. k \in T
    BY <2>1, <1>5
  <2>3. m <= k /\ m \in Nat
    BY <2>2, <1>3
  <2> QED BY <2>1, <2>3
<1> QED BY <1>4, <1>5 DEF EntersFrom

\* A unit's si carries the so of the unit the layout puts before it, or TDI.
LEMMA SiIsBefore ==
  ASSUME NEW po, DOMAIN po = Latched, NEW shift, NEW tdi, NEW u \in Units, Live(po, u),
         NEW n, EntersFrom(po, u, n)
  PROVE  Si(shift, po, tdi)[u] = IF n = 0 THEN tdi ELSE So(shift, po)[Order[n]]
<1> DEFINE si == Si(shift, po, tdi)
           so == So(shift, po)
           V(m) == IF m = 0 THEN tdi ELSE so[Order[m]]
           Good(k) == \A w \in Units : Live(po, w) /\ N - IndexOf(w) < k =>
                        \A m : EntersFrom(po, w, m) => si[w] = V(m)
           P == {k \in Nat : Good(k)}
<1> HIDE DEF si, so
<1>1. N \in Nat /\ \A w \in Units : IndexOf(w) \in 1 .. N /\ Order[IndexOf(w)] = w
  BY OrderIndex
<1>2. Good(0)
  BY <1>1
<1>3. ASSUME NEW k \in Nat, Good(k), NEW w \in Units, Live(po, w), N - IndexOf(w) = k,
             NEW m, EntersFrom(po, w, m)
      PROVE  si[w] = V(m)
  <2>1. si[w] = IF Before(w) # {} THEN so[Previous(w)]
                ELSE IF Nested(w) THEN si[Gate(w).slot] ELSE tdi
    BY SiEquation DEF si, so
  <2> DEFINE x == Order[m]
  <2>2. m \in 0 .. IndexOf(w) - 1 /\ m \in 0 .. N /\ IndexOf(w) \in 1 .. N
    BY <1>1, <1>3 DEF EntersFrom
  <2>3. m # 0 => /\ m \in 1 .. N /\ x \in Units /\ IndexOf(x) = m /\ IndexOf(x) < IndexOf(w)
                 /\ Live(po, x) /\ x \notin Inside(w)
    <3> HAVE m # 0
    <3>1. m \in 1 .. N
      BY <2>2
    <3> QED BY <3>1, <2>2, <1>3, OrderIndex DEF EntersFrom
  <2>4. \A v \in Before(w) : /\ v \in Units /\ Path[v] = Path[w] /\ IndexOf(v) < IndexOf(w)
                             /\ Live(po, v) /\ v \notin Inside(w) /\ IndexOf(v) <= m
    <3> TAKE v \in Before(w)
    <3>1. v \in Units /\ Path[v] = Path[w] /\ IndexOf(v) < IndexOf(w)
      BY DEF Before, Siblings
    <3>2. Live(po, v)
      BY <3>1, <1>3 DEF Live
    <3>3. v \notin Inside(w)
      <4> SUFFICES ASSUME v \in Inside(w) PROVE FALSE
        OBVIOUS
      <4>1. w \in Inside(w)
        BY <3>1 DEF Inside
      <4> QED BY <4>1, <1>1, InsideSlot
    <3>4. IndexOf(v) <= m
      <4> SUFFICES ASSUME m < IndexOf(v) PROVE FALSE
        BY <3>1, <2>2, <1>1
      <4>1. IndexOf(v) \in 1 .. N /\ Order[IndexOf(v)] = v
        BY <3>1, <1>1
      <4> QED BY <4>1, <3>1, <3>2, <3>3, <1>3 DEF EntersFrom
    <3> QED BY <3>1, <3>2, <3>3, <3>4
  <2>5. m # 0 /\ (Nested(w) => x \in Inside(Gate(w).slot)) =>
          \E v \in Before(w) : m <= IndexOf(v)
    <3> HAVE m # 0 /\ (Nested(w) => x \in Inside(Gate(w).slot))
    <3>1. PICK v \in Units : Path[v] = Path[w] /\ IndexOf(v) < IndexOf(w) /\ IndexOf(x) <= IndexOf(v)
      BY <2>3, <1>3, EarlierSibling
    <3>2. v \in Before(w)
      BY <3>1 DEF Before, Siblings
    <3> QED BY <3>1, <3>2, <2>3
  <2>6. CASE Before(w) # {}
    <3> DEFINE p == Previous(w)
    <3>1. p \in Before(w) /\ \A v \in Before(w) : IndexOf(v) <= IndexOf(p)
      BY <2>6, PreviousUnit
    <3> HIDE DEF p
    <3>2. p \in Units /\ IndexOf(p) <= m /\ IndexOf(p) \in 1 .. N /\ Path[p] = Path[w]
      BY <3>1, <2>4, <1>1
    <3>3. m # 0
      BY <3>2, <2>2
    <3>4. Nested(w) => x \in Inside(Gate(w).slot)
      <4> HAVE Nested(w)
      <4>1. Nested(p) /\ Gate(p) = Gate(w)
        BY <3>2 DEF Nested, Gate
      <4>2. p \in Inside(Gate(w).slot) /\ w \in Inside(Gate(w).slot)
        <5>1. /\ Path[w] \in Seq(Step) /\ Len(Path[w]) \in Nat /\ Len(Path[w]) # 0
              /\ Gate(w) = Path[w][Len(Path[w])]
          BY GateStep
        <5>2. Len(Path[w]) \in DOMAIN Path[w]
          BY <5>1
        <5> QED BY <5>1, <5>2, <3>2 DEF Inside
      <4>3. CASE IndexOf(p) = m
        <5>1. x = p
          BY <4>3, <3>2, <1>1
        <5> QED BY <5>1, <4>2
      <4>4. CASE IndexOf(p) # m
        <5>1. IndexOf(p) < IndexOf(x) /\ IndexOf(x) < IndexOf(Gate(w).slot) /\ x \in Units
          <6>1. IndexOf(w) < IndexOf(Gate(w).slot) /\ Gate(w).slot \in Units
            BY GateStep
          <6> QED BY <6>1, <4>4, <3>2, <3>3, <2>3, <1>1
        <5>2. Gate(w).slot \in Slots
          BY GateStep
        <5> QED BY <5>1, <5>2, <4>2, NetworkAssumption DEF ValidPhysicalGraph
      <4> QED BY <4>3, <4>4
    <3>5. PICK v \in Before(w) : m <= IndexOf(v)
      BY <2>5, <3>3, <3>4
    <3>6. IndexOf(p) = m
      BY <3>1, <3>2, <3>5, <2>2, <2>4, <1>1
    <3>7. x = p
      BY <3>6, <3>2, <1>1
    <3> QED BY <3>3, <3>7, <2>1, <2>6 DEF p
  <2>7. CASE Before(w) = {} /\ ~Nested(w)
    <3>1. m = 0
      BY <2>5, <2>7
    <3> QED BY <3>1, <2>1, <2>7
  <2>8. CASE Before(w) = {} /\ Nested(w)
    <3> DEFINE s == Gate(w).slot
    <3>1. /\ s \in Units /\ s \in Slots /\ IndexOf(w) < IndexOf(s) /\ IndexOf(s) \in 1 .. N
      BY <2>8, GateStep, <1>1
    <3>2. Live(po, s)
      BY <2>8, <1>3, LiveUnit
    <3>3. w \in Inside(s)
      <4>1. /\ Path[w] \in Seq(Step) /\ Len(Path[w]) \in Nat /\ Len(Path[w]) # 0
            /\ Gate(w) = Path[w][Len(Path[w])]
        BY <2>8, GateStep
      <4>2. Len(Path[w]) \in DOMAIN Path[w]
        BY <4>1
      <4> QED BY <4>1, <4>2 DEF Inside
    <3>4. m # 0 => x \notin Inside(s)
      BY <2>5, <2>8
    <3>5. \A v : v \in Inside(w) => v \in Inside(s)
      <4> TAKE v
      <4> HAVE v \in Inside(w)
      <4>1. PICK d \in DOMAIN Path[w] : Path[w][d].slot = s
        BY <3>3 DEF Inside
      <4>2. /\ v \in Units /\ Len(Path[w]) + 1 \in 1 .. Len(Path[v])
            /\ \A j \in 1 .. Len(Path[w]) + 1 - 1 : Path[v][j] = Path[w][j]
        BY InsideSlot
      <4>3. Path[w] \in Seq(Step) /\ Path[v] \in Seq(Step) /\ Len(Path[w]) \in Nat /\ Len(Path[v]) \in Nat
        BY <4>2, GateStep
      <4>4. d \in 1 .. Len(Path[w]) /\ d \in DOMAIN Path[v]
        BY <4>1, <4>2, <4>3
      <4>5. Path[v][d] = Path[w][d]
        BY <4>2, <4>3, <4>4
      <4> QED BY <4>1, <4>2, <4>4, <4>5 DEF Inside
    <3> HIDE DEF s
    <3>6. EntersFrom(po, s, m)
      <4>1. m \in 0 .. IndexOf(s) - 1
        BY <3>1, <2>2
      <4>2. ASSUME NEW i \in 1 .. N, m < i, i < IndexOf(s), Live(po, Order[i])
            PROVE  Order[i] \in Inside(s)
        <5>1. Order[i] \in Units /\ IndexOf(Order[i]) = i
          BY OrderIndex
        <5>2. CASE i < IndexOf(w)
          <6>1. Order[i] \in Inside(w)
            BY <4>2, <5>2, <1>3 DEF EntersFrom
          <6> QED BY <6>1, <3>5
        <5>3. CASE i = IndexOf(w)
          BY <5>3, <3>3, <1>1
        <5>4. CASE IndexOf(w) < i
          BY <5>1, <5>4, <4>2, <3>1, <3>3, NetworkAssumption DEF ValidPhysicalGraph
        <5> QED BY <5>2, <5>3, <5>4, <2>2
      <4>3. m # 0 => Live(po, x) /\ x \notin Inside(s)
        BY <2>3, <3>4
      <4> QED BY <4>1, <4>2, <4>3 DEF EntersFrom
    <3>7. N - IndexOf(s) < k
      BY <3>1, <1>1, <1>3
    <3>8. si[s] = V(m)
      <4> HIDE DEF V
      <4> QED BY <3>1, <3>2, <3>6, <3>7, <1>3
    <3> QED BY <3>8, <2>1, <2>8 DEF s
  <2> QED BY <2>6, <2>7, <2>8
<1>4. Nat \subseteq P
  <2>1. ASSUME NEW k \in Nat, Good(k) PROVE Good(k + 1)
    <3> SUFFICES ASSUME NEW w \in Units, Live(po, w), N - IndexOf(w) < k + 1,
                        NEW m, EntersFrom(po, w, m)
                 PROVE  si[w] = V(m)
      OBVIOUS
    <3>1. CASE N - IndexOf(w) < k
      <4> HIDE DEF V
      <4> QED BY <3>1, <2>1
    <3>2. CASE ~(N - IndexOf(w) < k)
      <4>1. N - IndexOf(w) = k
        BY <3>2, <1>1
      <4> HIDE DEF V, Good
      <4> QED BY <4>1, <1>3, <2>1
    <3> QED BY <3>1, <3>2
  <2> HIDE DEF Good
  <2>2. 0 \in P /\ \A k \in Nat : k \in P => k + 1 \in P
    BY <1>2, <2>1
  <2> HIDE DEF P
  <2> QED BY <2>2, Induction
<1>5. Good(N)
  <2> HIDE DEF Good
  <2> QED BY <1>1, <1>4
<1>6. N - IndexOf(u) < N
  BY <1>1
<1>7. si[u] = V(n)
  <2> HIDE DEF V
  <2> QED BY <1>5, <1>6
<1> QED BY <1>7 DEF si, so

\* What a unit's cells fill from: the chain it splices in, or its si.
FillOf(shift, po, tdi, u) ==
  IF u \in Slots /\ po[u] \in Arms(u) THEN So(shift, po)[LastOf(Content(u, po[u]))]
  ELSE Si(shift, po, tdi)[u]

\* The place before a live unit's first cell reads as what the unit fills from.
LEMMA FillIsBefore ==
  ASSUME NEW po, DOMAIN po = Latched, NEW off, Places(po, off), NEW a, NEW b, Agree(po, a, b),
         NEW tdi, NEW u \in Units, Live(po, u)
  PROVE  LET n == off[IndexOf(u) - 1] IN
         FillOf(b, po, tdi, u) = IF n = 0 THEN tdi ELSE Reading(a, po, Layout(po))[n]
<1> DEFINE n == off[IndexOf(u) - 1]  R(m) == Reading(a, po, Layout(po))[m]
<1>1. N \in Nat /\ IndexOf(u) \in 1 .. N
  BY OrderIndex
<1>2. CASE u \in Slots /\ po[u] \in Arms(u)
  <2> DEFINE v == LastOf(Content(u, po[u]))
  <2>1. v \in Units /\ Live(po, v) /\ n = off[IndexOf(v)]
    BY <1>2, SpliceEnd
  <2> HIDE DEF v
  <2>2. R(off[IndexOf(v)]) = So(b, po)[v]
    BY <2>1, ReadingIsSo
  <2>3. off[IndexOf(v)] \in 1 .. off[N]
    BY <2>1, UnitPlace
  <2>4. n # 0 /\ R(n) = So(b, po)[v]
    BY <2>1, <2>2, <2>3
  <2>5. FillOf(b, po, tdi, u) = So(b, po)[v]
    BY <1>2 DEF FillOf, v
  <2> QED BY <2>4, <2>5
<1>3. CASE ~(u \in Slots /\ po[u] \in Arms(u))
  <2>1. \A w \in Inside(u) : ~Live(po, w)
    <3> SUFFICES ASSUME NEW w \in Inside(u), Live(po, w) PROVE FALSE
      OBVIOUS
    <3>1. u \in Slots
      BY InsideSlot
    <3>2. PICK x \in Units : Nested(x) /\ Gate(x) = [slot |-> u, value |-> po[u]]
      BY <3>1, SplicedUnit
    <3>3. po[u] \in Arms(u)
      BY <3>2 DEF Arms
    <3> QED BY <3>1, <3>3, <1>3
  <2>2. PICK m : EntersFrom(po, u, m)
    BY EntersExists
  <2>3. Si(b, po, tdi)[u] = IF m = 0 THEN tdi ELSE So(b, po)[Order[m]]
    BY <2>2, SiIsBefore
  <2>4. off[m] = n
    <3>1. m \in 0 .. N /\ IndexOf(u) - 1 \in 0 .. N /\ m <= IndexOf(u) - 1
      BY <2>2, <1>1 DEF EntersFrom
    <3>2. \A i \in 1 .. N : m < i /\ i <= IndexOf(u) - 1 => ~Live(po, Order[i])
      <4> TAKE i \in 1 .. N
      <4> HAVE m < i /\ i <= IndexOf(u) - 1
      <4>1. i < IndexOf(u)
        BY <1>1
      <4>2. Live(po, Order[i]) => Order[i] \in Inside(u)
        BY <4>1, <2>2 DEF EntersFrom
      <4> QED BY <4>2, <2>1
    <3> QED BY <3>1, <3>2, DeadGap
  <2>5. FillOf(b, po, tdi, u) = Si(b, po, tdi)[u]
    BY <1>3 DEF FillOf
  <2>6. CASE m = 0
    <3>1. n = 0
      BY <2>4, <2>6 DEF Places
    <3> QED BY <3>1, <2>3, <2>5, <2>6
  <2>7. CASE m # 0
    <3> DEFINE x == Order[m]
    <3>1. m \in 1 .. N
      BY <2>2, <2>7, <1>1 DEF EntersFrom
    <3>2. x \in Units /\ Live(po, x) /\ IndexOf(x) = m
      BY <3>1, <2>2, <2>7, OrderIndex DEF EntersFrom
    <3>3. R(off[IndexOf(x)]) = So(b, po)[x]
      BY <3>2, ReadingIsSo
    <3>4. off[IndexOf(x)] \in 1 .. off[N]
      BY <3>2, UnitPlace
    <3>5. n # 0 /\ R(n) = So(b, po)[x]
      BY <2>4, <3>2, <3>3, <3>4
    <3> QED BY <3>5, <2>3, <2>5, <2>7
  <2> QED BY <2>6, <2>7
<1> QED BY <1>2, <1>3

\* TDO agrees: the layout ends in the last unit of the top-level chain.
LEMMA TailsAgree ==
  ASSUME NEW po, DOMAIN po = Latched, NEW a, NEW b, Agree(po, a, b),
         {u \in Units : ~Nested(u)} # {}
  PROVE  TailBit(a, po) = ExternalTdo(b, po)
<1> DEFINE top == {u \in Units : ~Nested(u)}  v == LastOf(top)
<1>1. PICK off : Places(po, off)
  BY PlacesExist
<1>2. N \in Nat /\ v \in Units /\ ~Nested(v) /\ \A w \in top : IndexOf(w) <= IndexOf(v)
  BY OrderIndex, LastUnit
<1> HIDE DEF v
<1>3. Live(po, v)
  <2>1. Path[v] \in Seq(Step) /\ Len(Path[v]) = 0
    BY <1>2, GateStep
  <2> QED BY <2>1 DEF Live
<1>4. ASSUME NEW w \in Units PROVE IndexOf(w) <= IndexOf(v)
  <2>1. 0 \in 0 .. Len(Path[w])
    BY GateStep
  <2> DEFINE r == Ancestor(w, 0)
  <2>2. r \in Units /\ Len(Path[r]) = 0 /\ IndexOf(w) <= IndexOf(r)
    BY <2>1, Ancestors
  <2> HIDE DEF r
  <2>3. r \in top
    BY <2>2, GateStep
  <2> QED BY <2>2, <2>3, <1>2, OrderIndex
<1>5. off[IndexOf(v)] = off[N]
  <2>1. \A i \in 1 .. N : IndexOf(v) < i /\ i <= N => ~Live(po, Order[i])
    <3> TAKE i \in 1 .. N
    <3> HAVE IndexOf(v) < i /\ i <= N
    <3>1. Order[i] \in Units /\ IndexOf(Order[i]) = i
      BY OrderIndex
    <3>2. i <= IndexOf(v)
      BY <3>1, <1>4
    <3> QED BY <3>2, <1>2, OrderIndex
  <2>2. IndexOf(v) \in 0 .. N /\ N \in 0 .. N /\ IndexOf(v) <= N
    BY <1>2, OrderIndex
  <2> QED BY <1>1, <2>1, <2>2, DeadGap
<1>6. Reading(a, po, Layout(po))[off[IndexOf(v)]] = So(b, po)[v]
  BY <1>1, <1>2, <1>3, ReadingIsSo
<1>7. Len(Layout(po)) = off[IndexOf(v)]
  BY <1>1, <1>5 DEF Places
<1> QED BY <1>6, <1>7 DEF TailBit, ExternalTdo, v

\* A shift keeps the two in agreement on every cell in the scan path.
LEMMA ShiftsAgree ==
  ASSUME NEW po, DOMAIN po = Latched, NEW a, NEW b, Agree(po, a, b), NEW tdi
  PROVE  Agree(po, Shift(a, po, tdi), CellShift(b, po, tdi, TRUE))
<1>1. PICK off : Places(po, off)
  BY PlacesExist
<1> SUFFICES ASSUME NEW c \in Cells, Live(po, c[1])
             PROVE  Shift(a, po, tdi)[c] = CellShift(b, po, tdi, TRUE)[c]
  BY DEF Agree
<1>2. PICK u \in Units : \E k \in 0 .. Width[u] - 1 : c = <<u, k>>
  BY CellsAre
<1>3. PICK k \in 0 .. Width[u] - 1 : c = <<u, k>>
  BY <1>2
<1>4. c[1] = u /\ c[2] = k /\ Live(po, u)
  BY <1>3
<1> DEFINE layout == Layout(po)  read == Reading(a, po, layout)
           start == off[IndexOf(u) - 1]  wd == Width[u]  instr == u \in Instruments
<1>5. /\ wd \in Nat \ {0} /\ start \in Nat
      /\ \A j \in 1 .. wd : start + j \in 1 .. off[N] /\ layout[start + j] = UnitCells(u)[j]
  BY <1>1, <1>4, UnitPlace
<1>6. PICK j \in 1 .. wd : UnitCells(u)[j] = c
  BY <1>3, CellsOfUnit
<1>7. \A q \in 1 .. wd : UnitCells(u)[q] = IF instr THEN <<u, q - 1>> ELSE <<u, wd - q>>
  BY CellsOfUnit
<1>8. k = IF instr THEN j - 1 ELSE wd - j
  <2>1. <<u, k>> = IF instr THEN <<u, j - 1>> ELSE <<u, wd - j>>
    BY <1>3, <1>6, <1>7
  <2> HIDE DEF instr, wd
  <2> QED BY <2>1
<1>9. PICK p : p = start + j
  OBVIOUS
<1>10. /\ p \in Nat \ {0} /\ p \in DOMAIN layout /\ (j = 1 => p - 1 = start)
       /\ (CHOOSE m \in DOMAIN layout : layout[m] = c) = p
  <2>1. layout \in Seq(Cell) /\ Len(layout) = off[N]
    BY <1>1 DEF Places
  <2>2. start + j \in 1 .. off[N]
    BY <1>5
  <2>3. (CHOOSE m \in DOMAIN layout : layout[m] = UnitCells(u)[j]) = start + j
    BY <1>1, <1>4, <1>6, OnePlace
  <2>4. DOMAIN layout = 1 .. off[N]
    BY <2>1
  <2>5. (CHOOSE m \in DOMAIN layout : layout[m] = c) = p
    BY <2>3, <1>6, <1>9
  <2>6. p \in 1 .. off[N] /\ (j = 1 => p - 1 = start)
    BY <2>2, <1>5, <1>9
  <2> HIDE DEF layout, start
  <2> QED BY <2>4, <2>5, <2>6
<1>11. Shift(a, po, tdi)[c] = IF p = 1 THEN tdi ELSE read[p - 1]
  <2> DEFINE new == [m \in DOMAIN layout |-> IF m = 1 THEN tdi ELSE read[m - 1]]
  <2>1. Shift(a, po, tdi)[c] = new[CHOOSE m \in DOMAIN layout : layout[m] = c]
    BY <1>4 DEF Shift
  <2>2. Shift(a, po, tdi)[c] = new[p]
    BY <2>1, <1>10
  <2>3. p \in DOMAIN layout
    BY <1>10
  <2> HIDE DEF layout, start, read
  <2> QED BY <2>2, <2>3
<1> DEFINE moved == IF instr THEN IF k = 0 THEN FillOf(b, po, tdi, u) ELSE b[<<u, k - 1>>]
                    ELSE IF k = wd - 1 THEN FillOf(b, po, tdi, u) ELSE b[<<u, k + 1>>]
<1>12. CellShift(b, po, tdi, TRUE)[c] = moved
  <2>1. Select(po, u, TRUE)
    BY <1>4 DEF Select
  <2> QED BY <2>1, <1>3, <1>4 DEF CellShift, FillOf
<1>13. CASE j = 1
  <2>1. FillOf(b, po, tdi, u) = IF start = 0 THEN tdi ELSE read[start]
    BY <1>1, <1>4, FillIsBefore
  <2>2. moved = FillOf(b, po, tdi, u)
    <3> HIDE DEF start, layout
    <3>1. instr => k = 0
      BY <1>8, <1>13
    <3>2. ~instr => k = wd - 1
      BY <1>8, <1>13
    <3> QED BY <3>1, <3>2
  <2>3. p - 1 = start /\ (p = 1 <=> start = 0)
    BY <1>5, <1>9, <1>13
  <2> HIDE DEF start, layout, read, moved
  <2> QED BY <2>1, <2>2, <2>3, <1>11, <1>12
<1>14. CASE j # 1
  <2> DEFINE d == UnitCells(u)[j - 1]
  <2>1. j - 1 \in 1 .. wd /\ p # 1 /\ p - 1 = start + (j - 1)
    BY <1>5, <1>6, <1>9, <1>14
  <2>2. d = IF instr THEN <<u, k - 1>> ELSE <<u, k + 1>>
    <3>1. d = IF instr THEN <<u, (j - 1) - 1>> ELSE <<u, wd - (j - 1)>>
      BY <2>1, <1>7
    <3>2. /\ instr => (j - 1) - 1 = k - 1
          /\ ~instr => wd - (j - 1) = k + 1
      BY <1>5, <1>6, <1>8
    <3> HIDE DEF d, wd
    <3> QED BY <3>1, <3>2
  <2>3. d[1] = u /\ (~instr => d[2] # 0)
    <3>1. ~instr => k + 1 # 0
      BY <1>3
    <3> HIDE DEF d
    <3> QED BY <2>2, <3>1
  <2>4. d \in Cells
    <3>1. ToSet(UnitCells(u)) = {<<u, q>> : q \in 0 .. Width[u] - 1} /\ UnitCells(u) \in Seq(Cell)
          /\ Len(UnitCells(u)) = Width[u]
      BY CellsOfUnit
    <3>2. d \in ToSet(UnitCells(u))
      BY <2>1, <3>1 DEF ToSet
    <3> QED BY <3>2 DEF Cells
  <2>5. PICK n : n = p - 1
    OBVIOUS
  <2>6. n \in 1 .. Len(layout) /\ layout[n] = d
    <3>1. Len(layout) = off[N]
      BY <1>1 DEF Places
    <3>2. start + (j - 1) \in 1 .. off[N] /\ layout[start + (j - 1)] = d
      BY <2>1, <1>5
    <3> QED BY <3>1, <3>2, <2>1, <2>5
  <2>7. read[n] = a[d]
    <3>1. read[n] = IF layout[n][2] = 0 /\ Matched(po, layout[n][1])
                    THEN read[n - Width[layout[n][1]]] ELSE a[layout[n]]
      BY <2>6, ReadingEquation
    <3>2. instr => ~Matched(po, u)
      BY NetworkAssumption DEF Matched, ValidPhysicalGraph, Slots
    <3> HIDE DEF layout, d, read
    <3> QED BY <2>3, <2>6, <3>1, <3>2
  <2>8. a[d] = b[d]
    BY <2>3, <2>4, <1>4 DEF Agree
  <2>9. moved = b[d]
    <3>1. /\ instr => k # 0
          /\ ~instr => k # wd - 1
      BY <1>5, <1>6, <1>8, <1>14
    <3> HIDE DEF d, wd
    <3> QED BY <3>1, <2>2
  <2> HIDE DEF start, layout, read, moved, d
  <2> QED BY <2>1, <2>5, <2>7, <2>8, <2>9, <1>11, <1>12
<1> QED BY <1>13, <1>14

\* The last unit of the top-level chain, at TDO.
TailUnit == LastOf({u \in Units : ~Nested(u)})

\* A unit of the top-level chain is in every scan path, and is a slot.
LEMMA TopUnit ==
  ASSUME NEW po, NEW u \in Units, ~Nested(u)
  PROVE  Live(po, u) /\ u \in Slots /\ u \notin Instruments
<1>1. Path[u] \in Seq(Step) /\ Len(Path[u]) = 0
  BY GateStep
<1>2. u \notin Instruments
  BY NetworkAssumption DEF ValidPhysicalGraph
<1> QED BY <1>1, <1>2 DEF Live, Units

\* The chain at the top is not empty: it ends in the tail.
LEMMA TailIsATopUnit ==
  ASSUME Units # {}
  PROVE  {u \in Units : ~Nested(u)} # {} /\ TailUnit \in Units /\ ~Nested(TailUnit)
<1>1. PICK u \in Units : TRUE
  OBVIOUS
<1>2. 0 \in 0 .. Len(Path[u])
  BY GateStep
<1> DEFINE r == Ancestor(u, 0)
<1>3. r \in Units /\ Len(Path[r]) = 0
  BY <1>2, Ancestors
<1> HIDE DEF r
<1>4. ~Nested(r)
  BY <1>3, GateStep
<1>5. {w \in Units : ~Nested(w)} # {}
  BY <1>3, <1>4
<1>6. LastOf({w \in Units : ~Nested(w)}) \in {w \in Units : ~Nested(w)}
  BY <1>5, LastUnit
<1> QED BY <1>5, <1>6 DEF TailUnit

\* While the tail relays nothing, TDO is its flip-flop.
LEMMA UnmatchedTail ==
  ASSUME NEW po, DOMAIN po = Latched, NEW a, Units # {}, ~Matched(po, TailUnit)
  PROVE  /\ TailBit(a, po) = a[<<TailUnit, 0>>]
         /\ ExternalTdo(a, po) = a[<<TailUnit, 0>>]
<1>1. Agree(po, a, a)
  BY DEF Agree
<1>2. TailBit(a, po) = ExternalTdo(a, po)
  BY <1>1, TailIsATopUnit, TailsAgree
<1>3. So(a, po)[TailUnit] = a[<<TailUnit, 0>>]
  BY TailIsATopUnit, TopUnit, SoEquation
<1> QED BY <1>2, <1>3 DEF ExternalTdo, TailUnit

\* A scan's capture makes the two agree, whatever they held before.
LEMMA CapturesAgree ==
  ASSUME NEW po, DOMAIN po = Latched, NEW a, NEW b
  PROVE  Agree(po, Capture(a, po), CellCapture(b, po, TRUE))
<1> SUFFICES ASSUME NEW c \in Cells, Live(po, c[1])
             PROVE  Capture(a, po)[c] = CellCapture(b, po, TRUE)[c]
  BY DEF Agree
<1>1. CaptureOpen(po, c[1]) /\ Select(po, c[1], TRUE)
  BY DEF CaptureOpen, Live, Select
<1> QED BY <1>1 DEF Capture, CellCapture

\* A live unit whose cells agree reads as the same number on both sides.
LEMMA ValuesAgree ==
  ASSUME NEW po, NEW a, NEW b, Agree(po, a, b), NEW u \in Units, Live(po, u)
  PROVE  ValueOf(a, u) = ValueOf(b, u)
<1>1. \A k \in 0 .. Width[u] - 1 : a[<<u, k>>] = b[<<u, k>>]
  <2> TAKE k \in 0 .. Width[u] - 1
  <2>1. <<u, k>> \in Cells
    BY CellsAre
  <2> QED BY <2>1 DEF Agree
<1>2. [k \in 0 .. Width[u] - 1 |-> a[<<u, k>>]] = [k \in 0 .. Width[u] - 1 |-> b[<<u, k>>]]
  BY <1>1
<1> QED BY <1>2 DEF ValueOf

\* An update that starts from agreement commits the same values.
LEMMA UpdatesAgree ==
  ASSUME NEW po, DOMAIN po = Latched, NEW a, NEW b, Agree(po, a, b)
  PROVE  Update(a, po) = CellUpdate(b, po, TRUE)
<1> DEFINE commitsA(u) == Live(po, u) /\ (u \in Writes => ValueOf(a, Gate(u).slot) = Gate(u).value)
           commitsB(u) == Select(po, u, TRUE)
                          /\ (u \in Writes => ValueOf(b, Gate(u).slot) = po[Gate(u).slot])
<1>1. ASSUME NEW u \in Latched
      PROVE  /\ commitsA(u) <=> commitsB(u)
             /\ commitsA(u) => ValueOf(a, u) = ValueOf(b, u)
  <2>1. u \in Units /\ (u \in Writes => Nested(u))
    BY NetworkAssumption DEF Latched, Units, ValidPhysicalGraph
  <2>2. Live(po, u) => ValueOf(a, u) = ValueOf(b, u)
    BY <2>1, ValuesAgree
  <2>3. ASSUME Live(po, u), u \in Writes
        PROVE  /\ po[Gate(u).slot] = Gate(u).value
               /\ ValueOf(a, Gate(u).slot) = ValueOf(b, Gate(u).slot)
    <3>1. Gate(u).slot \in Units
      BY <2>1, <2>3, GateStep
    <3>2. Live(po, Gate(u).slot) /\ po[Gate(u).slot] = Gate(u).value
      BY <2>1, <2>3, LiveUnit
    <3> QED BY <3>1, <3>2, ValuesAgree
  <2> QED BY <2>2, <2>3 DEF Select
<1>2. Update(a, po) = [u \in Latched |-> IF commitsA(u) THEN ValueOf(a, u) ELSE po[u]]
  BY DEF Update
<1>3. CellUpdate(b, po, TRUE) = [u \in Latched |-> IF commitsB(u) THEN ValueOf(b, u) ELSE po[u]]
  BY DEF CellUpdate
<1> HIDE DEF commitsA, commitsB
<1> QED BY <1>1, <1>2, <1>3

----------------------------------------------------------------------------
(* Powers of two, and the bits of a number. *)

\* 1 << n, bit by bit.
LEMMA Pow2Is ==
  /\ Pow2[0] = 1
  /\ \A n \in Nat : Pow2[n] \in Nat \ {0} /\ Pow2[n + 1] = 2 * Pow2[n]
<1> DEFINE double == [x \in Nat |-> 2 * x]
           Powers(f, n) == \A i \in 1 .. n : f[i] = IF i = 1 THEN 1 ELSE double[f[i - 1]]
           F(n) == CHOOSE f \in [1 .. n -> Nat] : Powers(f, n)
           G(g) == g = [n \in Nat |-> IF n = 0 THEN 1 ELSE 2 * g[n - 1]]
<1>1. ASSUME NEW n \in Nat PROVE F(n) \in [1 .. n -> Nat] /\ Powers(F(n), n)
  <2>1. 1 \in Nat /\ double \in [Nat -> Nat]
    OBVIOUS
  <2>2. \E f \in [1 .. n -> Nat] : Powers(f, n)
    <3> HIDE DEF double
    <3> DEFINE E(S, c, step, k) ==
                 \E f \in [1 .. k -> S] : \A i \in 1 .. k : f[i] = IF i = 1 THEN c ELSE step[f[i - 1]]
    <3>1. \A S : \A c \in S : \A step \in [S -> S] : \A k \in Nat : E(S, c, step, k)
      BY StepwiseExists
    <3>2. E(Nat, 1, double, n)
      <4> HIDE DEF E
      <4> QED BY <2>1, <3>1
    <3> QED BY <3>2
  <2> HIDE DEF Powers
  <2> QED BY <2>2
<1>2. ASSUME NEW n \in Nat PROVE F(n + 2)[n + 1] = F(n + 1)[n + 1]
  <2> DEFINE f == F(n + 1)  h == F(n + 2)
             P == {i \in 1 .. n + 1 : f[i] = h[i]}
  <2>1. n + 1 \in Nat /\ n + 2 \in Nat
    OBVIOUS
  <2>2. Powers(f, n + 1) /\ Powers(h, n + 2)
    <3> HIDE DEF Powers
    <3> QED BY <1>1, <2>1
  <2> HIDE DEF f, h
  <2>3. ASSUME NEW i \in 1 .. n + 1
        PROVE  /\ f[i] = IF i = 1 THEN 1 ELSE double[f[i - 1]]
               /\ h[i] = IF i = 1 THEN 1 ELSE double[h[i - 1]]
    <3>1. i \in 1 .. n + 2
      OBVIOUS
    <3> HIDE DEF double
    <3> QED BY <2>2, <3>1
  <2>4. 1 \in P
    <3>1. 1 \in 1 .. n + 1
      OBVIOUS
    <3>2. f[1] = 1 /\ h[1] = 1
      BY <2>3, <3>1
    <3> QED BY <3>1, <3>2
  <2>5. ASSUME NEW i \in 1 .. n + 1, i < n + 1, i \in P PROVE i + 1 \in P
    <3>1. i + 1 \in 1 .. n + 1 /\ (i + 1) - 1 = i /\ i + 1 # 1 /\ f[i] = h[i]
      BY <2>5
    <3>2. f[i + 1] = double[f[i]] /\ h[i + 1] = double[h[i]]
      <4> HIDE DEF double
      <4> QED BY <2>3, <3>1
    <3> HIDE DEF double
    <3> QED BY <3>1, <3>2
  <2>6. 1 .. n + 1 \subseteq P
    <3> HIDE DEF P
    <3> QED BY <2>1, <2>4, <2>5, IntervalInduction
  <2>7. n + 1 \in 1 .. n + 1
    OBVIOUS
  <2> QED BY <2>6, <2>7 DEF f, h
<1> DEFINE g == [n \in Nat |-> F(n + 1)[n + 1]]
<1>3. ASSUME NEW n \in Nat
      PROVE  g[n] \in Nat /\ g[n] = IF n = 0 THEN 1 ELSE 2 * g[n - 1]
  <2>1. n + 1 \in Nat /\ n + 1 \in 1 .. n + 1
    OBVIOUS
  <2>2. F(n + 1) \in [1 .. n + 1 -> Nat] /\ Powers(F(n + 1), n + 1)
    <3> HIDE DEF Powers
    <3> QED BY <1>1, <2>1
  <2>3. F(n + 1)[n + 1] = IF n = 0 THEN 1 ELSE double[F(n + 1)[n]]
    <3>1. (n + 1) - 1 = n /\ (n + 1 = 1 <=> n = 0)
      OBVIOUS
    <3> HIDE DEF F, double
    <3> QED BY <2>1, <2>2, <3>1
  <2>4. g[n] \in Nat
    <3> HIDE DEF F
    <3> QED BY <2>1, <2>2
  <2>5. CASE n = 0
    <3> HIDE DEF F
    <3> QED BY <2>3, <2>4, <2>5
  <2>6. CASE n # 0
    <3>1. n - 1 \in Nat /\ (n - 1) + 2 = n + 1 /\ (n - 1) + 1 = n
      BY <2>6
    <3>2. F(n + 1)[n] = F(n)[n]
      <4> HIDE DEF F
      <4> QED BY <3>1, <1>2
    <3>3. F(n + 1)[n] \in Nat
      <4>1. n \in 1 .. n + 1
        BY <2>6
      <4> HIDE DEF F
      <4> QED BY <2>2, <4>1
    <3> HIDE DEF F
    <3> QED BY <2>3, <2>4, <2>6, <3>1, <3>2, <3>3
  <2> QED BY <2>4, <2>5, <2>6
<1>4. G(g)
  <2>1. g = [n \in Nat |-> g[n]]
    OBVIOUS
  <2> HIDE DEF g
  <2> QED BY <2>1, <1>3
<1>5. G(Pow2)
  <2>1. Pow2 = CHOOSE h : G(h)
    BY DEF Pow2
  <2> HIDE DEF G
  <2> QED BY <1>4, <2>1
<1> HIDE DEF F, g
<1>6. Pow2[0] = 1
  BY <1>5
<1>7. \A n \in Nat : Pow2[n + 1] = 2 * Pow2[n]
  <2> TAKE n \in Nat
  <2>1. n + 1 \in Nat /\ n + 1 # 0 /\ (n + 1) - 1 = n
    OBVIOUS
  <2> QED BY <1>5, <2>1
<1> DEFINE P == {n \in Nat : Pow2[n] \in Nat \ {0}}
<1>8. 0 \in P /\ \A n \in Nat : n \in P => n + 1 \in P
  <2> HIDE DEF G
  <2>1. 0 \in P
    BY <1>6
  <2>2. ASSUME NEW n \in Nat, n \in P PROVE n + 1 \in P
    BY <1>7, <2>2
  <2> QED BY <2>1, <2>2
<1>9. Nat \subseteq P
  <2> HIDE DEF P, G
  <2> QED BY <1>8, Induction
<1> HIDE DEF G
<1> QED BY <1>6, <1>7, <1>9

\* 1 << (m + n)
LEMMA Pow2Add ==
  ASSUME NEW m \in Nat, NEW n \in Nat
  PROVE  Pow2[m + n] = Pow2[m] * Pow2[n]
<1> DEFINE P == {k \in Nat : Pow2[m + k] = Pow2[m] * Pow2[k]}
<1>1. 0 \in P
  BY Pow2Is
<1>2. ASSUME NEW k \in Nat, k \in P PROVE k + 1 \in P
  <2>1. m + k \in Nat /\ m + (k + 1) = (m + k) + 1
    OBVIOUS
  <2>2. Pow2[(m + k) + 1] = 2 * Pow2[m + k] /\ Pow2[k + 1] = 2 * Pow2[k]
    BY <2>1, Pow2Is
  <2>3. PICK a \in Nat, b \in Nat : a = Pow2[m] /\ b = Pow2[k]
    BY Pow2Is
  <2>4. Pow2[m + k] = a * b
    BY <1>2, <2>3
  <2>5. Pow2[m + (k + 1)] = 2 * (a * b)
    BY <2>1, <2>2, <2>4
  <2>6. 2 * (a * b) = a * (2 * b)
    OBVIOUS
  <2> QED BY <2>2, <2>3, <2>5, <2>6
<1>3. Nat \subseteq P
  <2> HIDE DEF P
  <2> QED BY <1>1, <1>2, Induction
<1> QED BY <1>3

\* A bit is a bit.
LEMMA BitIs ==
  ASSUME NEW v \in Nat, NEW k \in Nat
  PROVE  Bit(v, k) \in {0, 1}
<1>1. Pow2[k] \in Nat \ {0}
  BY Pow2Is
<1>2. v \div Pow2[k] \in Nat
  BY <1>1, DivMod
<1>3. \A q \in Nat : q % 2 \in {0, 1}
  OBVIOUS
<1> QED BY <1>2, <1>3 DEF Bit

\* One more low bit.
LEMMA OneMoreBit ==
  ASSUME NEW v \in Nat, NEW k \in Nat
  PROVE  v % Pow2[k + 1] = Bit(v, k) * Pow2[k] + (v % Pow2[k])
<1>1. PICK b \in Nat \ {0} : b = Pow2[k] /\ Pow2[k + 1] = 2 * b
  BY Pow2Is
<1>2. PICK q \in Nat, r \in 0 .. b - 1 : q = v \div b /\ r = v % b /\ v = b * q + r
  BY DivMod
<1>3. PICK q2 \in Nat, r2 \in {0, 1} : q2 = q \div 2 /\ r2 = q % 2 /\ q = 2 * q2 + r2
  OBVIOUS
<1>4. 2 * b \in Nat \ {0} /\ b * r2 + r \in 0 .. 2 * b - 1
  <2>1. b * r2 = IF r2 = 0 THEN 0 ELSE b
    OBVIOUS
  <2> QED BY <2>1
<1>5. v = (2 * b) * q2 + (b * r2 + r)
  <2>1. b * q = (2 * b) * q2 + b * r2
    BY <1>3
  <2>2. b * q \in Nat /\ (2 * b) * q2 \in Nat /\ b * r2 \in Nat
    OBVIOUS
  <2> QED BY <1>2, <2>1, <2>2
<1>6. v % (2 * b) = b * r2 + r
  BY <1>4, <1>5, DivModUnique
<1>7. Bit(v, k) = r2
  BY <1>1, <1>2, <1>3 DEF Bit
<1>8. r2 * b = b * r2
  OBVIOUS
<1> QED BY <1>1, <1>2, <1>6, <1>7, <1>8

----------------------------------------------------------------------------
(* What the interpreter opens, and what that puts in the scan path.         *)

\* Each step of a path opens the slot above the next, at a value of its arms'.
LEMMA StepIs ==
  ASSUME NEW u \in Units, NEW j \in 1 .. Len(Path[u])
  PROVE  /\ Path[u][j] \in Step
         /\ Path[u][j].slot \in Slots /\ Path[u][j].slot \in Units
         /\ Len(Path[Path[u][j].slot]) = j - 1
         /\ \A k \in 1 .. j - 1 : Path[Path[u][j].slot][k] = Path[u][k]
         /\ Nested(Ancestor(u, j)) /\ Gate(Ancestor(u, j)) = Path[u][j]
         /\ Path[u][j].value \in Arms(Path[u][j].slot)
         /\ Path[u][j].value \in 0 .. Pow2[Width[Path[u][j].slot]] - 1
<1>1. Path[u] \in Seq(Step) /\ Len(Path[u]) \in Nat /\ j \in Nat \ {0} /\ j \in 0 .. Len(Path[u])
  BY GateStep
<1>2. Path[u][j] \in Step
  BY <1>1
<1>3. j - 1 \in 0 .. Len(Path[u]) /\ j - 1 # Len(Path[u]) /\ (j - 1) + 1 = j
  BY <1>1
<1>4. Ancestor(u, j - 1) = Path[u][j].slot
  BY <1>3 DEF Ancestor
<1>5. /\ Path[u][j].slot \in Units /\ Len(Path[Path[u][j].slot]) = j - 1
      /\ \A k \in 1 .. j - 1 : Path[Path[u][j].slot][k] = Path[u][k]
  BY <1>3, <1>4, Ancestors
<1> DEFINE v == Ancestor(u, j)
<1>6. v \in Units /\ Len(Path[v]) = j /\ \A k \in 1 .. j : Path[v][k] = Path[u][k]
  BY <1>1, Ancestors
<1> HIDE DEF v
<1>7. Nested(v) /\ Gate(v) = Path[u][j]
  <2>1. j \in 1 .. j
    BY <1>1
  <2> QED BY <1>1, <1>6, <2>1, GateStep
<1>8. Gate(v).value \in Arms(Gate(v).slot)
  BY <1>6, <1>7 DEF Arms
<1>9. Gate(v).value \in 0 .. Pow2[Width[Gate(v).slot]] - 1
  BY <1>6, <1>7, NetworkAssumption DEF ValidPhysicalGraph
<1>10. Gate(v).slot \in Slots
  BY <1>6, <1>7, GateStep
<1> QED BY <1>2, <1>5, <1>7, <1>8, <1>9, <1>10 DEF v

\* No step asks for zero.
LEMMA StepNotZero ==
  ASSUME NoArmZero, NEW u \in Units, NEW j \in 1 .. Len(Path[u])
  PROVE  Path[u][j].value # 0
<1>1. Path[u][j].slot \in Slots /\ Path[u][j].value \in Arms(Path[u][j].slot)
  BY StepIs
<1>2. CASE Path[u][j].slot \in Muxes
  BY <1>1, <1>2 DEF NoArmZero
<1>3. CASE Path[u][j].slot \in Sibs
  <2>1. Arms(Path[u][j].slot) = {1}
    BY <1>3, NetworkAssumption DEF ValidPhysicalGraph
  <2> QED BY <1>1, <2>1
<1> QED BY <1>1, <1>2, <1>3 DEF Slots

\* A slot is a step of one depth only, and below it the way up is the same.
LEMMA SameStep ==
  ASSUME NEW u \in Units, NEW v \in Units, NEW j \in 1 .. Len(Path[u]), NEW k \in 1 .. Len(Path[v]),
         Path[u][j].slot = Path[v][k].slot
  PROVE  /\ j = k
         /\ \A l \in 1 .. j - 1 : Path[u][l] = Path[v][l]
         /\ Path[u][j].value = Path[v][k].value => Path[u][j] = Path[v][k]
<1>1. Len(Path[u]) \in Nat /\ Len(Path[v]) \in Nat
  BY GateStep
<1> DEFINE s == Path[u][j].slot
<1>2. Len(Path[s]) = j - 1 /\ \A l \in 1 .. j - 1 : Path[s][l] = Path[u][l]
  BY StepIs
<1>3. Len(Path[s]) = k - 1 /\ \A l \in 1 .. k - 1 : Path[s][l] = Path[v][l]
  <2>1. /\ Len(Path[Path[v][k].slot]) = k - 1
        /\ \A l \in 1 .. k - 1 : Path[Path[v][k].slot][l] = Path[v][l]
    BY StepIs
  <2> QED BY <2>1
<1> HIDE DEF s
<1>4. j = k /\ \A l \in 1 .. j - 1 : Path[u][l] = Path[v][l]
  BY <1>1, <1>2, <1>3
<1>5. Path[u][j] \in Step /\ Path[v][k] \in Step
  BY StepIs
<1> QED BY <1>4, <1>5 DEF Step

\* What is open once the first d steps of the way to u are.
OpenTo(u, d) ==
  [s \in {Path[u][j].slot : j \in 1 .. d} |-> Path[u][Len(Path[s]) + 1].value]

\* The open map down to a depth holds each step's slot, at its value.
LEMMA OpenToIs ==
  ASSUME NEW u \in Units, NEW d \in 0 .. Len(Path[u])
  PROVE  /\ \A s : s \in DOMAIN OpenTo(u, d) <=> \E j \in 1 .. d : s = Path[u][j].slot
         /\ \A j \in 1 .. d : /\ j \in 1 .. Len(Path[u])
                              /\ Path[u][j].slot \in DOMAIN OpenTo(u, d)
                              /\ OpenTo(u, d)[Path[u][j].slot] = Path[u][j].value
<1>1. Len(Path[u]) \in Nat
  BY GateStep
<1>2. \A j \in 1 .. d : j \in 1 .. Len(Path[u]) /\ j \in Nat
  BY <1>1
<1>3. \A j \in 1 .. d : Len(Path[Path[u][j].slot]) + 1 = j
  <2> TAKE j \in 1 .. d
  <2>1. Len(Path[Path[u][j].slot]) = j - 1
    BY <1>2, StepIs
  <2> QED BY <1>2, <2>1
<1>4. \A j \in 1 .. d : Path[u][j].slot \in DOMAIN OpenTo(u, d)
  BY DEF OpenTo
<1> QED BY <1>2, <1>3, <1>4 DEF OpenTo

\* What is live then has its whole path among those steps.
LEMMA LiveUnderOpenTo ==
  ASSUME NEW u \in Units, NEW d \in 0 .. Len(Path[u]), NEW v \in Units
  PROVE  Live(OpenTo(u, d), v) <=>
           Len(Path[v]) <= d /\ \A j \in 1 .. Len(Path[v]) : Path[v][j] = Path[u][j]
<1>1. /\ Len(Path[u]) \in Nat /\ Len(Path[v]) \in Nat /\ d \in Nat
      /\ DOMAIN Path[v] = 1 .. Len(Path[v])
  BY GateStep
<1>2. ASSUME Live(OpenTo(u, d), v)
      PROVE  Len(Path[v]) <= d /\ \A j \in 1 .. Len(Path[v]) : Path[v][j] = Path[u][j]
  <2>1. ASSUME NEW j \in 1 .. Len(Path[v]) PROVE j \in 1 .. d /\ Path[v][j] = Path[u][j]
    <3>1. /\ Path[v][j].slot \in DOMAIN OpenTo(u, d)
          /\ OpenTo(u, d)[Path[v][j].slot] = Path[v][j].value
      BY <1>1, <1>2 DEF Live
    <3>2. PICK k \in 1 .. d : Path[v][j].slot = Path[u][k].slot
      <4>1. \A s : s \in DOMAIN OpenTo(u, d) => \E l \in 1 .. d : s = Path[u][l].slot
        BY DEF OpenTo
      <4> QED BY <3>1, <4>1, Zenon
    <3>3. k \in 1 .. Len(Path[u]) /\ OpenTo(u, d)[Path[u][k].slot] = Path[u][k].value
      BY OpenToIs
    <3>4. Path[v][j].value = Path[u][k].value
      BY <3>1, <3>2, <3>3
    <3> HIDE DEF OpenTo
    <3>5. j = k /\ Path[v][j] = Path[u][k]
      BY <3>2, <3>3, <3>4, SameStep
    <3> QED BY <3>5
  <2>2. Len(Path[v]) <= d
    <3>1. CASE Len(Path[v]) = 0
      BY <1>1, <3>1
    <3>2. CASE Len(Path[v]) # 0
      <4>1. Len(Path[v]) \in 1 .. Len(Path[v])
        BY <1>1, <3>2
      <4>2. Len(Path[v]) \in 1 .. d
        BY <2>1, <4>1
      <4> QED BY <1>1, <4>2
    <3> QED BY <3>1, <3>2
  <2> QED BY <2>1, <2>2
<1>3. ASSUME Len(Path[v]) <= d, \A j \in 1 .. Len(Path[v]) : Path[v][j] = Path[u][j]
      PROVE  Live(OpenTo(u, d), v)
  <2>1. ASSUME NEW j \in 1 .. Len(Path[v])
        PROVE  /\ Path[v][j].slot \in DOMAIN OpenTo(u, d)
               /\ OpenTo(u, d)[Path[v][j].slot] = Path[v][j].value
    <3>1. j \in 1 .. d
      BY <1>1, <1>3
    <3> QED BY <3>1, <1>3, OpenToIs
  <2> QED BY <1>1, <2>1 DEF Live
<1> QED BY <1>2, <1>3

\* The only instrument that can be in the scan path is the one it leads to.
LEMMA OnlyInstrument ==
  ASSUME NEW i \in Instruments, NEW d \in 0 .. Len(Path[i]), NEW v \in Instruments
  PROVE  Live(OpenTo(i, d), v) <=> v = i /\ d = Len(Path[i])
<1>1. /\ i \in Units /\ v \in Units /\ Nested(i) /\ Nested(v) /\ Slots \cap Instruments = {}
      /\ \A w \in Units : Nested(w) /\ Gate(w) = Gate(v) => w = v
  BY NetworkAssumption DEF ValidPhysicalGraph, Units
<1>2. /\ Len(Path[i]) \in Nat \ {0} /\ Len(Path[v]) \in Nat \ {0}
      /\ Gate(v) = Path[v][Len(Path[v])] /\ d \in Nat
  BY <1>1, GateStep
<1>3. ASSUME Live(OpenTo(i, d), v) PROVE v = i /\ d = Len(Path[i])
  <2> DEFINE L == Len(Path[v])
  <2>1. L \in 1 .. L /\ L <= d /\ \A j \in 1 .. L : Path[v][j] = Path[i][j]
    BY <1>1, <1>2, <1>3, LiveUnderOpenTo
  <2>2. L \in 1 .. Len(Path[i])
    BY <1>2, <2>1
  <2>3. Nested(Ancestor(i, L)) /\ Gate(Ancestor(i, L)) = Path[i][L] /\ Path[i][L] = Gate(v)
    BY <1>1, <1>2, <2>1, <2>2, StepIs
  <2>4. Ancestor(i, L) \in Units
    <3>1. L \in 0 .. Len(Path[i])
      BY <2>2
    <3> QED BY <3>1, <1>1, Ancestors
  <2>5. Ancestor(i, L) = v
    BY <1>1, <2>3, <2>4
  <2>6. L = Len(Path[i])
    <3> SUFFICES ASSUME L # Len(Path[i]) PROVE FALSE
      OBVIOUS
    <3>1. L + 1 \in 1 .. Len(Path[i])
      BY <1>2, <2>2
    <3>2. Ancestor(i, L) = Path[i][L + 1].slot
      BY DEF Ancestor
    <3>3. Ancestor(i, L) \in Slots
      BY <1>1, <3>1, <3>2, StepIs
    <3> QED BY <1>1, <2>5, <3>3
  <2>7. v = i
    BY <2>5, <2>6 DEF Ancestor
  <2> QED BY <1>2, <2>1, <2>6, <2>7
<1>4. ASSUME v = i, d = Len(Path[i]) PROVE Live(OpenTo(i, d), v)
  <2>1. Len(Path[v]) <= d
    BY <1>2, <1>4
  <2> QED BY <1>1, <1>4, <2>1, LiveUnderOpenTo
<1> QED BY <1>3, <1>4

\* Maps that put the same units in the scan path lay them out alike.
LEMMA SameLayout ==
  ASSUME NEW a, NEW b, \A u \in Units : Live(a, u) <=> Live(b, u)
  PROVE  Layout(a) = Layout(b)
<1> DEFINE f(o) == [i \in DOMAIN Order |-> IF Live(o, Order[i]) THEN UnitCells(Order[i]) ELSE << >>]
<1>1. \A i \in DOMAIN Order : Order[i] \in Units
  <2>1. DOMAIN Order = 1 .. N
    BY NetworkAssumption DEF ValidPhysicalGraph, N
  <2> QED BY <2>1, OrderIndex
<1>2. f(a) = f(b)
  BY <1>1
<1> QED BY <1>2 DEF Layout

\* The committed values are the ones of an open map: zero where it names none.
Carries(po, open) == \A s \in Slots : po[s] = IF s \in DOMAIN open THEN open[s] ELSE 0

\* A network that carries an open map lays its cells out as the map does
\* (_live_layout against _target_layout).
LEMMA CarriedLayout ==
  ASSUME NoArmZero, NEW po, DOMAIN po = Latched, NEW open, Carries(po, open)
  PROVE  /\ \A u \in Units : Live(po, u) <=> Live(open, u)
         /\ Layout(po) = Layout(open)
<1>1. ASSUME NEW u \in Units PROVE Live(po, u) <=> Live(open, u)
  <2>1. DOMAIN Path[u] = 1 .. Len(Path[u])
    BY GateStep
  <2>2. ASSUME NEW j \in DOMAIN Path[u]
        PROVE  (Path[u][j].slot \in DOMAIN po /\ po[Path[u][j].slot] = Path[u][j].value)
                 <=> (Path[u][j].slot \in DOMAIN open /\ open[Path[u][j].slot] = Path[u][j].value)
    <3>1. Path[u][j].slot \in Slots /\ Path[u][j].value # 0
      BY <2>1, StepIs, StepNotZero
    <3>2. Path[u][j].slot \in DOMAIN po
      BY <3>1 DEF Latched
    <3> QED BY <3>1, <3>2 DEF Carries
  <2> QED BY <2>2 DEF Live
<1> QED BY <1>1, SameLayout

----------------------------------------------------------------------------
(* A scan of a network whose mux, if it has one, ends the chain.            *)

\* Each place of the layout is a cell in the scan path, in that place only.
LEMMA LayoutCells ==
  ASSUME NEW open, NEW m \in 1 .. Len(Layout(open))
  PROVE  /\ Layout(open)[m] \in Cells /\ Layout(open)[m][1] \in Units
         /\ Live(open, Layout(open)[m][1])
         /\ (CHOOSE n \in DOMAIN Layout(open) : Layout(open)[n] = Layout(open)[m]) = m
<1>1. PICK off : Places(open, off)
  BY PlacesExist
<1>2. PICK u \in Units : /\ Live(open, u)
                         /\ m - off[IndexOf(u) - 1] \in 1 .. Width[u]
                         /\ Layout(open)[m] = UnitCells(u)[m - off[IndexOf(u) - 1]]
  BY <1>1, PlaceUnit
<1>3. PICK j \in 1 .. Width[u] : j = m - off[IndexOf(u) - 1]
  BY <1>2
<1>4. Layout(open)[m] = UnitCells(u)[j]
  BY <1>2, <1>3
<1>5. off[IndexOf(u) - 1] \in Nat
  BY <1>1, <1>2, UnitPlace
<1>6. off[IndexOf(u) - 1] + j = m
  <2>1. Len(Layout(open)) \in Nat
    BY <1>1 DEF Places
  <2> QED BY <1>3, <1>5, <2>1
<1>7. (CHOOSE n \in DOMAIN Layout(open) : Layout(open)[n] = UnitCells(u)[j]) = m
  BY <1>1, <1>2, <1>6, OnePlace
<1>8. UnitCells(u)[j] \in Cells /\ UnitCells(u)[j][1] = u
  <2>1. Width[u] \in Nat \ {0} /\ UnitCells(u)[j] = IF u \in Instruments THEN <<u, j - 1>> ELSE <<u, Width[u] - j>>
    BY CellsOfUnit
  <2>2. j - 1 \in 0 .. Width[u] - 1 /\ Width[u] - j \in 0 .. Width[u] - 1
    BY <2>1
  <2>3. PICK k \in 0 .. Width[u] - 1 : UnitCells(u)[j] = <<u, k>>
    BY <2>1, <2>2
  <2> QED BY <2>3, CellsAre
<1> QED BY <1>2, <1>4, <1>7, <1>8

\* ... and each cell in the scan path has its place.
LEMMA CellPlace ==
  ASSUME NEW open, NEW u \in Units, Live(open, u), NEW k \in 0 .. Width[u] - 1
  PROVE  \E m \in 1 .. Len(Layout(open)) : Layout(open)[m] = <<u, k>>
<1>1. PICK off : Places(open, off)
  BY PlacesExist
<1>2. PICK j \in 1 .. Width[u] : UnitCells(u)[j] = <<u, k>>
  BY CellsOfUnit
<1>3. /\ off[IndexOf(u) - 1] + j \in 1 .. off[N]
      /\ Layout(open)[off[IndexOf(u) - 1] + j] = UnitCells(u)[j]
  BY <1>1, UnitPlace
<1>4. Len(Layout(open)) = off[N]
  BY <1>1 DEF Places
<1> QED BY <1>2, <1>3, <1>4

\* The last unit is a top-level slot.
LEMMA LastInOrder ==
  ASSUME MuxesLast, NEW m \in Muxes
  PROVE  m \in Units /\ N \in Nat \ {0} /\ m = Order[N] /\ IndexOf(m) = N /\ ~Nested(m)
<1>1. m \in Units /\ m = Order[N]
  BY DEF MuxesLast, Slots, Units, N
<1>2. N \in Nat \ {0} /\ IndexOf(m) = N
  <2>1. IndexOf(m) \in 1 .. N /\ N \in Nat
    BY <1>1, OrderIndex
  <2>2. N \in 1 .. N
    BY <2>1
  <2>3. IndexOf(Order[N]) = N
    BY <2>2, OrderIndex
  <2> QED BY <1>1, <2>1, <2>3
<1>3. ~Nested(m)
  <2> SUFFICES ASSUME Nested(m) PROVE FALSE
    OBVIOUS
  <2>1. Gate(m).slot \in Units /\ IndexOf(m) < IndexOf(Gate(m).slot)
    BY <1>1, GateStep
  <2>2. IndexOf(Gate(m).slot) \in 1 .. N
    BY <2>1, OrderIndex
  <2> QED BY <1>2, <2>1, <2>2
<1> QED BY <1>1, <1>2, <1>3

\* So only the last cell of the chain can relay.
LEMMA ReadsOwnCell ==
  ASSUME MuxesLast, NEW po, DOMAIN po = Latched, NEW shift,
         NEW m \in 1 .. Len(Layout(po)), m # Len(Layout(po))
  PROVE  Reading(shift, po, Layout(po))[m] = shift[Layout(po)[m]]
<1>1. PICK off : Places(po, off)
  BY PlacesExist
<1> DEFINE c == Layout(po)[m]
<1>2. ~(c[2] = 0 /\ Matched(po, c[1]))
  <2> SUFFICES ASSUME c[2] = 0, Matched(po, c[1]) PROVE FALSE
    OBVIOUS
  <2>1. m = off[IndexOf(c[1])]
    BY <1>1, RelayPlace
  <2>2. IndexOf(c[1]) = N
    BY LastInOrder DEF Matched
  <2> QED BY <1>1, <2>1, <2>2 DEF Places
<1>3. Reading(shift, po, Layout(po))[m] =
        IF c[2] = 0 /\ Matched(po, c[1])
        THEN Reading(shift, po, Layout(po))[m - Width[c[1]]] ELSE shift[c]
  BY ReadingEquation
<1> HIDE DEF c
<1>4. Reading(shift, po, Layout(po))[m] = shift[c]
  BY <1>2, <1>3
<1> QED BY <1>4 DEF c

\* The place TDO shows: the end of a matched mux's arm, or of the chain.
Relays(po) == \E m \in Muxes : Matched(po, m)
TailPlace(po) == IF Relays(po) THEN Len(Layout(po)) - Width[Order[N]] ELSE Len(Layout(po))

\* TDO shows the last cell, or past a relaying mux the one before its field.
LEMMA TailReads ==
  ASSUME MuxesLast, NEW po, DOMAIN po = Latched, Len(Layout(po)) # 0
  PROVE  /\ TailPlace(po) \in 1 .. Len(Layout(po))
         /\ \A shift : TailBit(shift, po) = shift[Layout(po)[TailPlace(po)]]
<1>1. PICK off : Places(po, off)
  BY PlacesExist
<1> DEFINE n == Len(Layout(po))
<1>2. n \in Nat \ {0} /\ n \in 1 .. n /\ n = off[N]
  BY <1>1 DEF Places
<1>3. \A shift : TailBit(shift, po) = Reading(shift, po, Layout(po))[n]
  BY DEF TailBit
<1>4. CASE ~Relays(po)
  <2>1. TailPlace(po) = n
    BY <1>4 DEF TailPlace
  <2>2. \A shift : Reading(shift, po, Layout(po))[n] = shift[Layout(po)[n]]
    <3> TAKE shift
    <3>1. ~Matched(po, Layout(po)[n][1])
      BY <1>4 DEF Relays, Matched
    <3> QED BY <1>2, <3>1, ReadingEquation
  <2> QED BY <1>2, <1>3, <2>1, <2>2
<1>5. CASE Relays(po)
  <2>1. PICK m \in Muxes : Matched(po, m)
    BY <1>5 DEF Relays
  <2>2. /\ m \in Units /\ m \in Slots /\ m \notin Instruments /\ m = Order[N] /\ IndexOf(m) = N
        /\ ~Nested(m) /\ Live(po, m)
    BY <2>1, LastInOrder, TopUnit DEF Slots
  <2> DEFINE w == Width[m]
  <2>3. /\ w \in Nat \ {0} /\ off[N] = off[N - 1] + w /\ off[N - 1] \in Nat
        /\ \A j \in 1 .. w : Layout(po)[off[N - 1] + j] = UnitCells(m)[j]
    BY <1>1, <2>2, UnitPlace
  <2>4. w \in 1 .. w
    BY <2>3
  <2>5. Layout(po)[n] = <<m, 0>>
    <3>1. UnitCells(m)[w] = <<m, w - w>>
      BY <2>2, <2>4, CellsOfUnit
    <3> QED BY <1>2, <2>3, <2>4, <3>1
  <2>6. TailPlace(po) = n - w
    BY <1>5, <2>2 DEF TailPlace
  <2>7. n - w \in 1 .. n /\ n - w # n
    <3>1. LET v == LastOf(Content(m, po[m])) IN v \in Units /\ Live(po, v) /\ off[N - 1] = off[IndexOf(v)]
      BY <1>1, <2>1, <2>2, SpliceEnd DEF Matched
    <3>2. off[N - 1] \in 1 .. off[N]
      BY <1>1, <3>1, UnitPlace
    <3> QED BY <1>2, <2>3, <3>2
  <2>8. \A shift : Reading(shift, po, Layout(po))[n] = Reading(shift, po, Layout(po))[n - w]
    <3> TAKE shift
    <3> DEFINE c == Layout(po)[n]
    <3>1. Reading(shift, po, Layout(po))[n] =
            IF c[2] = 0 /\ Matched(po, c[1])
            THEN Reading(shift, po, Layout(po))[n - Width[c[1]]] ELSE shift[c]
      BY <1>2, ReadingEquation
    <3>2. c[1] = m /\ c[2] = 0
      BY <2>5
    <3> HIDE DEF c, n
    <3> QED BY <2>1, <3>1, <3>2
  <2>9. \A shift : Reading(shift, po, Layout(po))[n - w] = shift[Layout(po)[n - w]]
    BY <2>7, ReadsOwnCell
  <2> QED BY <1>3, <2>6, <2>7, <2>8, <2>9
<1> QED BY <1>4, <1>5

\* One shift moves every cell of the scan path on by one place.
LEMMA ShiftMoves ==
  ASSUME MuxesLast, NEW po, DOMAIN po = Latched, NEW shift, NEW tdi, NEW m \in 1 .. Len(Layout(po))
  PROVE  Shift(shift, po, tdi)[Layout(po)[m]] = IF m = 1 THEN tdi ELSE shift[Layout(po)[m - 1]]
<1> DEFINE L == Layout(po)
           new == [n \in DOMAIN L |-> IF n = 1 THEN tdi ELSE Reading(shift, po, L)[n - 1]]
<1>1. /\ L[m] \in Cells /\ Live(po, L[m][1])
      /\ (CHOOSE n \in DOMAIN L : L[n] = L[m]) = m
  BY LayoutCells
<1>2. DOMAIN L = 1 .. Len(L) /\ Len(L) \in Nat
  <2>1. PICK off : Places(po, off)
    BY PlacesExist
  <2> QED BY <2>1 DEF Places
<1>3. Shift(shift, po, tdi) =
        [c \in Cells |-> IF Live(po, c[1]) THEN new[CHOOSE n \in DOMAIN L : L[n] = c] ELSE shift[c]]
  BY DEF Shift
<1>4. Shift(shift, po, tdi)[L[m]] = new[m]
  <2> HIDE DEF new, L
  <2> QED BY <1>1, <1>3
<1>5. new[m] = IF m = 1 THEN tdi ELSE Reading(shift, po, L)[m - 1]
  BY <1>2
<1>6. m # 1 => Reading(shift, po, L)[m - 1] = shift[L[m - 1]]
  <2> SUFFICES ASSUME m # 1 PROVE Reading(shift, po, L)[m - 1] = shift[L[m - 1]]
    OBVIOUS
  <2>1. m - 1 \in 1 .. Len(Layout(po)) /\ m - 1 # Len(Layout(po))
    BY <1>2
  <2> QED BY <2>1, ReadsOwnCell
<1> HIDE DEF new, L
<1>7. Shift(shift, po, tdi)[L[m]] = IF m = 1 THEN tdi ELSE shift[L[m - 1]]
  BY <1>4, <1>5, <1>6
<1> QED BY <1>7 DEF L

\* A run of shifts, one per bit: run[k] is the scan after k of them.  What it does
\* to cells off the scan path is left open.
Shifting(po, tdi, run) ==
  /\ run[0].out = << >>
  /\ \A k \in 0 .. Len(tdi) - 1 :
       /\ Agree(po, Shift(run[k].shift, po, tdi[k + 1]), run[k + 1].shift)
       /\ run[k + 1].out = Append(run[k].out, TailBit(run[k].shift, po))

\* The bits fed so far fill the chain from TDI; what it held has moved on by as
\* many places, and TDO has shown what passed the tail, the first bits fed once
\* the chain is through.
Shifted(po, tdi, run, k) ==
  LET L == Layout(po)  start == run[0].shift  p == TailPlace(po) IN
  /\ \A m \in 1 .. Len(L) :
       run[k].shift[L[m]] = IF m <= k THEN tdi[k - m + 1] ELSE start[L[m - k]]
  /\ run[k].out \in Seq({run[k].out[j] : j \in 1 .. k}) /\ Len(run[k].out) = k
  /\ \A j \in 1 .. k : run[k].out[j] = IF j <= p THEN start[L[p - j + 1]] ELSE tdi[j - p]

\* Shifting moves the chain's contents from the front to the tail, one place a
\* bit, however many bits there are.
LEMMA RunMoves ==
  ASSUME MuxesLast, NEW po, DOMAIN po = Latched, Len(Layout(po)) # 0,
         NEW S, NEW tdi \in Seq(S), NEW run, Shifting(po, tdi, run)
  PROVE  \A k \in 0 .. Len(tdi) : Shifted(po, tdi, run, k)
<1> DEFINE L == Layout(po)  n == Len(L)  p == TailPlace(po)  start == run[0].shift
           P == {k \in Nat : k <= Len(tdi) => Shifted(po, tdi, run, k)}
<1>1. n \in Nat \ {0} /\ Len(tdi) \in Nat
  <2>1. PICK off : Places(po, off)
    BY PlacesExist
  <2> QED BY <2>1 DEF Places
<1>2. p \in 1 .. n /\ \A s : TailBit(s, po) = s[L[p]]
  BY TailReads
<1>3. \A s : \A bit : \A m \in 1 .. n :
        Shift(s, po, bit)[L[m]] = IF m = 1 THEN bit ELSE s[L[m - 1]]
  BY ShiftMoves
<1>4. \A m \in 1 .. n : L[m] \in Cells /\ Live(po, L[m][1])
  BY LayoutCells
<1>5. 0 \in P
  <2>1. \A m \in 1 .. n : ~(m <= 0) /\ m - 0 = m
    BY <1>1
  <2>2. run[0].out = << >>
    BY DEF Shifting
  <2>3. run[0].out \in Seq({run[0].out[j] : j \in 1 .. 0}) /\ Len(run[0].out) = 0
    BY <2>2
  <2> HIDE DEF start, p, L
  <2>4. \A m \in 1 .. n : run[0].shift[L[m]] = IF m <= 0 THEN tdi[0 - m + 1] ELSE start[L[m - 0]]
    BY <2>1 DEF start
  <2>5. Shifted(po, tdi, run, 0)
    BY <2>3, <2>4 DEF Shifted, start, p, L
  <2> QED BY <2>5
<1>6. ASSUME NEW k \in Nat, k \in P PROVE k + 1 \in P
  <2> SUFFICES ASSUME k + 1 <= Len(tdi) PROVE Shifted(po, tdi, run, k + 1)
    OBVIOUS
  <2> DEFINE a == run[k]  b == run[k + 1]  bit == tdi[k + 1]
  <2>1. k <= Len(tdi) /\ k \in 0 .. Len(tdi) - 1 /\ k + 1 \in 1 .. Len(tdi)
    BY <1>1
  <2>2. /\ Agree(po, Shift(a.shift, po, bit), b.shift)
        /\ b.out = Append(a.out, a.shift[L[p]])
    BY <1>2, <2>1 DEF Shifting
  <2>3. Shifted(po, tdi, run, k)
    BY <1>6, <2>1
  <2> HIDE DEF start, p, L
  <2>4. /\ \A m \in 1 .. n : a.shift[L[m]] = IF m <= k THEN tdi[k - m + 1] ELSE start[L[m - k]]
        /\ a.out \in Seq({a.out[j] : j \in 1 .. k}) /\ Len(a.out) = k
        /\ \A j \in 1 .. k : a.out[j] = IF j <= p THEN start[L[p - j + 1]] ELSE tdi[j - p]
    BY <2>3 DEF Shifted, L, p, start
  <2>5. \A m \in 1 .. n : b.shift[L[m]] = IF m = 1 THEN bit ELSE a.shift[L[m - 1]]
    BY <1>3, <1>4, <2>2 DEF Agree
  <2> HIDE DEF a, b, bit
  <2>6. ASSUME NEW m \in 1 .. n
        PROVE  b.shift[L[m]] = IF m <= k + 1 THEN tdi[(k + 1) - m + 1] ELSE start[L[m - (k + 1)]]
    <3>1. CASE m = 1
      <4>1. m <= k + 1 /\ (k + 1) - m + 1 = k + 1
        BY <3>1
      <4> QED BY <2>5, <3>1, <4>1 DEF bit
    <3>2. CASE m # 1
      <4>1. /\ m - 1 \in 1 .. n /\ (m - 1 <= k <=> m <= k + 1)
            /\ k - (m - 1) + 1 = (k + 1) - m + 1 /\ (m - 1) - k = m - (k + 1)
        BY <1>1, <3>2
      <4>2. a.shift[L[m - 1]] = IF m - 1 <= k THEN tdi[k - (m - 1) + 1] ELSE start[L[(m - 1) - k]]
        BY <2>4, <4>1
      <4> QED BY <2>5, <3>2, <4>1, <4>2
    <3> QED BY <3>1, <3>2
  <2>7. /\ b.out \in Seq({b.out[j] : j \in 1 .. k + 1}) /\ Len(b.out) = k + 1
        /\ b.out[k + 1] = a.shift[L[p]] /\ \A j \in 1 .. k : b.out[j] = a.out[j]
    <3> DEFINE A == {a.out[j] : j \in 1 .. k} \cup {a.shift[L[p]]}
    <3>1. a.out \in Seq(A) /\ a.shift[L[p]] \in A
      BY <2>4
    <3> HIDE DEF A
    <3>2. /\ b.out \in Seq(A) /\ Len(b.out) = k + 1 /\ b.out[k + 1] = a.shift[L[p]]
          /\ \A j \in 1 .. k : b.out[j] = a.out[j]
      BY <2>2, <2>4, <3>1
    <3>3. b.out \in Seq({b.out[j] : j \in 1 .. k + 1})
      BY <3>2
    <3> QED BY <3>2, <3>3
  <2>8. ASSUME NEW j \in 1 .. k + 1
        PROVE  b.out[j] = IF j <= p THEN start[L[p - j + 1]] ELSE tdi[j - p]
    <3>1. CASE j # k + 1
      <4>1. j \in 1 .. k
        BY <3>1
      <4> QED BY <2>4, <2>7, <4>1
    <3>2. CASE j = k + 1
      <4>1. /\ p \in 1 .. n /\ p \in Nat /\ (p <= k <=> ~(j <= p))
            /\ k - p + 1 = j - p /\ p - j + 1 = p - k
        BY <1>1, <1>2, <3>2
      <4>2. a.shift[L[p]] = IF p <= k THEN tdi[k - p + 1] ELSE start[L[p - k]]
        BY <2>4, <4>1
      <4> QED BY <2>7, <3>2, <4>1, <4>2
    <3> QED BY <3>1, <3>2
  <2>9. Shifted(po, tdi, run, k + 1)
    BY <2>6, <2>7, <2>8 DEF Shifted, L, p, start, b
  <2> QED BY <2>9
<1>7. Nat \subseteq P
  <2> HIDE DEF P
  <2> QED BY <1>5, <1>6, Induction
<1> QED BY <1>1, <1>7

ShiftBase(from) == [shift |-> from.shift, out |-> << >>]
ShiftStep(from, scan, bit) ==
  [shift |-> Shift(scan.shift, from.po, bit),
   out |-> Append(scan.out, TailBit(scan.shift, from.po))]

ShiftFold == INSTANCE InductionLemmas WITH FoldBase <- ShiftBase, FoldStep <- ShiftStep

\* The register's shifts are such a run.
LEMMA ShiftsRun ==
  ASSUME NEW from, NEW S, NEW tdi \in Seq(S)
  PROVE  \E run : /\ Shifting(from.po, tdi, run)
                  /\ run[0].shift = from.shift /\ run[Len(tdi)] = Shifts(from, tdi)
<1> DEFINE n == Len(tdi)
           run == [k \in 0 .. n |-> Shifts(from, SubSeq(tdi, 1, k))]
<1>1. n \in Nat /\ SubSeq(tdi, 1, 0) = << >> /\ SubSeq(tdi, 1, n) = tdi
  OBVIOUS
<1>2. \A t : Shifts(from, t) = ShiftFold!Fold(from, t)
  BY DEF Shifts, ShiftBase, ShiftStep, ShiftFold!Fold, FoldLeft, ShiftFold!FoldLeft,
         MapThenFoldSet, ShiftFold!MapThenFoldSet, Max, ShiftFold!Max
<1>3. Shifts(from, << >>) = ShiftBase(from)
  BY <1>2, ShiftFold!FoldEmpty
<1>4. ASSUME NEW q \in Seq(S), NEW bit \in S
      PROVE  Shifts(from, Append(q, bit)) = ShiftStep(from, Shifts(from, q), bit)
  BY <1>2, ShiftFold!FoldAppend
<1>5. ASSUME NEW k \in 0 .. n - 1
      PROVE  run[k + 1] = ShiftStep(from, run[k], tdi[k + 1])
  <2> DEFINE q == SubSeq(tdi, 1, k)  bit == tdi[k + 1]
  <2>1. /\ q \in Seq(S) /\ bit \in S /\ SubSeq(tdi, 1, k + 1) = Append(q, bit)
        /\ k \in 0 .. n /\ k + 1 \in 0 .. n
    OBVIOUS
  <2>2. run[k + 1] = Shifts(from, Append(q, bit)) /\ run[k] = Shifts(from, q)
    BY <2>1
  <2> HIDE DEF q, bit, run
  <2>3. run[k + 1] = ShiftStep(from, run[k], bit)
    BY <1>4, <2>1, <2>2
  <2> QED BY <2>3 DEF bit
<1>6. run[0] = ShiftBase(from) /\ run[n] = Shifts(from, tdi)
  <2>1. 0 \in 0 .. n /\ n \in 0 .. n
    BY <1>1
  <2> HIDE DEF n
  <2> QED BY <1>1, <1>3, <2>1
<1> HIDE DEF run
<1>7. run[0].out = << >> /\ run[0].shift = from.shift
  BY <1>6 DEF ShiftBase
<1>8. ASSUME NEW k \in 0 .. Len(tdi) - 1
      PROVE  /\ Agree(from.po, Shift(run[k].shift, from.po, tdi[k + 1]), run[k + 1].shift)
             /\ run[k + 1].out = Append(run[k].out, TailBit(run[k].shift, from.po))
  <2>1. run[k + 1] = ShiftStep(from, run[k], tdi[k + 1])
    BY <1>5
  <2>2. /\ run[k + 1].shift = Shift(run[k].shift, from.po, tdi[k + 1])
        /\ run[k + 1].out = Append(run[k].out, TailBit(run[k].shift, from.po))
    BY <2>1 DEF ShiftStep
  <2> QED BY <2>2, Zenon DEF Agree
<1>9. Shifting(from.po, tdi, run)
  BY <1>7, <1>8 DEF Shifting
<1> QED BY <1>6, <1>7, <1>9

\* The bits fed so far fill the chain from TDI; what was captured has moved on
\* by as many places, and TDO has shown what passed the tail.
Moved(from, tdi, scan, k) ==
  LET L == Layout(from.po)
      start == Capture(from.shift, from.po)
      p == TailPlace(from.po)
  IN  /\ \A m \in 1 .. Len(L) :
           scan.shift[L[m]] = IF m <= k THEN tdi[k - m + 1] ELSE start[L[m - k]]
      /\ scan.out \in Seq({scan.out[j] : j \in 1 .. k}) /\ Len(scan.out) = k
      /\ \A j \in 1 .. k : j <= p => scan.out[j] = start[L[p - j + 1]]

\* A scan shifts its bits in from the front and the captured ones out at the
\* tail, one place per bit.
LEMMA ScanMoves ==
  ASSUME MuxesLast, NEW from, DOMAIN from.po = Latched, NEW S, NEW tdi \in Seq(S),
         Len(Layout(from.po)) # 0, Len(tdi) <= Len(Layout(from.po))
  PROVE  Moved(from, tdi, Scanned(from, tdi), Len(tdi))
<1> DEFINE start == [shift |-> Capture(from.shift, from.po), po |-> from.po]
           L == Layout(from.po)  p == TailPlace(from.po)  c == Capture(from.shift, from.po)
<1>1. Scanned(from, tdi) = Shifts(start, tdi) /\ start.po = from.po /\ start.shift = c
  BY DEF Scanned
<1> HIDE DEF start
<1>2. PICK run : /\ Shifting(start.po, tdi, run)
                 /\ run[0].shift = start.shift /\ run[Len(tdi)] = Shifts(start, tdi)
  BY ShiftsRun
<1>3. Len(tdi) \in Nat /\ Len(tdi) \in 0 .. Len(tdi)
  OBVIOUS
<1>4. Shifted(from.po, tdi, run, Len(tdi))
  BY <1>1, <1>2, <1>3, RunMoves
<1> DEFINE n == Len(tdi)
<1> HIDE DEF n, c
<1>5. /\ \A m \in 1 .. Len(L) : run[n].shift[L[m]] = IF m <= n THEN tdi[n - m + 1] ELSE c[L[m - n]]
      /\ run[n].out \in Seq({run[n].out[j] : j \in 1 .. n}) /\ Len(run[n].out) = n
      /\ \A j \in 1 .. n : run[n].out[j] = IF j <= p THEN c[L[p - j + 1]] ELSE tdi[j - p]
  BY <1>1, <1>2, <1>4 DEF Shifted, n
<1> HIDE DEF L, p
<1>6. Moved(from, tdi, run[n], n)
  BY <1>5 DEF Moved, L, p, c
<1> QED BY <1>1, <1>2, <1>6 DEF n

----------------------------------------------------------------------------
(* What is sent: as many bits as the chain has cells, of the right values.  *)

WidthTerm(p, u) == Width[u]
WidthSum == INSTANCE InductionLemmas WITH SumTerm <- WidthTerm

\* layout_bit_length counts the cells of the layout.
LEMMA LayoutLength ==
  ASSUME NEW open
  PROVE  layout_bit_length(open) = Len(Layout(open)) /\ Len(Layout(open)) \in Nat
<1> DEFINE On(i) == {u \in Units : Live(open, u) /\ IndexOf(u) <= i}
           S(i) == WidthSum!SetSum(0, On(i))
<1>1. PICK off : Places(open, off)
  BY PlacesExist
<1>2. N \in Nat
  BY OrderIndex
<1>3. \A i : IsFiniteSet(On(i)) /\ \A u \in On(i) : WidthTerm(0, u) \in Nat
  <2>1. IsFiniteSet(Units)
    <3>1. IsFiniteSet(1 .. N)
      BY <1>2, FS_Interval
    <3> DEFINE f == [i \in 1 .. N |-> Order[i]]
    <3>2. f \in Surjection(1 .. N, Units)
      BY OrderIndex DEF Surjection
    <3> HIDE DEF f
    <3> QED BY <3>1, <3>2, FS_Surjection
  <2>2. \A i : On(i) \subseteq Units
    OBVIOUS
  <2>3. \A u \in Units : WidthTerm(0, u) \in Nat
    BY CellsOfUnit DEF WidthTerm
  <2> HIDE DEF On
  <2> QED BY <2>1, <2>2, <2>3, FS_Subset
<1> DEFINE P == {i \in Nat : i <= N => off[i] = S(i)}
<1>4. 0 \in P
  <2>1. On(0) = {}
    <3>1. \A u \in Units : ~(IndexOf(u) <= 0)
      BY <1>2, OrderIndex
    <3> QED BY <3>1
  <2>2. WidthSum!SetSum(0, {}) = 0
    BY WidthSum!SumNone
  <2>3. off[0] = 0
    BY <1>1 DEF Places
  <2> QED BY <2>1, <2>2, <2>3
<1>5. ASSUME NEW i \in Nat, i \in P PROVE i + 1 \in P
  <2> SUFFICES ASSUME i + 1 <= N PROVE off[i + 1] = S(i + 1)
    OBVIOUS
  <2> DEFINE u == Order[i + 1]
  <2>1. /\ i + 1 \in 1 .. N /\ (i + 1) - 1 = i /\ i <= N /\ off[i] = S(i)
    BY <1>2, <1>5
  <2>2. u \in Units /\ IndexOf(u) = i + 1 /\ \A v \in Units : IndexOf(v) = i + 1 => v = u
    BY <2>1, OrderIndex
  <2>3. \A v \in Units : IndexOf(v) \in Nat
    BY OrderIndex
  <2> HIDE DEF u
  <2>4. CASE Live(open, u)
    <3>1. u \in On(i + 1) /\ On(i + 1) \ {u} = On(i)
      BY <2>2, <2>3, <2>4
    <3> HIDE DEF On
    <3>2. WidthSum!SetSum(0, On(i + 1)) = WidthTerm(0, u) + WidthSum!SetSum(0, On(i + 1) \ {u})
      <4>1. /\ IsFiniteSet(On(i + 1)) /\ \A y \in On(i + 1) : WidthTerm(0, y) \in Nat
            /\ u \in On(i + 1)
        BY <1>3, <3>1
      <4>2. WidthSum!IsFiniteSet(On(i + 1))
        BY <4>1 DEF IsFiniteSet, WidthSum!IsFiniteSet
      <4> QED BY <4>1, <4>2, WidthSum!SumOne
    <3>3. S(i + 1) = Width[u] + S(i)
      BY <3>1, <3>2 DEF WidthTerm
    <3>4. off[i + 1] = off[i] + Width[u]
      BY <1>1, <2>1, <2>4 DEF Places, u
    <3>5. off[i] \in Nat /\ Width[u] \in Nat
      <4>1. i \in 0 .. N
        BY <1>2, <2>1
      <4> QED BY <1>1, <2>2, <4>1, CellsOfUnit DEF Places
    <3> QED BY <2>1, <3>3, <3>4, <3>5
  <2>5. CASE ~Live(open, u)
    <3>1. On(i + 1) = On(i)
      BY <2>2, <2>3, <2>5
    <3>2. off[i + 1] = off[i]
      BY <1>1, <2>1, <2>5 DEF Places, u
    <3> QED BY <2>1, <3>1, <3>2
  <2> QED BY <2>4, <2>5
<1>6. off[N] = S(N)
  <2> HIDE DEF P
  <2>1. Nat \subseteq P
    BY <1>4, <1>5, Induction
  <2> QED BY <1>2, <2>1 DEF P
<1>7. On(N) = {u \in Units : Live(open, u)}
  <2>1. \A u \in Units : IndexOf(u) <= N
    BY <1>2, OrderIndex
  <2> QED BY <2>1
<1>8. \A T : WidthSum!SetSum(0, T) = MapThenSumSet(LAMBDA u : Width[u], T)
  BY DEF WidthSum!SetSum, WidthTerm, MapThenSumSet, WidthSum!MapThenSumSet, MapThenFoldSet,
         WidthSum!MapThenFoldSet
<1>9. layout_bit_length(open) = S(N)
  <2> HIDE DEF On
  <2> QED BY <1>7, <1>8 DEF layout_bit_length
<1>10. Len(Layout(open)) = off[N] /\ off[N] \in Nat
  BY <1>1, <1>2 DEF Places
<1> QED BY <1>6, <1>9, <1>10

BitTerm(bits, k) == bits[k] * Pow2[k]
BitSum == INSTANCE InductionLemmas WITH SumTerm <- BitTerm

\* The number a field holds once it is sent a value bit by bit.
LEMMA NumberOfBits ==
  ASSUME NEW v \in Nat, NEW w \in Nat
  PROVE  Number([k \in 0 .. w - 1 |-> Bit(v, k)]) = v % Pow2[w]
<1> DEFINE f == [k \in 0 .. w - 1 |-> Bit(v, k)]
           S(j) == BitSum!SetSum(f, 0 .. j - 1)
           P == {j \in Nat : j <= w => S(j) = v % Pow2[j]}
<1>1. \A j \in Nat : j <= w => IsFiniteSet(0 .. j - 1) /\ \A k \in 0 .. j - 1 : BitTerm(f, k) \in Nat
  <2> TAKE j \in Nat
  <2> HAVE j <= w
  <2>1. ASSUME NEW k \in 0 .. j - 1 PROVE BitTerm(f, k) \in Nat
    <3>1. k \in 0 .. w - 1 /\ k \in Nat
      OBVIOUS
    <3>2. f[k] = Bit(v, k) /\ Bit(v, k) \in {0, 1} /\ Pow2[k] \in Nat
      BY <3>1, BitIs, Pow2Is
    <3> HIDE DEF f
    <3>3. f[k] = 0 \/ f[k] = 1
      BY <3>2
    <3> QED BY <3>2, <3>3 DEF BitTerm
  <2>2. IsFiniteSet(0 .. j - 1)
    <3>1. 0 \in Int /\ j - 1 \in Int
      OBVIOUS
    <3> QED BY <3>1, FS_Interval
  <2> QED BY <2>1, <2>2
<1>2. 0 \in P
  <2>1. 0 .. 0 - 1 = {}
    OBVIOUS
  <2>2. BitSum!SetSum(f, {}) = 0
    <3> HIDE DEF f
    <3> QED BY BitSum!SumNone
  <2>3. v % 1 = 0
    OBVIOUS
  <2>4. S(0) = v % Pow2[0]
    <3> HIDE DEF f
    <3> QED BY <2>1, <2>2, <2>3, Pow2Is
  <2> QED BY <2>4
<1>3. ASSUME NEW j \in Nat, j \in P PROVE j + 1 \in P
  <2> SUFFICES ASSUME j + 1 <= w PROVE S(j + 1) = v % Pow2[j + 1]
    OBVIOUS
  <2>1. (j + 1) - 1 = j /\ j \in 0 .. j /\ (0 .. j) \ {j} = 0 .. j - 1 /\ j \in 0 .. w - 1
    OBVIOUS
  <2>2. f[j] = Bit(v, j)
    BY <2>1
  <2>3. S(j) = v % Pow2[j]
    BY <1>3
  <2> HIDE DEF f
  <2>4. \A x \in 0 .. (j + 1) - 1 :
          S(j + 1) = BitTerm(f, x) + BitSum!SetSum(f, (0 .. (j + 1) - 1) \ {x})
    <3>1. /\ IsFiniteSet(0 .. (j + 1) - 1)
          /\ \A k \in 0 .. (j + 1) - 1 : BitTerm(f, k) \in Nat
      <4>1. j + 1 \in Nat
        OBVIOUS
      <4> QED BY <1>1, <4>1
    <3> DEFINE T == 0 .. (j + 1) - 1
    <3> HIDE DEF T
    <3>2. \A x \in T : BitSum!SetSum(f, T) = BitTerm(f, x) + BitSum!SetSum(f, T \ {x})
      <4> TAKE x \in T
      <4>1. IsFiniteSet(T) /\ \A y \in T : BitTerm(f, y) \in Nat
        BY <3>1 DEF T
      <4>2. BitSum!IsFiniteSet(T)
        BY <4>1 DEF IsFiniteSet, BitSum!IsFiniteSet
      <4> QED BY <4>1, <4>2, BitSum!SumOne
    <3> QED BY <3>2 DEF T
  <2>5. S(j + 1) = BitTerm(f, j) + S(j)
    BY <2>1, <2>4
  <2>6. v % Pow2[j + 1] = Bit(v, j) * Pow2[j] + (v % Pow2[j])
    BY OneMoreBit
  <2> QED BY <2>2, <2>3, <2>5, <2>6 DEF BitTerm
<1>4. S(w) = v % Pow2[w]
  <2> HIDE DEF P
  <2>1. Nat \subseteq P
    BY <1>2, <1>3, Induction
  <2>2. w \in P /\ w <= w
    BY <2>1
  <2> QED BY <2>2 DEF P
<1>5. DOMAIN f = 0 .. w - 1
  OBVIOUS
<1> HIDE DEF f
<1>6. Number(f) = BitSum!SetSum(f, DOMAIN f)
  BY DEF Number, BitSum!SetSum, BitTerm, MapThenSumSet, BitSum!MapThenSumSet, MapThenFoldSet,
         BitSum!MapThenFoldSet
<1>7. Number(f) = v % Pow2[w]
  BY <1>4, <1>5, <1>6
<1> QED BY <1>7 DEF f

\* The number a unit's cells are sent: zero unless it is named.
Sent(open_after, target_sib, payload_value, u) ==
  IF u \in Slots THEN IF u \in DOMAIN open_after THEN open_after[u] ELSE 0
  ELSE IF Gate(u).slot = target_sib THEN payload_value ELSE 0

\* The bits composed for a layout, and the order they are fed in.
SendsEach(a, b, target, v) ==
  LET bits == compose_bits(a, b, target, v)
      n == Len(Layout(a))
  IN  /\ bits \in Seq({0, 1}) /\ Len(bits) = n
      /\ Reverse(bits) \in Seq({0, 1}) /\ Len(Reverse(bits)) = n
      /\ \A m \in 1 .. n : Reverse(bits)[n - m + 1] = bits[m]
      /\ \A m \in 1 .. n : \A u \in Units : \A k \in Nat :
           Layout(a)[m] = <<u, k>> => bits[m] = Bit(Sent(b, target, v, u), k)

\* A composed scan sends each live slot its own field and each target its
\* payload's (compose_bits).
LEMMA ComposedBits ==
  ASSUME NEW a, NEW b, NEW target, NEW v \in Nat, \A s \in DOMAIN b : b[s] \in Nat
  PROVE  SendsEach(a, b, target, v)
<1> DEFINE L == Layout(a)  n == Len(L)  bits == compose_bits(a, b, target, v)
           BitOf(c) ==
             CASE c[1] \in Slots -> IF c[1] \in DOMAIN b THEN Bit(b[c[1]], c[2]) ELSE 0
               [] c[1] \in Instruments -> IF Gate(c[1]).slot = target THEN Bit(v, c[2]) ELSE 0
<1>1. n \in Nat /\ DOMAIN L = 1 .. n
  <2>1. PICK off : Places(a, off)
    BY PlacesExist
  <2> QED BY <2>1 DEF Places
<1>2. bits = [m \in 1 .. n |-> BitOf(L[m])]
  BY <1>1 DEF compose_bits
<1>3. Slots \cap Instruments = {} /\ Units = Slots \cup Instruments
  BY NetworkAssumption DEF ValidPhysicalGraph, Units
<1>4. \A k \in Nat : Bit(0, k) = 0
  <2> TAKE k \in Nat
  <2>1. PICK p \in Nat \ {0} : p = Pow2[k]
    BY Pow2Is
  <2>2. 0 = p * 0 + 0 /\ 0 \in 0 .. p - 1
    OBVIOUS
  <2>3. 0 \div p = 0
    BY <2>2, DivModUnique
  <2> QED BY <2>1, <2>3 DEF Bit
<1>5. ASSUME NEW u \in Units, NEW k \in Nat
      PROVE  BitOf(<<u, k>>) = Bit(Sent(b, target, v, u), k) /\ BitOf(<<u, k>>) \in {0, 1}
  <2>1. <<u, k>>[1] = u /\ <<u, k>>[2] = k
    OBVIOUS
  <2>2. CASE u \in Slots
    <3>1. BitOf(<<u, k>>) = IF u \in DOMAIN b THEN Bit(b[u], k) ELSE 0
      BY <1>3, <2>1, <2>2
    <3>2. CASE u \in DOMAIN b
      BY <2>2, <3>1, <3>2, BitIs DEF Sent
    <3>3. CASE u \notin DOMAIN b
      BY <1>4, <2>2, <3>1, <3>3 DEF Sent
    <3> QED BY <3>2, <3>3
  <2>3. CASE u \notin Slots
    <3>0. u \in Instruments
      BY <1>3, <2>3
    <3>1. BitOf(<<u, k>>) = IF Gate(u).slot = target THEN Bit(v, k) ELSE 0
      BY <2>1, <2>3, <3>0
    <3>2. CASE Gate(u).slot = target
      BY <2>3, <3>1, <3>2, BitIs DEF Sent
    <3>3. CASE Gate(u).slot # target
      BY <1>4, <2>3, <3>1, <3>3 DEF Sent
    <3> QED BY <3>2, <3>3
  <2> QED BY <2>2, <2>3
<1> HIDE DEF BitOf
<1>6. ASSUME NEW m \in 1 .. n PROVE bits[m] \in {0, 1}
  <2>1. L[m] \in Cells
    BY LayoutCells
  <2>2. PICK u \in Units : \E k \in 0 .. Width[u] - 1 : L[m] = <<u, k>>
    BY <2>1, CellsAre
  <2>3. PICK k \in 0 .. Width[u] - 1 : L[m] = <<u, k>>
    BY <2>2
  <2>4. k \in Nat
    OBVIOUS
  <2> HIDE DEF L, bits
  <2> QED BY <1>2, <1>5, <2>3, <2>4
<1>7. ASSUME NEW m \in 1 .. n, NEW u \in Units, NEW k \in Nat, L[m] = <<u, k>>
      PROVE  bits[m] = Bit(Sent(b, target, v, u), k)
  <2> HIDE DEF L, bits
  <2> QED BY <1>2, <1>5, <1>7
<1> HIDE DEF bits, L
<1>8. bits \in Seq({0, 1}) /\ Len(bits) = n
  BY <1>1, <1>2, <1>6
<1>9. /\ Reverse(bits) = [j \in 1 .. n |-> bits[(n - j) + 1]]
      /\ Reverse(bits) \in Seq({0, 1}) /\ Len(Reverse(bits)) = n
  <2>1. Reverse(bits) = [j \in 1 .. n |-> bits[(n - j) + 1]]
    BY <1>8 DEF Reverse
  <2>2. \A j \in 1 .. n : (n - j) + 1 \in 1 .. n
    BY <1>1
  <2> DEFINE r == [j \in 1 .. n |-> bits[(n - j) + 1]]
  <2>3. r \in Seq({0, 1}) /\ Len(r) = n
    BY <1>1, <1>6, <2>2
  <2> QED BY <2>1, <2>3
<1>10. ASSUME NEW m \in 1 .. n PROVE Reverse(bits)[n - m + 1] = bits[m]
  <2>1. n - m + 1 \in 1 .. n /\ (n - (n - m + 1)) + 1 = m
    BY <1>1
  <2> QED BY <1>9, <2>1
<1> QED BY <1>7, <1>8, <1>9, <1>10 DEF bits, L, SendsEach

\* The cells hold the bits composed for them.
Loaded(shift, a, b, target, v) ==
  \A m \in 1 .. Len(Layout(a)) : shift[Layout(a)[m]] = compose_bits(a, b, target, v)[m]

\* Then they hold each unit's number.
LEMMA LoadedUnits ==
  ASSUME NEW a, NEW b, NEW target, NEW v \in Nat, \A s \in DOMAIN b : b[s] \in Nat,
         NEW shift, Loaded(shift, a, b, target, v), NEW u \in Units, Live(a, u)
  PROVE  ValueOf(shift, u) = Sent(b, target, v, u) % Pow2[Width[u]]
<1> DEFINE L == Layout(a)  n == Len(L)  bits == compose_bits(a, b, target, v)
           w == Width[u]  x == Sent(b, target, v, u)
<1>1. \A m \in 1 .. n : \A k \in Nat : L[m] = <<u, k>> => bits[m] = Bit(x, k)
  <2>1. SendsEach(a, b, target, v)
    BY ComposedBits
  <2> QED BY <2>1 DEF SendsEach
<1>2. w \in Nat /\ x \in Nat
  <2>1. w \in Nat
    BY CellsOfUnit
  <2>2. x \in Nat
    BY DEF Sent
  <2> QED BY <2>1, <2>2
<1>3. ASSUME NEW k \in 0 .. w - 1 PROVE shift[<<u, k>>] = Bit(x, k)
  <2>1. PICK m \in 1 .. n : L[m] = <<u, k>>
    BY CellPlace
  <2>2. k \in Nat
    OBVIOUS
  <2>3. shift[L[m]] = bits[m]
    BY DEF Loaded
  <2> HIDE DEF x, bits, L
  <2> QED BY <1>1, <2>1, <2>2, <2>3
<1> HIDE DEF x, bits, L
<1>4. [k \in 0 .. w - 1 |-> shift[<<u, k>>]] = [k \in 0 .. w - 1 |-> Bit(x, k)]
  BY <1>3
<1>5. Number([k \in 0 .. w - 1 |-> Bit(x, k)]) = x % Pow2[w]
  <2> HIDE DEF w
  <2> QED BY <1>2, NumberOfBits
<1> QED BY <1>4, <1>5 DEF ValueOf, x

\* Such a scan leaves in every unit of the path the number it was sent.
LEMMA ComposedScan ==
  ASSUME MuxesLast, NoArmZero, NEW from, DOMAIN from.po = Latched,
         NEW a, Carries(from.po, a), Len(Layout(a)) # 0,
         NEW b, NEW target, NEW v \in Nat, \A s \in DOMAIN b : b[s] \in Nat
  PROVE  LET tdi == Reverse(compose_bits(a, b, target, v)) IN
         /\ Len(tdi) = Len(Layout(from.po))
         /\ Moved(from, tdi, Scanned(from, tdi), Len(tdi))
         /\ \A u \in Units : Live(a, u) =>
              ValueOf(Scanned(from, tdi).shift, u) = Sent(b, target, v, u) % Pow2[Width[u]]
<1> DEFINE L == Layout(a)  n == Len(L)
           bits == compose_bits(a, b, target, v)
           tdi == Reverse(bits)
           scan == Scanned(from, tdi)
           start == Capture(from.shift, from.po)
<1>1. Layout(from.po) = L /\ \A u \in Units : Live(from.po, u) <=> Live(a, u)
  BY CarriedLayout
<1>2. /\ bits \in Seq({0, 1}) /\ Len(bits) = n
      /\ tdi \in Seq({0, 1}) /\ Len(tdi) = n
      /\ \A m \in 1 .. n : tdi[n - m + 1] = bits[m]
      /\ \A m \in 1 .. n : \A u \in Units : \A k \in Nat :
           L[m] = <<u, k>> => bits[m] = Bit(Sent(b, target, v, u), k)
  <2>1. SendsEach(a, b, target, v)
    BY ComposedBits
  <2> QED BY <2>1 DEF SendsEach
<1>3. n \in Nat
  BY LayoutLength
<1>4. Moved(from, tdi, scan, n)
  <2>1. tdi \in Seq({0, 1}) /\ Len(Layout(from.po)) # 0 /\ Len(tdi) <= Len(Layout(from.po))
    BY <1>1, <1>2, <1>3
  <2> HIDE DEF tdi
  <2>2. Moved(from, tdi, Scanned(from, tdi), Len(tdi))
    BY <2>1, ScanMoves
  <2> QED BY <1>2, <2>2
<1>5. \A m \in 1 .. n : scan.shift[L[m]] = bits[m]
  <2> HIDE DEF scan, tdi, bits, L
  <2>1. \A m \in 1 .. n :
          scan.shift[L[m]] = IF m <= n THEN tdi[n - m + 1] ELSE Capture(from.shift, from.po)[L[m - n]]
    BY <1>1, <1>4 DEF Moved
  <2>2. \A m \in 1 .. n : m <= n
    BY <1>3
  <2> QED BY <1>2, <2>1, <2>2
<1> HIDE DEF scan, tdi, bits, L
<1>6. ASSUME NEW u \in Units, Live(a, u)
      PROVE  ValueOf(scan.shift, u) = Sent(b, target, v, u) % Pow2[Width[u]]
  <2>1. Loaded(scan.shift, a, b, target, v)
    BY <1>5 DEF Loaded, L, bits
  <2> QED BY <1>6, <2>1, LoadedUnits
<1>7. Moved(from, tdi, scan, Len(tdi)) /\ Len(tdi) = Len(Layout(from.po))
  BY <1>1, <1>2, <1>4
<1> QED BY <1>6, <1>7 DEF scan, tdi, bits

----------------------------------------------------------------------------
(* The scans of iApply: what each of them commits.                          *)

\* A chain with an instrument on it is not empty.
LEMMA ChainNotEmpty ==
  ASSUME NEW i \in Instruments, NEW open
  PROVE  Len(Layout(open)) # 0
<1> DEFINE s == Path[i][1].slot
<1>1. i \in Units /\ Nested(i)
  BY NetworkAssumption DEF ValidPhysicalGraph, Units
<1>2. 1 \in 1 .. Len(Path[i])
  BY <1>1, GateStep
<1>3. s \in Units /\ Len(Path[s]) = 1 - 1
  BY <1>1, <1>2, StepIs
<1> HIDE DEF s
<1>4. Live(open, s)
  BY <1>3, TopUnit, GateStep
<1>5. 0 \in 0 .. Width[s] - 1
  BY <1>3, CellsOfUnit
<1>6. PICK m \in 1 .. Len(Layout(open)) : Layout(open)[m] = <<s, 0>>
  BY <1>3, <1>4, <1>5, CellPlace
<1> QED BY <1>6

\* A number that fits its field is sent whole.
LEMMA FitsField ==
  ASSUME NEW w \in Nat, NEW x \in 0 .. Pow2[w] - 1
  PROVE  x % Pow2[w] = x
<1>1. PICK p \in Nat \ {0} : p = Pow2[w]
  BY Pow2Is
<1>2. x \in 0 .. p - 1 /\ x = p * 0 + x
  BY <1>1
<1>3. (p * 0 + x) % p = x
  BY <1>2, DivModUnique
<1> QED BY <1>1, <1>2, <1>3

\* The values a path opens are numbers that fit.
LEMMA OpenValues ==
  ASSUME NEW i \in Units, NEW e \in 0 .. Len(Path[i])
  PROVE  \A s \in DOMAIN OpenTo(i, e) :
           /\ s \in Slots /\ OpenTo(i, e)[s] \in Nat
           /\ OpenTo(i, e)[s] % Pow2[Width[s]] = OpenTo(i, e)[s]
<1> SUFFICES ASSUME NEW s, s \in DOMAIN OpenTo(i, e)
             PROVE  /\ s \in Slots /\ OpenTo(i, e)[s] \in Nat
                    /\ OpenTo(i, e)[s] % Pow2[Width[s]] = OpenTo(i, e)[s]
  OBVIOUS
<1>0. \A t : t \in DOMAIN OpenTo(i, e) <=> \E j \in 1 .. e : t = Path[i][j].slot
  BY OpenToIs
<1>1. PICK j \in 1 .. e : s = Path[i][j].slot
  BY <1>0
<1>2. j \in 1 .. Len(Path[i]) /\ OpenTo(i, e)[s] = Path[i][j].value
  BY <1>1, OpenToIs
<1>3. s \in Slots /\ s \in Units /\ Path[i][j].value \in 0 .. Pow2[Width[s]] - 1
  BY <1>1, <1>2, StepIs
<1>4. Width[s] \in Nat
  BY <1>3, CellsOfUnit
<1>5. Pow2[Width[s]] \in Nat
  BY <1>4, Pow2Is
<1> QED BY <1>2, <1>3, <1>4, <1>5, FitsField

\* What the network has committed once a scan that takes it from a to b is in.
After(from, a, b, target, v) ==
  Update(Scanned(from, Reverse(compose_bits(a, b, target, v))).shift, from.po)

\* A slot in the scan path has the value b gives it; one off the path, and a
\* WRITE instrument off the path or with its gate moving, keep theirs.
LEMMA ScanCommits ==
  ASSUME MuxesLast, NoArmZero, NEW from, DOMAIN from.po = Latched,
         NEW a, Carries(from.po, a), Len(Layout(a)) # 0,
         NEW i \in Units, NEW e \in 0 .. Len(Path[i]), NEW target, NEW v \in Nat
  PROVE  LET b == OpenTo(i, e)
             po == After(from, a, b, target, v)
         IN  /\ DOMAIN po = Latched
             /\ \A s \in Slots :
                  po[s] = IF Live(a, s) THEN (IF s \in DOMAIN b THEN b[s] ELSE 0) ELSE from.po[s]
             /\ \A w \in Writes :
                  po[w] = IF /\ Live(a, w)
                             /\ Gate(w).slot \in DOMAIN b /\ b[Gate(w).slot] = Gate(w).value
                          THEN (IF Gate(w).slot = target THEN v ELSE 0) % Pow2[Width[w]]
                          ELSE from.po[w]
<1> DEFINE b == OpenTo(i, e)
           tdi == Reverse(compose_bits(a, b, target, v))
           new == Scanned(from, tdi).shift
<1>1. \A s \in DOMAIN b : s \in Slots /\ b[s] \in Nat /\ b[s] % Pow2[Width[s]] = b[s]
  BY OpenValues
<1>2. \A u \in Units : Live(a, u) => ValueOf(new, u) = Sent(b, target, v, u) % Pow2[Width[u]]
  <2> HIDE DEF b
  <2> QED BY <1>1, ComposedScan
<1>3. \A u \in Units : Live(from.po, u) <=> Live(a, u)
  BY CarriedLayout
<1>4. Slots \subseteq Units /\ Writes \subseteq Units /\ Writes \cap Slots = {} /\ Writes \subseteq Instruments
      /\ Latched = Slots \cup Writes
  BY NetworkAssumption DEF ValidPhysicalGraph, Units, Latched
<1> HIDE DEF b, tdi, new
<1>5. After(from, a, b, target, v) = Update(new, from.po)
  BY DEF After, new, tdi
<1>6. \A u \in Latched :
        Update(new, from.po)[u] =
          IF /\ Live(a, u)
             /\ u \in Writes => ValueOf(new, Gate(u).slot) = Gate(u).value
          THEN Sent(b, target, v, u) % Pow2[Width[u]] ELSE from.po[u]
  <2> TAKE u \in Latched
  <2>1. u \in Units
    BY <1>4
  <2> QED BY <1>2, <1>3, <2>1 DEF Update
<1>7. \A s \in Slots : Live(a, s) => Sent(b, target, v, s) % Pow2[Width[s]] = IF s \in DOMAIN b THEN b[s] ELSE 0
  <2> TAKE s \in Slots
  <2>1. CASE s \in DOMAIN b
    BY <1>1, <2>1 DEF Sent
  <2>2. CASE s \notin DOMAIN b
    <3>1. Width[s] \in Nat
      BY <1>4, CellsOfUnit
    <3>2. 0 \in 0 .. Pow2[Width[s]] - 1
      <4>1. Pow2[Width[s]] \in Nat \ {0}
        BY <3>1, Pow2Is
      <4> QED BY <4>1
    <3>3. 0 % Pow2[Width[s]] = 0
      BY <3>1, <3>2, FitsField
    <3> QED BY <2>2, <3>3 DEF Sent
  <2> QED BY <2>1, <2>2
<1>8. ASSUME NEW s \in Slots
      PROVE  Update(new, from.po)[s] = IF Live(a, s) THEN (IF s \in DOMAIN b THEN b[s] ELSE 0) ELSE from.po[s]
  <2>1. s \in Latched /\ s \notin Writes
    BY <1>4
  <2> QED BY <1>6, <1>7, <2>1
<1>9. ASSUME NEW w \in Writes
      PROVE  Update(new, from.po)[w] =
               IF /\ Live(a, w)
                  /\ Gate(w).slot \in DOMAIN b /\ b[Gate(w).slot] = Gate(w).value
               THEN (IF Gate(w).slot = target THEN v ELSE 0) % Pow2[Width[w]]
               ELSE from.po[w]
  <2> DEFINE g == Gate(w).slot
  <2>1. w \in Latched /\ w \in Units /\ w \notin Slots /\ Nested(w) /\ w \in Instruments
    BY <1>4, NetworkAssumption DEF ValidPhysicalGraph
  <2>2. g \in Slots /\ g \in Units /\ (Live(a, w) => Live(a, g))
    BY <2>1, GateStep, LiveUnit
  <2>3. Gate(w).value # 0
    <3>1. Len(Path[w]) \in 1 .. Len(Path[w]) /\ Gate(w) = Path[w][Len(Path[w])]
      BY <2>1, GateStep
    <3> QED BY <2>1, <3>1, StepNotZero
  <2>4. Live(a, w) => ValueOf(new, g) = IF g \in DOMAIN b THEN b[g] ELSE 0
    BY <1>2, <1>7, <2>2
  <2>5. Sent(b, target, v, w) = IF g = target THEN v ELSE 0
    BY <2>1 DEF Sent
  <2>6. Live(a, w) => (ValueOf(new, g) = Gate(w).value <=> g \in DOMAIN b /\ b[g] = Gate(w).value)
    BY <2>3, <2>4
  <2>7. Update(new, from.po)[w] =
          IF Live(a, w) /\ ValueOf(new, g) = Gate(w).value
          THEN Sent(b, target, v, w) % Pow2[Width[w]] ELSE from.po[w]
    BY <1>6, <2>1
  <2> QED BY <2>5, <2>6, <2>7
<1>10. DOMAIN Update(new, from.po) = Latched
  BY DEF Update
<1> QED BY <1>5, <1>8, <1>9, <1>10 DEF b

\* One round of phase 1: it leads from a down to depth e on the way to i.
Leads(a, i, e) ==
  /\ \A j \in 1 .. e - 1 :
       Path[i][j].slot \in DOMAIN a /\ a[Path[i][j].slot] = Path[i][j].value
  /\ ~(Path[i][e].slot \in DOMAIN a /\ a[Path[i][e].slot] = Path[i][e].value)

\* It opens just that, and no WRITE instrument commits.
LEMMA PhaseOneScan ==
  ASSUME MuxesLast, NoArmZero, NEW from, DOMAIN from.po = Latched,
         NEW u \in Units, NEW d \in 0 .. Len(Path[u]), Carries(from.po, OpenTo(u, d)),
         NEW i \in Instruments, NEW e \in 1 .. Len(Path[i]), Leads(OpenTo(u, d), i, e), NEW target
  PROVE  LET po == After(from, OpenTo(u, d), OpenTo(i, e), target, 0) IN
         /\ DOMAIN po = Latched /\ Carries(po, OpenTo(i, e))
         /\ \A w \in Writes : po[w] = from.po[w]
<1> DEFINE a == OpenTo(u, d)  b == OpenTo(i, e)  po == After(from, a, b, target, 0)
<1>1. /\ i \in Units /\ Len(Path[i]) \in Nat /\ e \in 0 .. Len(Path[i]) /\ DOMAIN Path[i] = 1 .. Len(Path[i])
      /\ Writes \subseteq Instruments /\ Writes \subseteq Units
  <2>1. i \in Units /\ Writes \subseteq Instruments /\ Writes \subseteq Units
    BY NetworkAssumption DEF ValidPhysicalGraph, Units
  <2> QED BY <2>1, GateStep
<1>2. Len(Layout(a)) # 0
  BY ChainNotEmpty
<1>3. /\ DOMAIN po = Latched
      /\ \A s \in Slots : po[s] = IF Live(a, s) THEN (IF s \in DOMAIN b THEN b[s] ELSE 0) ELSE from.po[s]
      /\ \A w \in Writes :
           po[w] = IF Live(a, w) /\ Gate(w).slot \in DOMAIN b /\ b[Gate(w).slot] = Gate(w).value
                   THEN (IF Gate(w).slot = target THEN 0 ELSE 0) % Pow2[Width[w]]
                   ELSE from.po[w]
  <2> HIDE DEF a
  <2>1. \A v \in Nat : LET q == After(from, a, b, target, v) IN
        /\ DOMAIN q = Latched
        /\ \A s \in Slots : q[s] = IF Live(a, s) THEN (IF s \in DOMAIN b THEN b[s] ELSE 0) ELSE from.po[s]
        /\ \A w \in Writes :
             q[w] = IF Live(a, w) /\ Gate(w).slot \in DOMAIN b /\ b[Gate(w).slot] = Gate(w).value
                     THEN (IF Gate(w).slot = target THEN v ELSE 0) % Pow2[Width[w]]
                     ELSE from.po[w]
    <3> TAKE v \in Nat
    <3>1. Carries(from.po, a) /\ Len(Layout(a)) # 0
      BY <1>2 DEF a
    <3> QED BY <1>1, <3>1, ScanCommits
  <2>2. 0 \in Nat
    OBVIOUS
  <2> QED BY <2>1, <2>2
<1> HIDE DEF po
<1>4. ASSUME NEW s \in Slots PROVE po[s] = IF s \in DOMAIN b THEN b[s] ELSE 0
  <2>1. CASE Live(a, s)
    BY <1>3, <2>1
  <2>2. CASE ~Live(a, s)
    <3>1. s \notin DOMAIN a
      <4> SUFFICES ASSUME s \in DOMAIN a PROVE FALSE
        OBVIOUS
      <4>1. PICK j \in 1 .. d : s = Path[u][j].slot
        BY OpenToIs
      <4>2. j \in 1 .. Len(Path[u])
        BY OpenToIs
      <4>3. /\ s \in Units /\ Len(Path[s]) = j - 1
            /\ \A k \in 1 .. j - 1 : Path[s][k] = Path[u][k]
        BY <4>1, <4>2, StepIs
      <4>4. Len(Path[s]) <= d
        <5>1. Len(Path[u]) \in Nat
          BY GateStep
        <5> QED BY <4>3, <5>1
      <4>5. \A k \in 1 .. Len(Path[s]) : Path[s][k] = Path[u][k]
        BY <4>3
      <4> QED BY <2>2, <4>3, <4>4, <4>5, LiveUnderOpenTo
    <3>2. s \notin DOMAIN b
      <4> SUFFICES ASSUME s \in DOMAIN b PROVE FALSE
        OBVIOUS
      <4>1. PICK j \in 1 .. e : s = Path[i][j].slot
        BY <1>1, OpenToIs
      <4>2. j \in 1 .. Len(Path[i])
        BY <1>1
      <4>3. /\ s \in Units /\ Len(Path[s]) = j - 1
            /\ \A k \in 1 .. j - 1 : Path[s][k] = Path[i][k]
        BY <1>1, <4>1, <4>2, StepIs
      <4>4. \A k \in 1 .. j - 1 : k \in 1 .. e - 1
        BY <1>1
      <4>5. \A k \in 1 .. j - 1 : Path[s][k].slot \in DOMAIN a /\ a[Path[s][k].slot] = Path[s][k].value
        BY <4>3, <4>4 DEF Leads
      <4>6. DOMAIN Path[s] = 1 .. j - 1
        BY <4>3, GateStep
      <4> QED BY <2>2, <4>5, <4>6 DEF Live
    <3>3. po[s] = from.po[s]
      BY <1>3, <2>2
    <3> QED BY <3>1, <3>2, <3>3 DEF Carries
  <2> QED BY <2>1, <2>2
<1>5. ASSUME NEW w \in Writes PROVE po[w] = from.po[w]
  <2> SUFFICES ASSUME Live(a, w), Gate(w).slot \in DOMAIN b, b[Gate(w).slot] = Gate(w).value PROVE FALSE
    BY <1>3
  <2>1. w \in Units /\ w \in Instruments /\ Nested(w)
    BY <1>1, NetworkAssumption DEF ValidPhysicalGraph
  <2> DEFINE g == Gate(w).slot  L == Len(Path[w])
  <2>2. L \in Nat \ {0} /\ L \in 1 .. L /\ Gate(w) = Path[w][L] /\ DOMAIN Path[w] = 1 .. L
    BY <2>1, GateStep
  <2>3. PICK j \in 1 .. e : g = Path[i][j].slot
    <3>1. \A s : s \in DOMAIN b => \E j \in 1 .. e : s = Path[i][j].slot
      BY DEF OpenTo
    <3> QED BY <3>1, Zenon
  <2>4. j \in 1 .. Len(Path[i]) /\ b[g] = Path[i][j].value
    BY <1>1, <2>3, OpenToIs
  <2>5. j = L /\ Path[i][j] = Path[w][L] /\ \A k \in 1 .. j - 1 : Path[i][k] = Path[w][k]
    BY <1>1, <2>1, <2>2, <2>3, <2>4, SameStep
  <2>6. Live(b, w)
    <3>1. L <= e /\ \A k \in 1 .. L : Path[w][k] = Path[i][k]
      <4>1. \A k \in 1 .. L : k = L \/ k \in 1 .. L - 1
        BY <2>2
      <4>2. Path[w][L] = Path[i][L]
        BY <2>5
      <4>3. \A k \in 1 .. L - 1 : Path[w][k] = Path[i][k]
        BY <2>5
      <4>4. L <= e
        BY <1>1, <2>2, <2>5
      <4> HIDE DEF L
      <4>5. \A k \in 1 .. L : Path[w][k] = Path[i][k]
        BY <4>1, <4>2, <4>3, Zenon
      <4> QED BY <4>4, <4>5
    <3> QED BY <1>1, <2>1, <3>1, LiveUnderOpenTo
  <2>7. w = i /\ e = Len(Path[i])
    BY <1>1, <2>1, <2>6, OnlyInstrument
  <2>8. e = L /\ Path[i][e].slot \in DOMAIN a /\ a[Path[i][e].slot] = Path[i][e].value
    BY <2>2, <2>7 DEF Live
  <2> QED BY <2>8 DEF Leads
<1> QED BY <1>3, <1>4, <1>5 DEF Carries, po

\* Phase 2 opens nothing, and its WRITE instrument alone commits the payload.
LEMMA PhaseTwoScan ==
  ASSUME MuxesLast, NoArmZero, NEW from, DOMAIN from.po = Latched,
         NEW i \in Instruments, Carries(from.po, OpenTo(i, Len(Path[i]))), NEW v \in Nat
  PROVE  LET a == OpenTo(i, Len(Path[i]))
             po == After(from, a, a, Gate(i).slot, v)
         IN  /\ DOMAIN po = Latched /\ Carries(po, a)
             /\ \A w \in Writes : po[w] = IF w = i THEN v % Pow2[Width[i]] ELSE from.po[w]
<1> DEFINE L == Len(Path[i])  a == OpenTo(i, L)  po == After(from, a, a, Gate(i).slot, v)
<1>1. /\ i \in Units /\ Nested(i) /\ Writes \subseteq Instruments /\ Writes \subseteq Units
  BY NetworkAssumption DEF ValidPhysicalGraph, Units
<1>2. L \in Nat \ {0} /\ L \in 0 .. L /\ L \in 1 .. L /\ Gate(i) = Path[i][L]
  BY <1>1, GateStep
<1>3. Len(Layout(a)) # 0
  BY ChainNotEmpty
<1>4. /\ DOMAIN po = Latched
      /\ \A s \in Slots : po[s] = IF Live(a, s) THEN (IF s \in DOMAIN a THEN a[s] ELSE 0) ELSE from.po[s]
      /\ \A w \in Writes :
           po[w] = IF Live(a, w) /\ Gate(w).slot \in DOMAIN a /\ a[Gate(w).slot] = Gate(w).value
                   THEN (IF Gate(w).slot = Gate(i).slot THEN v ELSE 0) % Pow2[Width[w]]
                   ELSE from.po[w]
  BY <1>1, <1>2, <1>3, ScanCommits
<1> HIDE DEF po
<1>5. \A s \in Slots : po[s] = IF s \in DOMAIN a THEN a[s] ELSE 0
  BY <1>4 DEF Carries
<1>6. ASSUME NEW w \in Writes PROVE po[w] = IF w = i THEN v % Pow2[Width[i]] ELSE from.po[w]
  <2>1. Live(a, w) <=> w = i
    BY <1>1, <1>2, OnlyInstrument
  <2>2. Gate(i).slot \in DOMAIN a /\ a[Gate(i).slot] = Gate(i).value
    BY <1>1, <1>2, OpenToIs
  <2>3. CASE w = i
    BY <1>4, <2>1, <2>2, <2>3
  <2>4. CASE w # i
    BY <1>4, <2>1, <2>4
  <2> QED BY <2>3, <2>4
<1> QED BY <1>4, <1>5, <1>6 DEF Carries, po

----------------------------------------------------------------------------
(* The rounds that open an instrument.                                      *)

\* A set of steps that says what the first e steps to i say.
LEMMA StepsAsMap ==
  ASSUME NEW i \in Units, NEW e \in 0 .. Len(Path[i]), NEW steps,
         \A r \in steps : \E j \in 1 .. e : r.slot = Path[i][j].slot /\ r.value = Path[i][j].value,
         \A j \in 1 .. e : \E r \in steps : r.slot = Path[i][j].slot
  PROVE  AsMap(steps) = OpenTo(i, e)
<1> DEFINE b == OpenTo(i, e)
<1>1. {r.slot : r \in steps} = {Path[i][j].slot : j \in 1 .. e}
  OBVIOUS
<1>2. ASSUME NEW s \in {r.slot : r \in steps}
      PROVE  (CHOOSE r \in steps : r.slot = s).value = b[s]
  <2> DEFINE r0 == CHOOSE r \in steps : r.slot = s
  <2>1. r0 \in steps /\ r0.slot = s
    OBVIOUS
  <2> HIDE DEF r0
  <2>2. PICK j \in 1 .. e : s = Path[i][j].slot /\ r0.value = Path[i][j].value
    BY <2>1
  <2>3. b[s] = Path[i][j].value
    BY <2>2, OpenToIs
  <2> QED BY <2>2, <2>3 DEF r0
<1>3. DOMAIN b = {r.slot : r \in steps} /\ b = [s \in DOMAIN b |-> b[s]]
  BY <1>1 DEF OpenTo
<1> HIDE DEF b
<1>4. AsMap(steps) = b
  BY <1>2, <1>3 DEF AsMap
<1> QED BY <1>4 DEF b

\* A path's steps, with their depths.
RequiredStep(i, j) == [slot |-> Path[i][j].slot, depth |-> j, value |-> Path[i][j].value]

\* open_path_to's steps are required, and their ancestors are among them.
LEMMA RequiredAre ==
  ASSUME NEW i \in Units
  PROVE  Required(OpenTo(i, Len(Path[i]))) = {RequiredStep(i, j) : j \in 1 .. Len(Path[i])}
<1> DEFINE L == Len(Path[i])  b == OpenTo(i, L)
           Way(s) == path_to_sib_name(s, b[s])
           StepsOf(p) == {[slot |-> p[d].slot, depth |-> d, value |-> p[d].value] : d \in DOMAIN p}
<1>1. L \in Nat /\ L \in 0 .. L
  BY GateStep
<1>2. ASSUME NEW j \in 1 .. L
      PROVE  StepsOf(Way(Path[i][j].slot)) = {RequiredStep(i, k) : k \in 1 .. j}
  <2> DEFINE s == Path[i][j].slot
  <2>1. /\ s \in Units /\ Len(Path[s]) = j - 1 /\ Path[i][j] \in Step
        /\ \A k \in 1 .. j - 1 : Path[s][k] = Path[i][k]
    BY StepIs
  <2>2. b[s] = Path[i][j].value
    BY <1>1, OpenToIs
  <2> DEFINE x == [slot |-> s, value |-> b[s]]
  <2>3. x = Path[i][j]
    BY <2>1, <2>2 DEF Step
  <2>4. Path[s] \in Seq(Step)
    BY <2>1, GateStep
  <2> HIDE DEF s, b, x
  <2>5. Way(s) = Append(Path[s], x)
    BY DEF path_to_sib_name, x
  <2> DEFINE p == Append(Path[s], x)
  <2>6. /\ DOMAIN p = 1 .. j /\ \A k \in 1 .. j : p[k] = Path[i][k]
    <3>1. x \in Step
      BY <2>1, <2>3
    <3>2. /\ Len(p) = (j - 1) + 1 /\ p \in Seq(Step) /\ p[(j - 1) + 1] = x
          /\ \A k \in 1 .. j - 1 : p[k] = Path[s][k]
      BY <2>1, <2>4, <3>1
    <3>3. (j - 1) + 1 = j /\ \A k \in 1 .. j : k = j \/ k \in 1 .. j - 1
      OBVIOUS
    <3> HIDE DEF p
    <3> QED BY <2>1, <2>3, <3>2, <3>3
  <2> HIDE DEF p
  <2>7. StepsOf(p) = {RequiredStep(i, k) : k \in 1 .. j}
    BY <2>6 DEF RequiredStep
  <2> QED BY <2>5, <2>7 DEF p, s
<1>3. DOMAIN b = {Path[i][j].slot : j \in 1 .. L}
  BY DEF OpenTo
<1> HIDE DEF b, StepsOf
<1>4. Required(b) = UNION {StepsOf(p) : p \in {Way(s) : s \in DOMAIN b}}
  BY DEF Required, StepsOf
<1> HIDE DEF Way
<1>5. ASSUME NEW r PROVE r \in Required(b) <=> \E j \in 1 .. L : r \in StepsOf(Way(Path[i][j].slot))
  BY <1>3, <1>4
<1>6. ASSUME NEW r PROVE r \in Required(b) <=> \E k \in 1 .. L : r = RequiredStep(i, k)
  <2>1. ASSUME r \in Required(b) PROVE \E k \in 1 .. L : r = RequiredStep(i, k)
    <3>1. PICK j \in 1 .. L : r \in StepsOf(Way(Path[i][j].slot))
      BY <1>5, <2>1
    <3>2. PICK k \in 1 .. j : r = RequiredStep(i, k)
      BY <1>2, <3>1
    <3>3. k \in 1 .. L
      BY <1>1
    <3> QED BY <3>2, <3>3
  <2>2. ASSUME NEW k \in 1 .. L, r = RequiredStep(i, k) PROVE r \in Required(b)
    <3>1. k \in 1 .. k
      OBVIOUS
    <3>2. r \in StepsOf(Way(Path[i][k].slot))
      BY <1>2, <2>2, <3>1
    <3> QED BY <1>5, <3>2
  <2> QED BY <2>1, <2>2
<1>7. Required(b) = {RequiredStep(i, j) : j \in 1 .. L}
  BY <1>6
<1> QED BY <1>7 DEF b

\* stage_open_sequence: nothing to do, or one round per depth from the first
\* that is not yet right.
LEMMA StagedRounds ==
  ASSUME NEW i \in Instruments, NEW u \in Instruments, NEW d \in 0 .. Len(Path[u])
  PROVE  LET rounds == stage_open_sequence(AsMap(ToSet(open_path_to(i))), OpenTo(u, d))
             L == Len(Path[i])
         IN  \/ rounds = << >> /\ i = u /\ d = L
             \/ \E first \in 1 .. L : /\ rounds = [r \in 1 .. L - first + 1 |-> OpenTo(i, first + r - 1)]
                                      /\ Leads(OpenTo(u, d), i, first)
<1> DEFINE L == Len(Path[i])  target == OpenTo(i, L)  c == OpenTo(u, d)
           Right(j) == Path[i][j].slot \in DOMAIN c /\ c[Path[i][j].slot] = Path[i][j].value
           required == Required(target)
           mismatched == {r.depth : r \in {q \in required :
                            ~(q.slot \in DOMAIN c /\ c[q.slot] = q.value)}}
           first == Min(mismatched)
<1>1. i \in Units /\ u \in Units /\ Nested(i)
  BY NetworkAssumption DEF ValidPhysicalGraph, Units
<1>2. L \in Nat \ {0} /\ L \in 0 .. L /\ DOMAIN Path[i] = 1 .. L
  BY <1>1, GateStep
<1>3. AsMap(ToSet(open_path_to(i))) = target
  <2>1. ToSet(Path[i]) = {Path[i][j] : j \in 1 .. L}
    BY <1>2 DEF ToSet
  <2> DEFINE steps == ToSet(Path[i])
  <2>2. \A r \in steps : \E j \in 1 .. L : r.slot = Path[i][j].slot /\ r.value = Path[i][j].value
    BY <2>1
  <2>3. \A j \in 1 .. L : \E r \in steps : r.slot = Path[i][j].slot
    BY <2>1
  <2> HIDE DEF steps
  <2>4. AsMap(steps) = OpenTo(i, L)
    BY <1>1, <1>2, <2>2, <2>3, StepsAsMap
  <2> QED BY <2>4 DEF steps, open_path_to
<1>4. required = {RequiredStep(i, j) : j \in 1 .. L}
  BY <1>1, RequiredAre
<1>5. DOMAIN target # {}
  <2>1. 1 \in 1 .. L
    BY <1>2
  <2> QED BY <1>1, <1>2, <2>1, OpenToIs
<1>6. Max({r.depth : r \in required}) = L
  <2>1. {r.depth : r \in required} = 1 .. L
    <3> HIDE DEF required
    <3>1. \A j \in 1 .. L : RequiredStep(i, j).depth = j
      BY DEF RequiredStep
    <3>2. \A r \in required : r.depth \in 1 .. L
      BY <1>4, <3>1
    <3>3. \A j \in 1 .. L : \E r \in required : r.depth = j
      BY <1>4, <3>1
    <3> QED BY <3>2, <3>3
  <2> QED BY <1>2, <2>1, MaxOfSegment
<1>7. mismatched = {j \in 1 .. L : ~Right(j)}
  <2> HIDE DEF required, c
  <2>1. \A j \in 1 .. L : LET r == RequiredStep(i, j) IN
          r.depth = j /\ (r.slot \in DOMAIN c /\ c[r.slot] = r.value <=> Right(j))
    BY DEF RequiredStep
  <2> HIDE DEF Right
  <2> QED BY <1>4, <2>1
<1> HIDE DEF required
<1>8. ASSUME NEW e \in 1 .. L PROVE AsMap({r \in required : r.depth <= e}) = OpenTo(i, e)
  <2> DEFINE steps == {r \in required : r.depth <= e}
  <2>0. e \in 0 .. L /\ \A j \in 1 .. e : j \in 1 .. L
    BY <1>2
  <2>1. \A r \in steps : \E j \in 1 .. e : r.slot = Path[i][j].slot /\ r.value = Path[i][j].value
    <3> TAKE r \in steps
    <3>1. PICK j \in 1 .. L : r = RequiredStep(i, j)
      BY <1>4
    <3>2. r.depth = j /\ r.slot = Path[i][j].slot /\ r.value = Path[i][j].value /\ r.depth <= e
      BY <3>1 DEF RequiredStep
    <3>3. j \in 1 .. e
      BY <3>2
    <3> QED BY <3>2, <3>3
  <2>2. \A j \in 1 .. e : \E r \in steps : r.slot = Path[i][j].slot
    <3> TAKE j \in 1 .. e
    <3>1. RequiredStep(i, j) \in required
      BY <1>4, <2>0
    <3>2. RequiredStep(i, j).depth = j /\ RequiredStep(i, j).slot = Path[i][j].slot
      BY DEF RequiredStep
    <3>3. j <= e
      OBVIOUS
    <3>4. RequiredStep(i, j) \in steps
      BY <3>1, <3>2, <3>3
    <3> QED BY <3>2, <3>4
  <2> HIDE DEF steps
  <2>3. AsMap(steps) = OpenTo(i, e)
    BY <1>1, <2>0, <2>1, <2>2, StepsAsMap
  <2> QED BY <2>3 DEF steps
<1> HIDE DEF target, Right
<1>9. stage_open_sequence(target, c) =
        IF mismatched = {} THEN << >>
        ELSE [r \in 1 .. L - first + 1 |-> AsMap({q \in required : q.depth <= first + r - 1})]
  <2>1. stage_open_sequence(target, c) =
          IF mismatched = {} THEN << >>
          ELSE [r \in 1 .. Max({q.depth : q \in required}) - first + 1 |->
                  AsMap({q \in required : q.depth <= first + r - 1})]
    <3> HIDE DEF c
    <3> QED BY <1>5 DEF stage_open_sequence, required
  <2> QED BY <1>6, <2>1
<1>10. CASE mismatched = {}
  <2>1. \A j \in 1 .. L : Right(j)
    BY <1>7, <1>10
  <2>2. Live(c, i)
    BY <1>2, <2>1 DEF Live, Right
  <2>3. i = u /\ d = L
    BY <1>1, <2>2, OnlyInstrument
  <2> HIDE DEF mismatched, c
  <2> QED BY <1>3, <1>9, <1>10, <2>3 DEF c
<1>11. CASE mismatched # {}
  <2>1. mismatched \in SUBSET Nat
    BY <1>7
  <2>2. first \in mismatched /\ \A k \in mismatched : first <= k
    <3> HIDE DEF mismatched
    <3>1. \E m \in mismatched : \A k \in mismatched : m <= k
      BY <1>11, <2>1, LeastNatural
    <3> QED BY <3>1 DEF Min
  <2> HIDE DEF first
  <2>3. first \in 1 .. L /\ ~Right(first) /\ \A j \in 1 .. first - 1 : Right(j)
    <3>1. first \in 1 .. L /\ ~Right(first)
      BY <1>7, <2>2
    <3>2. \A j \in 1 .. first - 1 : j \in 1 .. L /\ ~(first <= j)
      BY <1>2, <3>1
    <3> QED BY <1>7, <2>2, <3>1, <3>2
  <2>4. Leads(c, i, first)
    BY <2>3 DEF Leads, Right
  <2> HIDE DEF mismatched, c
  <2>5. stage_open_sequence(target, c) = [r \in 1 .. L - first + 1 |-> OpenTo(i, first + r - 1)]
    <3>1. \A r \in 1 .. L - first + 1 : first + r - 1 \in 1 .. L
      BY <1>2, <2>3
    <3>2. \A r \in 1 .. L - first + 1 :
            AsMap({q \in required : q.depth <= first + r - 1}) = OpenTo(i, first + r - 1)
      <4> TAKE r \in 1 .. L - first + 1
      <4> DEFINE e == first + r - 1
      <4>1. e \in 1 .. L
        BY <3>1
      <4> HIDE DEF e
      <4>2. AsMap({q \in required : q.depth <= e}) = OpenTo(i, e)
        BY <1>8, <4>1
      <4> QED BY <4>2 DEF e
    <3> QED BY <1>9, <1>11, <3>2
  <2> QED BY <1>3, <2>3, <2>4, <2>5 DEF c
<1> QED BY <1>10, <1>11

\* From one depth to the next nothing else is needed.
LEMMA LeadsOn ==
  ASSUME NEW i \in Units, NEW e \in 1 .. Len(Path[i]) - 1
  PROVE  Leads(OpenTo(i, e), i, e + 1)
<1>1. Len(Path[i]) \in Nat /\ e \in 0 .. Len(Path[i]) /\ e + 1 \in 1 .. Len(Path[i]) /\ (e + 1) - 1 = e
  BY GateStep
<1>2. Path[i][e + 1].slot \notin DOMAIN OpenTo(i, e)
  <2> SUFFICES ASSUME Path[i][e + 1].slot \in DOMAIN OpenTo(i, e) PROVE FALSE
    OBVIOUS
  <2>1. PICK j \in 1 .. e : Path[i][e + 1].slot = Path[i][j].slot
    <3>1. \A s : s \in DOMAIN OpenTo(i, e) => \E j \in 1 .. e : s = Path[i][j].slot
      BY DEF OpenTo
    <3> QED BY <3>1, Zenon
  <2>2. j \in 1 .. Len(Path[i])
    BY <1>1
  <2>3. e + 1 = j
    BY <1>1, <2>1, <2>2, SameStep
  <2> QED BY <2>3
<1>3. \A j \in 1 .. e : /\ Path[i][j].slot \in DOMAIN OpenTo(i, e)
                        /\ OpenTo(i, e)[Path[i][j].slot] = Path[i][j].value
  BY <1>1, OpenToIs
<1> QED BY <1>1, <1>2, <1>3 DEF Leads
=============================================================================
