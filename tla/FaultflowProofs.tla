-------------------------- MODULE FaultflowProofs --------------------------
(***************************************************************************)
(* The seed of a compressed pattern, for every ring generator, every phase *)
(* shifter and every list of patterns: the elimination decides every       *)
(* system, and its answer is about the ring generator that will load it.   *)
(* Then a retargeted program on the design it is for, for every mode and   *)
(* every set of chains: what a pattern loads is in place when it captures, *)
(* and an iRead of the design finds what it expects, as long as the        *)
(* instruments written to are WRITE and those read are READ.               *)
(***************************************************************************)
EXTENDS FaultflowPlay, InductionLemmas

\* Every set of seed bits is finite.
LEMMA ChannelsFinite ==
  ASSUME NEW A \in SUBSET Channels
  PROVE  IsFiniteSet(A) /\ Cardinality(A) \in Nat
<1>1. IsFiniteSet(Channels)
  BY NumChannelsAssumption, FS_Interval DEF Channels
<1> QED BY <1>1, FS_Subset, FS_CardinalityType

\* XOR adds parities.
LEMMA ParityXor ==
  ASSUME NEW A, NEW B, IsFiniteSet(A), IsFiniteSet(B)
  PROVE  Parity(XorSets(A, B)) <=> (Parity(A) /= Parity(B))
<1> DEFINE a == A \ B  b == B \ A  i == A \cap B
<1>1. IsFiniteSet(a) /\ IsFiniteSet(b) /\ IsFiniteSet(i)
  BY FS_Difference, FS_Intersection
<1>2. Cardinality(a) \in Nat /\ Cardinality(b) \in Nat /\ Cardinality(i) \in Nat
  BY <1>1, FS_CardinalityType
<1>3. ASSUME NEW X, NEW Y, IsFiniteSet(X), IsFiniteSet(Y), X \cap Y = {}
      PROVE  Cardinality(X \cup Y) = Cardinality(X) + Cardinality(Y)
  <2>1. Cardinality(X \cup Y) = Cardinality(X) + Cardinality(Y) - Cardinality({})
    BY <1>3, FS_Union
  <2>2. Cardinality({}) = 0 /\ Cardinality(X) \in Nat /\ Cardinality(Y) \in Nat
    BY <1>3, FS_EmptySet, FS_CardinalityType
  <2> QED BY <2>1, <2>2
<1>4. Cardinality(A) = Cardinality(a) + Cardinality(i)
  <2>1. A = a \cup i /\ a \cap i = {}
    OBVIOUS
  <2> QED BY <2>1, <1>1, <1>3
<1>5. Cardinality(B) = Cardinality(b) + Cardinality(i)
  <2>1. B = b \cup i /\ b \cap i = {}
    OBVIOUS
  <2> QED BY <2>1, <1>1, <1>3
<1>6. Cardinality(XorSets(A, B)) = Cardinality(a) + Cardinality(b)
  <2>1. XorSets(A, B) = a \cup b /\ a \cap b = {}
    BY DEF XorSets
  <2> QED BY <2>1, <1>1, <1>3
<1> HIDE DEF a, b, i
<1>7. ASSUME NEW x \in Nat, NEW y \in Nat, NEW z \in Nat
      PROVE  ((x + y) % 2 = 1) <=> (((x + z) % 2 = 1) /= ((y + z) % 2 = 1))
  OBVIOUS
<1> QED BY <1>2, <1>4, <1>5, <1>6, <1>7 DEF Parity

----------------------------------------------------------------------------
(* One step of the elimination. *)

\* The XOR of two rows is a row.
LEMMA XorRowsType ==
  ASSUME NEW r \in Equation, NEW s \in Equation
  PROVE  XorRows(r, s) \in Equation
BY DEF XorRows, XorSets, Equation

\* A row solved by x, XORed with another row x solves, is still solved by x.
LEMMA XorRowsKeepSolutions ==
  ASSUME NEW r \in Equation, NEW s \in Equation, NEW x \in Seed, Satisfies(x, s)
  PROVE  Satisfies(x, XorRows(r, s)) <=> Satisfies(x, r)
<1>1. /\ XorRows(r, s).coeffs = XorSets(r.coeffs, s.coeffs)
      /\ XorRows(r, s).rhs = (r.rhs /= s.rhs)
  BY DEF XorRows
<1>2. XorSets(r.coeffs, s.coeffs) \cap x = XorSets(r.coeffs \cap x, s.coeffs \cap x)
  BY DEF XorSets
<1>3. IsFiniteSet(r.coeffs \cap x) /\ IsFiniteSet(s.coeffs \cap x)
  BY ChannelsFinite DEF Seed, Equation
<1>4. Parity(XorSets(r.coeffs, s.coeffs) \cap x)
        <=> (Parity(r.coeffs \cap x) /= Parity(s.coeffs \cap x))
  BY <1>2, <1>3, ParityXor
<1>5. r.rhs \in BOOLEAN /\ s.rhs \in BOOLEAN
  BY DEF Equation
<1>6. Parity(r.coeffs \cap x) \in BOOLEAN /\ Parity(s.coeffs \cap x) \in BOOLEAN
  BY DEF Parity
<1>7. Parity(s.coeffs \cap x) = s.rhs
  BY DEF Satisfies
<1>8. (Parity(r.coeffs \cap x) /= Parity(s.coeffs \cap x)) = (r.rhs /= s.rhs)
        <=> Parity(r.coeffs \cap x) = r.rhs
  BY <1>5, <1>6, <1>7
<1>9. Parity(XorSets(r.coeffs, s.coeffs) \cap x) \in BOOLEAN
  BY DEF Parity
<1> QED BY <1>1, <1>4, <1>8, <1>9, Zenon DEF Satisfies

\* Swapping two rows loses and invents no row.
LEMMA SwapKeepsSolutions ==
  ASSUME augmented \in Seq(Equation), pivot_row \in DOMAIN augmented,
         NEW sel \in DOMAIN augmented
  PROVE  /\ Swapped(sel) \in Seq(Equation) /\ Len(Swapped(sel)) = Len(augmented)
         /\ Swapped(sel)[pivot_row] = augmented[sel]
         /\ SolutionsOf(Swapped(sel)) = SolutionsOf(augmented)
<1> DEFINE p == pivot_row  rows == Swapped(sel)
<1>1. p \in DOMAIN augmented /\ DOMAIN augmented = 1 .. Len(augmented)
  OBVIOUS
<1> HIDE DEF p
<1>2. /\ rows \in Seq(Equation) /\ Len(rows) = Len(augmented)
      /\ \A r \in DOMAIN augmented :
           rows[r] = IF r = sel THEN augmented[p] ELSE IF r = p THEN augmented[sel] ELSE augmented[r]
  BY <1>1 DEF Swapped, p
<1>3. rows[p] = augmented[sel]
  BY <1>1, <1>2
<1>4. \A r \in DOMAIN augmented : \E q \in DOMAIN augmented : rows[q] = augmented[r]
  BY <1>1, <1>2
<1>5. \A r \in DOMAIN augmented : \E q \in DOMAIN augmented : rows[r] = augmented[q]
  BY <1>1, <1>2
<1>6. SolutionsOf(rows) = SolutionsOf(augmented)
  <2> HIDE DEF rows
  <2>1. DOMAIN rows = DOMAIN augmented
    BY <1>2
  <2> QED BY <1>4, <1>5, <2>1 DEF SolutionsOf
<1> QED BY <1>2, <1>3, <1>6 DEF p

\* Clearing a column adds the pivot row, which stays, to other rows.
LEMMA ClearKeepsSolutions ==
  ASSUME NEW rows \in Seq(Equation), pivot_row \in DOMAIN rows
  PROVE  /\ Cleared(rows) \in Seq(Equation) /\ Len(Cleared(rows)) = Len(rows)
         /\ SolutionsOf(Cleared(rows)) = SolutionsOf(rows)
<1> DEFINE p == pivot_row  new == Cleared(rows)
<1>1. p \in DOMAIN rows /\ DOMAIN rows = 1 .. Len(rows) /\ Len(rows) \in Nat
  OBVIOUS
<1> HIDE DEF p
<1>2. /\ new = [r \in DOMAIN rows |-> new[r]]
      /\ new[p] = rows[p]
      /\ \A r \in DOMAIN rows : new[r] = rows[r] \/ new[r] = XorRows(rows[r], rows[p])
  BY <1>1 DEF Cleared, p
<1>3. \A r \in DOMAIN rows : rows[r] \in Equation /\ new[r] \in Equation
  <2>1. ASSUME NEW r \in DOMAIN rows PROVE rows[r] \in Equation
    BY <1>1
  <2> HIDE DEF new
  <2> QED BY <1>1, <1>2, <2>1, XorRowsType
<1>4. new \in Seq(Equation) /\ Len(new) = Len(rows)
  <2> HIDE DEF new
  <2> QED BY <1>1, <1>2, <1>3
<1>5. ASSUME NEW x \in Seed, Satisfies(x, rows[p]), NEW r \in DOMAIN rows
      PROVE  Satisfies(x, new[r]) <=> Satisfies(x, rows[r])
  <2> HIDE DEF new
  <2> QED BY <1>1, <1>2, <1>3, <1>5, XorRowsKeepSolutions
<1>6. SolutionsOf(new) = SolutionsOf(rows)
  <2>1. DOMAIN new = DOMAIN rows /\ new[p] = rows[p]
    BY <1>2
  <2> HIDE DEF new
  <2> QED BY <1>1, <1>5, <2>1 DEF SolutionsOf
<1> QED BY <1>4, <1>6

----------------------------------------------------------------------------
(* The elimination. *)

SolverType ==
  /\ augmented \in Seq(Equation)
  /\ pivot_col_for_row \in Seq(Channels)
  /\ Len(pivot_col_for_row) <= Len(augmented)
  /\ col \in 0 .. NumChannels
  /\ seed \in {Unsolved, NoSeed} \cup Seed

\* A pivot's column is behind the search and occurs in its own row only; what
\* the rows without a pivot still hold is ahead of it.
Echelon ==
  /\ \A i \in 1 .. Len(pivot_col_for_row) :
       /\ pivot_col_for_row[i] < col
       /\ \A r \in 1 .. Len(augmented) : pivot_col_for_row[i] \in augmented[r].coeffs <=> r = i
  /\ \A r \in Len(pivot_col_for_row) + 1 .. Len(augmented) :
       \A k \in augmented[r].coeffs : k >= col

\* The answer is an answer to the rows as they stand.
Answered ==
  /\ seed = NoSeed => SolutionsOf(augmented) = {}
  /\ seed \in Seed => seed \in SolutionsOf(augmented)

SolverInv == SolverType /\ Echelon /\ Answered

\* The three outcomes are told apart: neither marker is a set of channels.
LEMMA Markers == Unsolved \notin Seed /\ NoSeed \notin Seed /\ Unsolved # NoSeed
<1>1. -1 \notin Channels /\ -2 \notin Channels
  BY NumChannelsAssumption DEF Channels
<1>2. {-1} \notin SUBSET Channels /\ {-2} \notin SUBSET Channels /\ {-1} # {-2}
  BY <1>1
<1> QED BY <1>2 DEF Unsolved, NoSeed, Seed

\* The call starts with no pivot and no column looked at.
LEMMA SolverStart ==
  ASSUME NEW equations \in Seq(Equation), StartSolver(equations)
  PROVE  SolverInv' /\ augmented' = equations
<1>1. SolverType'
  BY NumChannelsAssumption DEF StartSolver, SolverType
<1>2. Echelon'
  <2>1. /\ Len(pivot_col_for_row') = 0 /\ col' = 0
        /\ \A r \in 1 .. Len(augmented') : augmented'[r].coeffs \subseteq Channels
    <3>1. \A r \in 1 .. Len(equations) : equations[r] \in Equation
      OBVIOUS
    <3>2. \A r \in 1 .. Len(equations) : equations[r].coeffs \subseteq Channels
      BY <3>1 DEF Equation
    <3> QED BY <3>2 DEF StartSolver
  <2> QED BY <2>1 DEF Echelon, Channels
<1>3. Answered'
  BY Markers DEF StartSolver, Answered
<1> QED BY <1>1, <1>2, <1>3 DEF SolverInv, StartSolver

\* The row picked for the pivot is one that has the column.
LEMMA MinIsCandidate ==
  ASSUME SolverType, Candidates # {}
  PROVE  Min(Candidates) \in Candidates
<1>1. Candidates \in SUBSET Nat
  BY DEF SolverType, Candidates, pivot_row
<1>2. PICK m \in Candidates : \A k \in Candidates : m <= k
  BY <1>1, LeastNatural
<1> QED BY <1>2 DEF Min

\* Which columns the rows have after the swap and the clearing.
LEMMA PivotCoeffs ==
  ASSUME SolverType, pivot_row \in DOMAIN augmented, NEW sel \in DOMAIN augmented,
         NEW r \in DOMAIN augmented, NEW k
  PROVE  LET sw == Swapped(sel) IN
         /\ sw[r] = IF r = sel THEN augmented[pivot_row]
                    ELSE IF r = pivot_row THEN augmented[sel] ELSE augmented[r]
         /\ k \in Cleared(sw)[r].coeffs <=>
              IF r /= pivot_row /\ col \in sw[r].coeffs
              THEN (k \in sw[r].coeffs) /= (k \in sw[pivot_row].coeffs)
              ELSE k \in sw[r].coeffs
<1> DEFINE p == pivot_row  sw == Swapped(sel)
<1>1. p \in DOMAIN augmented /\ DOMAIN augmented = 1 .. Len(augmented)
  BY DEF SolverType
<1> HIDE DEF p
<1>2. sw[r] = IF r = sel THEN augmented[p]
                    ELSE IF r = p THEN augmented[sel] ELSE augmented[r]
  BY <1>1 DEF Swapped, p, SolverType
<1>3. DOMAIN sw = DOMAIN augmented
  BY DEF Swapped
<1> HIDE DEF sw
<1>4. Cleared(sw)[r] = IF r /= p /\ col \in sw[r].coeffs THEN XorRows(sw[r], sw[p]) ELSE sw[r]
  BY <1>3 DEF Cleared, p
<1>5. XorRows(sw[r], sw[p]).coeffs = XorSets(sw[r].coeffs, sw[p].coeffs)
  BY DEF XorRows
<1>6. k \in XorSets(sw[r].coeffs, sw[p].coeffs) <=> ((k \in sw[r].coeffs) /= (k \in sw[p].coeffs))
  BY DEF XorSets
<1> QED BY <1>2, <1>4, <1>5, <1>6 DEF p, sw

\* A pivot is found: its column is cleared from every other row and no other
\* pivot's column comes back.
LEMMA PivotStep ==
  ASSUME SolverInv, PivotColumn
  PROVE  SolverInv' /\ SolutionsOf(augmented') = SolutionsOf(augmented)
<1> DEFINE p == pivot_row  sel == Min(Candidates)
           sw == Swapped(sel)  new == Cleared(sw)  n == Len(augmented)
<1>1. /\ augmented \in Seq(Equation) /\ n \in Nat /\ DOMAIN augmented = 1 .. n
      /\ p \in 1 .. n /\ p = Len(pivot_col_for_row) + 1 /\ Len(pivot_col_for_row) \in Nat
      /\ col \in Channels /\ col \in Nat
  BY NumChannelsAssumption DEF SolverInv, SolverType, PivotColumn, Searching, pivot_row, Channels
<1>2. sel \in p .. n /\ sel \in DOMAIN augmented /\ col \in augmented[sel].coeffs
  <2>1. sel \in Candidates
    BY MinIsCandidate DEF SolverInv, PivotColumn
  <2>2. \A c \in Candidates : c \in p .. n /\ col \in augmented[c].coeffs
    BY DEF Candidates
  <2> HIDE DEF sel, p, n
  <2> QED BY <2>1, <2>2, <1>1
<1>3. /\ sw \in Seq(Equation) /\ Len(sw) = n /\ sw[p] = augmented[sel]
      /\ SolutionsOf(sw) = SolutionsOf(augmented)
  BY <1>1, <1>2, SwapKeepsSolutions
<1>4. p \in DOMAIN sw
  BY <1>1, <1>3
<1>5. /\ new \in Seq(Equation) /\ Len(new) = n
      /\ SolutionsOf(new) = SolutionsOf(augmented)
  BY <1>3, <1>4, ClearKeepsSolutions
<1>6. augmented' = new /\ pivot_col_for_row' = Append(pivot_col_for_row, col)
      /\ col' = col + 1 /\ seed' = seed /\ seed = Unsolved
  BY DEF PivotColumn, Searching
<1>7. \A r \in 1 .. n : sw[r] = IF r = sel THEN augmented[p]
                                ELSE IF r = p THEN augmented[sel] ELSE augmented[r]
  BY <1>1, <1>2, PivotCoeffs DEF SolverInv
<1>8. \A r \in 1 .. n, k \in Channels : k \in new[r].coeffs <=>
        IF r /= p /\ col \in sw[r].coeffs
        THEN (k \in sw[r].coeffs) /= (k \in sw[p].coeffs)
        ELSE k \in sw[r].coeffs
  BY <1>1, <1>2, PivotCoeffs DEF SolverInv
<1> HIDE DEF p, sel, sw, new
<1>9. SolverType'
  <2>1. pivot_col_for_row' \in Seq(Channels) /\ Len(pivot_col_for_row') = p
    BY <1>1, <1>6 DEF SolverInv, SolverType
  <2>2. col + 1 \in 0 .. NumChannels
    BY <1>1, NumChannelsAssumption DEF Channels
  <2> QED BY <1>1, <1>5, <1>6, <2>1, <2>2 DEF SolverInv, SolverType
<1>10. Echelon'
  <2>1. /\ Len(pivot_col_for_row') = p
        /\ \A i \in 1 .. p - 1 : pivot_col_for_row'[i] = pivot_col_for_row[i]
        /\ pivot_col_for_row'[p] = col
    BY <1>1, <1>6 DEF SolverInv, SolverType
  <2>2. \A i \in 1 .. p - 1 : pivot_col_for_row[i] \in Channels /\ pivot_col_for_row[i] < col
    BY <1>1 DEF SolverInv, SolverType, Echelon
  <2>3. \A r \in p .. n : \A k \in augmented[r].coeffs : k >= col
    BY <1>1 DEF SolverInv, Echelon
  <2>4. \A r \in p .. n : \A k \in sw[r].coeffs : k >= col
    BY <2>3, <1>1, <1>2, <1>7
  <2>5. \A i \in 1 .. p - 1, r \in 1 .. n : pivot_col_for_row[i] \in sw[r].coeffs <=> r = i
    <3> TAKE i \in 1 .. p - 1, r \in 1 .. n
    <3>1. CASE r < p
      <4>1. sw[r] = augmented[r]
        BY <3>1, <1>7, <1>1, <1>2
      <4> QED BY <4>1, <1>1 DEF SolverInv, Echelon
    <3>2. CASE ~(r < p)
      <4>1. r \in p .. n /\ r # i
        BY <3>2, <1>1
      <4> QED BY <4>1, <2>2, <2>4, <1>1 DEF Channels
    <3> QED BY <3>1, <3>2
  <2>6. \A i \in 1 .. p - 1, r \in 1 .. n : pivot_col_for_row[i] \in new[r].coeffs <=> r = i
    <3> TAKE i \in 1 .. p - 1, r \in 1 .. n
    <3>1. pivot_col_for_row[i] \notin sw[p].coeffs
      BY <2>5, <1>1
    <3> QED BY <3>1, <2>5, <2>2, <1>8
  <2>7. col \in sw[p].coeffs
    BY <1>2, <1>3
  <2>8. \A r \in 1 .. n : col \in new[r].coeffs <=> r = p
    BY <2>7, <1>8, <1>1
  <2>9. \A r \in p + 1 .. n : \A k \in new[r].coeffs : k >= col + 1
    <3> TAKE r \in p + 1 .. n
    <3> TAKE k \in new[r].coeffs
    <3>1. r \in 1 .. n /\ r # p /\ r \in p .. n /\ p \in p .. n
      BY <1>1
    <3>2. k \in Channels
      <4>1. new[r] \in Equation
        BY <3>1, <1>5
      <4> QED BY <4>1 DEF Equation
    <3>3. k \in sw[r].coeffs \/ k \in sw[p].coeffs
      BY <3>1, <3>2, <1>8
    <3>4. k >= col
      BY <3>3, <3>1, <2>4
    <3>5. k # col
      BY <3>1, <2>8
    <3> QED BY <3>2, <3>4, <3>5, <1>1 DEF Channels
  <2>10. \A i \in 1 .. p :
           /\ pivot_col_for_row'[i] < col + 1
           /\ \A r \in 1 .. n : pivot_col_for_row'[i] \in new[r].coeffs <=> r = i
    <3> TAKE i \in 1 .. p
    <3>1. CASE i = p
      BY <3>1, <2>1, <2>8, <1>1
    <3>2. CASE i # p
      <4>1. i \in 1 .. p - 1
        BY <3>2, <1>1
      <4>2. pivot_col_for_row[i] < col + 1
        BY <4>1, <2>2, <1>1 DEF Channels
      <4> QED BY <4>1, <4>2, <2>1, <2>6
    <3> QED BY <3>1, <3>2
  <2> QED BY <2>1, <2>9, <2>10, <1>5, <1>6 DEF Echelon
<1>11. Answered'
  BY <1>6, Markers DEF Answered
<1> QED BY <1>5, <1>6, <1>9, <1>10, <1>11 DEF SolverInv

\* No row ahead has the column: it stays ahead of every pivot.
LEMMA SkipStep ==
  ASSUME SolverInv, SkipColumn
  PROVE  SolverInv' /\ augmented' = augmented
<1>1. /\ augmented' = augmented /\ pivot_col_for_row' = pivot_col_for_row
      /\ seed' = seed /\ col' = col + 1 /\ col \in 0 .. NumChannels - 1
  BY NumChannelsAssumption DEF SkipColumn, Searching, SolverInv, SolverType
<1>2. SolverType'
  BY <1>1, NumChannelsAssumption DEF SolverInv, SolverType
<1>3. Echelon'
  <2>1. \A i \in 1 .. Len(pivot_col_for_row) : pivot_col_for_row[i] < col + 1
    <3> TAKE i \in 1 .. Len(pivot_col_for_row)
    <3>1. pivot_col_for_row[i] \in Channels /\ pivot_col_for_row[i] < col
      BY DEF SolverInv, SolverType, Echelon
    <3> QED BY <3>1, <1>1 DEF Channels
  <2>2. ASSUME NEW r \in Len(pivot_col_for_row) + 1 .. Len(augmented), NEW k \in augmented[r].coeffs
        PROVE  k >= col + 1
    <3>1. k >= col /\ augmented[r] \in Equation
      BY DEF SolverInv, SolverType, Echelon
    <3>2. k # col
      BY DEF SkipColumn, Candidates, pivot_row
    <3>3. k \in Channels
      BY <3>1 DEF Equation
    <3> QED BY <3>1, <3>2, <3>3, <1>1 DEF Channels
  <2>3. \A i \in 1 .. Len(pivot_col_for_row), r \in 1 .. Len(augmented) :
          pivot_col_for_row[i] \in augmented[r].coeffs <=> r = i
    BY DEF SolverInv, Echelon
  <2> QED BY <1>1, <2>1, <2>2, <2>3 DEF Echelon
<1>4. Answered'
  BY <1>1 DEF SolverInv, Answered
<1> QED BY <1>1, <1>2, <1>3, <1>4 DEF SolverInv

\* A row 0 = 1 has no solution.  Otherwise every row with a pivot is met by its
\* own pivot bit, and the others have run out of columns.
LEMMA DecideStep ==
  ASSUME SolverInv, Decide
  PROVE  SolverInv' /\ augmented' = augmented
<1> DEFINE n == Len(augmented)  q == Len(pivot_col_for_row)
<1>1. /\ augmented \in Seq(Equation) /\ DOMAIN augmented = 1 .. n /\ n \in Nat /\ q \in Nat
      /\ q <= n /\ pivot_row = q + 1 /\ pivot_col_for_row \in Seq(Channels)
  BY DEF SolverInv, SolverType, pivot_row
<1>2. /\ augmented' = augmented /\ pivot_col_for_row' = pivot_col_for_row /\ col' = col
      /\ seed' = IF Contradictory THEN NoSeed ELSE PivotBits
  BY DEF Decide
<1>3. PivotBits \in Seed
  BY <1>1 DEF PivotBits, Seed
<1>4. SolverType'
  BY <1>2, <1>3 DEF SolverInv, SolverType
<1>5. Echelon'
  BY <1>2 DEF SolverInv, Echelon
<1>6. Parity({}) = FALSE
  BY FS_EmptySet DEF Parity
<1>7. Contradictory => SolutionsOf(augmented) = {}
  <2> SUFFICES ASSUME Contradictory, NEW x \in SolutionsOf(augmented) PROVE FALSE
    OBVIOUS
  <2>1. PICK r \in pivot_row .. n : augmented[r].coeffs = {} /\ augmented[r].rhs
    BY DEF Contradictory
  <2>2. r \in DOMAIN augmented
    BY <2>1, <1>1
  <2>3. Satisfies(x, augmented[r])
    BY <2>2 DEF SolutionsOf
  <2>4. augmented[r].coeffs \cap x = {}
    BY <2>1
  <2> QED BY <2>1, <2>3, <2>4, <1>6 DEF Satisfies
<1>8. ~Contradictory => PivotBits \in SolutionsOf(augmented)
  <2> SUFFICES ASSUME ~Contradictory, NEW r \in 1 .. n PROVE Satisfies(PivotBits, augmented[r])
    BY <1>1, <1>3 DEF SolutionsOf
  <2>0. augmented[r] \in Equation /\ augmented[r].rhs \in BOOLEAN /\ augmented[r].coeffs \subseteq Channels
    <3>1. augmented[r] \in Equation
      BY <1>1
    <3> QED BY <3>1 DEF Equation
  <2>1. CASE r <= q
    <3>1. \A i \in 1 .. q : pivot_col_for_row[i] \in augmented[r].coeffs <=> r = i
      BY <1>1 DEF SolverInv, Echelon
    <3>2. PivotBits = {pivot_col_for_row[i] : i \in {j \in 1 .. q : augmented[j].rhs}}
      BY <1>1 DEF PivotBits
    <3>3. augmented[r].coeffs \cap PivotBits
            = IF augmented[r].rhs THEN {pivot_col_for_row[r]} ELSE {}
      BY <3>1, <3>2, <2>1, <1>1
    <3>4. Parity({pivot_col_for_row[r]})
      <4>1. Cardinality({pivot_col_for_row[r]}) = 1
        BY FS_Singleton
      <4> QED BY <4>1 DEF Parity
    <3>5. CASE augmented[r].rhs
      BY <3>3, <3>4, <3>5, <2>0 DEF Satisfies
    <3>6. CASE ~augmented[r].rhs
      BY <3>3, <1>6, <3>6, <2>0 DEF Satisfies
    <3> QED BY <3>5, <3>6
  <2>2. CASE ~(r <= q)
    <3>1. r \in pivot_row .. n
      BY <2>2, <1>1
    <3>2. col = NumChannels
      BY <3>1, <1>1, NumChannelsAssumption DEF Decide, Searching, SolverInv, SolverType
    <3>3. augmented[r].coeffs = {}
      <4>1. \A k \in augmented[r].coeffs : k >= col /\ k \in Channels
        BY <3>1, <1>1, <2>0 DEF SolverInv, Echelon
      <4> QED BY <4>1, <3>2, NumChannelsAssumption DEF Channels
    <3>4. ~augmented[r].rhs
      BY <3>1, <3>3 DEF Contradictory
    <3>5. augmented[r].coeffs \cap PivotBits = {}
      BY <3>3
    <3> QED BY <3>4, <3>5, <2>0, <1>6 DEF Satisfies
  <2> QED BY <2>1, <2>2
<1>9. Answered'
  <2>1. CASE Contradictory
    BY <2>1, <1>2, <1>7, Markers DEF Answered
  <2>2. CASE ~Contradictory
    BY <2>2, <1>2, <1>3, <1>8, Markers DEF Answered
  <2> QED BY <2>1, <2>2
<1> QED BY <1>2, <1>4, <1>5, <1>9 DEF SolverInv

\* Every step of the elimination keeps the solutions and the form.
LEMMA SolverStepKeeps ==
  ASSUME SolverInv, SolverStep
  PROVE  SolverInv' /\ SolutionsOf(augmented') = SolutionsOf(augmented)
BY PivotStep, SkipStep, DecideStep DEF SolverStep

----------------------------------------------------------------------------
(* The system of a pattern. *)

\* One equation per specified bit that matters, and no other.
LEMMA EquationsOfPattern ==
  ASSUME NEW p \in ScanPattern
  PROVE  /\ EquationsOf(p) \in Seq(Equation)
         /\ \A x \in Seed : x \in SolutionsOf(EquationsOf(p)) <=>
              \A c \in DOMAIN p.load, t \in Cycles :
                Cared(p, c, t) => Parity(CareBitRows[t][c] \cap x) = p.load[c][t]
<1> DEFINE chain_eqs(c) == FlattenSeq([t \in Cycles |-> Equations(p, c, t)])
           eq(c, t) == [coeffs |-> CareBitRows[t][c], rhs |-> p.load[c][t]]
<1>1. /\ Chains = 1 .. Len(Length) /\ Len(Length) \in Nat /\ MaxLength \in Nat
      /\ DOMAIN p.load \subseteq Chains
      /\ \A c \in DOMAIN p.load, t \in Cycles : p.load[c][t] \in BOOLEAN
  <2>1. PICK chains \in SUBSET Chains : p.load \in [chains -> [Cycles -> BOOLEAN]]
    BY DEF ScanPattern
  <2> QED BY <2>1, ScanAssumption DEF Chains
<1>2. \A c \in Chains, t \in Cycles : CareBitRows[t][c] \in SUBSET Channels
  BY DEF CareBitRows, XorReduce
<1>3. ASSUME NEW c \in Chains, NEW t \in Cycles
      PROVE  /\ Equations(p, c, t) = << >> \/ Equations(p, c, t) = <<eq(c, t)>>
             /\ Equations(p, c, t) = <<eq(c, t)>> <=> c \in DOMAIN p.load /\ Cared(p, c, t)
             /\ Equations(p, c, t) \in Seq(Equation)
  <2>1. Equations(p, c, t)
          = IF c \in DOMAIN p.load /\ Cared(p, c, t) THEN <<eq(c, t)>> ELSE << >>
    BY DEF Equations
  <2>2. c \in DOMAIN p.load => eq(c, t) \in Equation
    BY <1>1, <1>2 DEF Equation
  <2> HIDE DEF eq
  <2>3. <<eq(c, t)>> # << >>
    OBVIOUS
  <2> QED BY <2>1, <2>2, <2>3
<1>4. ASSUME NEW c \in Chains
      PROVE  /\ chain_eqs(c) \in Seq(Equation)
             /\ \A e : (\E m \in 1 .. Len(chain_eqs(c)) : chain_eqs(c)[m] = e) <=>
                         \E t \in Cycles : c \in DOMAIN p.load /\ Cared(p, c, t) /\ e = eq(c, t)
  <2> DEFINE s == [t \in Cycles |-> Equations(p, c, t)]
  <2>1. s \in Seq(Seq(Equation)) /\ Len(s) = MaxLength
    <3>1. s \in [1 .. MaxLength -> Seq(Equation)]
      BY <1>3 DEF Cycles
    <3> HIDE DEF s
    <3> QED BY <1>1, <3>1, FunctionIsSeq
  <2>2. \A t \in Cycles : s[t] = Equations(p, c, t)
    OBVIOUS
  <2> HIDE DEF s, eq
  <2>3. FlattenSeq(s) \in Seq(Equation)
    BY <2>1, FlattenMembers
  <2>4. ASSUME NEW e
        PROVE  (\E m \in 1 .. Len(FlattenSeq(s)) : FlattenSeq(s)[m] = e) <=>
                   \E t \in Cycles : c \in DOMAIN p.load /\ Cared(p, c, t) /\ e = eq(c, t)
    <3>1. (\E m \in 1 .. Len(FlattenSeq(s)) : FlattenSeq(s)[m] = e) <=>
             \E t \in 1 .. Len(s) : \E j \in 1 .. Len(s[t]) : s[t][j] = e
      <4>1. \A e1 : (\E m \in 1 .. Len(FlattenSeq(s)) : FlattenSeq(s)[m] = e1) <=>
             \E t \in 1 .. Len(s) : \E j \in 1 .. Len(s[t]) : s[t][j] = e1
        BY <2>1, FlattenMembers
      <4> QED BY <4>1, Zenon
    <3>2. ASSUME NEW t \in Cycles
          PROVE  (\E j \in 1 .. Len(s[t]) : s[t][j] = e) <=>
                   c \in DOMAIN p.load /\ Cared(p, c, t) /\ e = eq(c, t)
      <4>1. CASE Equations(p, c, t) = << >>
        <5>1. 1 .. Len(s[t]) = {} /\ << >> # <<eq(c, t)>>
          BY <4>1, <2>2
        <5>2. ~(c \in DOMAIN p.load /\ Cared(p, c, t))
          BY <5>1, <4>1, <1>3
        <5> QED BY <5>1, <5>2
      <4>2. CASE Equations(p, c, t) = <<eq(c, t)>>
        <5>1. 1 .. Len(s[t]) = {1} /\ s[t][1] = eq(c, t)
          BY <4>2, <2>2, SingletonSeq
        <5>2. c \in DOMAIN p.load /\ Cared(p, c, t)
          BY <4>2, <1>3
        <5> QED BY <5>1, <5>2
      <4> QED BY <4>1, <4>2, <1>3
    <3> QED BY <3>1, <3>2, <2>1 DEF Cycles
  <2> QED BY <2>3, <2>4 DEF s
<1> DEFINE all == [c \in Chains |-> chain_eqs(c)]
<1>5. EquationsOf(p) = FlattenSeq(all)
  BY DEF EquationsOf
<1> HIDE DEF chain_eqs, eq
<1>6. all \in Seq(Seq(Equation)) /\ Len(all) = Len(Length)
  <2>1. all \in [1 .. Len(Length) -> Seq(Equation)]
    BY <1>1, <1>4
  <2> HIDE DEF all
  <2> QED BY <1>1, <2>1, FunctionIsSeq
<1>7. \A c \in Chains : all[c] = chain_eqs(c)
  OBVIOUS
<1> HIDE DEF all
<1>8. EquationsOf(p) \in Seq(Equation)
  BY <1>5, <1>6, FlattenMembers
<1>9. ASSUME NEW e
      PROVE  (\E m \in 1 .. Len(EquationsOf(p)) : EquationsOf(p)[m] = e) <=>
               \E c \in DOMAIN p.load, t \in Cycles : Cared(p, c, t) /\ e = eq(c, t)
  <2>1. (\E m \in 1 .. Len(FlattenSeq(all)) : FlattenSeq(all)[m] = e) <=>
          \E c \in 1 .. Len(all) : \E j \in 1 .. Len(all[c]) : all[c][j] = e
    <3>1. \A e1 : (\E m \in 1 .. Len(FlattenSeq(all)) : FlattenSeq(all)[m] = e1) <=>
             \E c \in 1 .. Len(all) : \E j \in 1 .. Len(all[c]) : all[c][j] = e1
      BY <1>6, FlattenMembers
    <3> QED BY <3>1, Zenon
  <2>2. 1 .. Len(all) = Chains
    BY <1>1, <1>6
  <2>3. (\E c \in Chains : \E j \in 1 .. Len(all[c]) : all[c][j] = e) <=>
          \E c \in Chains : \E j \in 1 .. Len(chain_eqs(c)) : chain_eqs(c)[j] = e
    BY <1>7
  <2>4. (\E c \in Chains : \E j \in 1 .. Len(chain_eqs(c)) : chain_eqs(c)[j] = e) <=>
          \E c \in Chains : \E t \in Cycles : c \in DOMAIN p.load /\ Cared(p, c, t) /\ e = eq(c, t)
    BY <1>4
  <2> QED BY <2>1, <2>2, <2>3, <2>4, <1>5, <1>1
<1>10. ASSUME NEW x \in Seed
       PROVE  x \in SolutionsOf(EquationsOf(p)) <=>
              \A c \in DOMAIN p.load, t \in Cycles :
                Cared(p, c, t) => Satisfies(x, eq(c, t))
  <2>1. DOMAIN EquationsOf(p) = 1 .. Len(EquationsOf(p))
    BY <1>8
  <2>2. x \in SolutionsOf(EquationsOf(p)) <=>
           \A m \in 1 .. Len(EquationsOf(p)) : Satisfies(x, EquationsOf(p)[m])
    BY <2>1 DEF SolutionsOf
  <2>3. ASSUME x \in SolutionsOf(EquationsOf(p)), NEW c \in DOMAIN p.load, NEW t \in Cycles,
               Cared(p, c, t)
        PROVE  Satisfies(x, eq(c, t))
    <3>1. PICK m \in 1 .. Len(EquationsOf(p)) : EquationsOf(p)[m] = eq(c, t)
      BY <2>3, <1>9
    <3> QED BY <3>1, <2>2, <2>3
  <2>4. ASSUME \A c \in DOMAIN p.load, t \in Cycles : Cared(p, c, t) => Satisfies(x, eq(c, t)),
               NEW m \in 1 .. Len(EquationsOf(p))
        PROVE  Satisfies(x, EquationsOf(p)[m])
    <3>1. PICK c \in DOMAIN p.load, t \in Cycles : Cared(p, c, t) /\ EquationsOf(p)[m] = eq(c, t)
      BY <1>9
    <3> QED BY <3>1, <2>4
  <2> QED BY <2>2, <2>3, <2>4
<1>11. \A c \in DOMAIN p.load, t \in Cycles, x \in Seed :
         Satisfies(x, eq(c, t)) <=> Parity(CareBitRows[t][c] \cap x) = p.load[c][t]
  BY DEF Satisfies, eq
<1> QED BY <1>8, <1>10, <1>11

----------------------------------------------------------------------------
(* The call: every system is kept, and refused only without a solution. *)

\* Where a call is, and what its solver then holds.
CallInv ==
  /\ patterns \in Seq(ScanPattern)
  /\ at \in Nat \ {0}
  /\ stage \in {"next", "solving", "done", "raised"}
  /\ stage \in {"solving", "raised"} => at <= Len(patterns)
  /\ stage = "solving" =>
       /\ SolverInv
       /\ SolutionsOf(augmented) = SolutionsOf(EquationsOf(pattern))
  /\ stage = "raised" /\ setup.mode = "compressed" => SolutionsOf(EquationsOf(pattern)) = {}

\* A call starts before its first pattern.
LEMMA CallStart == Init => CallInv
<1> SUFFICES ASSUME Init PROVE CallInv
  OBVIOUS
<1>1. patterns \in Seq(ScanPattern)
  BY PatternsAssumption DEF Init, RetargetInit
<1> QED BY <1>1 DEF Init, RetargetInit, CallInv

\* Every step of a call keeps it: SolvePattern starts on the pattern's own
\* system, the solver keeps its solutions, and only NoSeed raises.
LEMMA CallStep == CallInv /\ [Next]_vars => CallInv'
<1> SUFFICES ASSUME CallInv, [Next]_vars PROVE CallInv'
  OBVIOUS
<1> USE DEF CallInv
<1>1. CASE RetargetRaw
  BY <1>1 DEF RetargetRaw, Ready, Emit
<1>2. CASE RetargetCompacted
  BY <1>2 DEF RetargetCompacted, Ready, Emit, Raise
<1>3. CASE RetargetWithoutLoad
  BY <1>3 DEF RetargetWithoutLoad, Ready, Emit
<1>4. CASE SolvePattern
  <2>1. pattern \in ScanPattern /\ at <= Len(patterns)
    BY <1>4 DEF SolvePattern, Ready, pattern
  <2>2. EquationsOf(pattern) \in Seq(Equation) /\ StartSolver(EquationsOf(pattern))
    BY <2>1, <1>4, EquationsOfPattern DEF SolvePattern
  <2>3. SolverInv' /\ augmented' = EquationsOf(pattern)
    BY <2>2, SolverStart
  <2>4. patterns' = patterns /\ at' = at /\ stage' = "solving" /\ pattern' = pattern
    BY <1>4 DEF SolvePattern, pattern
  <2>5. SolutionsOf(augmented)' = SolutionsOf(EquationsOf(pattern))'
    BY <2>3, <2>4
  <2> QED BY <2>1, <2>3, <2>4, <2>5
<1>5. CASE Solving
  <2>1. SolverInv' /\ SolutionsOf(augmented') = SolutionsOf(augmented)
    BY <1>5, SolverStepKeeps DEF Solving
  <2>2. patterns' = patterns /\ at' = at /\ stage' = "solving" /\ stage = "solving" /\ pattern' = pattern
    BY <1>5 DEF Solving, pattern
  <2>3. SolutionsOf(augmented)' = SolutionsOf(EquationsOf(pattern))'
    BY <2>1, <2>2
  <2> QED BY <2>1, <2>2, <2>3
<1>6. CASE RetargetCompressed
  <2>1. patterns' = patterns /\ stage = "solving" /\ setup' = setup
    BY <1>6 DEF RetargetCompressed
  <2>2. CASE seed = NoSeed
    <3>1. stage' = "raised" /\ at' = at /\ pattern' = pattern
      BY <1>6, <2>1, <2>2 DEF RetargetCompressed, Raise, pattern
    <3>2. SolutionsOf(EquationsOf(pattern)) = {}
      BY <2>1, <2>2 DEF SolverInv, Answered
    <3>3. (SolutionsOf(EquationsOf(pattern)) = {})'
      BY <3>1, <3>2
    <3> QED BY <2>1, <3>1, <3>3
  <2>3. CASE seed # NoSeed
    BY <1>6, <2>1, <2>3 DEF RetargetCompressed, Emit
  <2> QED BY <2>2, <2>3
<1>7. CASE Return
  BY <1>7 DEF Return
<1>8. CASE PlayWrite \/ PlayRead \/ PlayPulse
  BY <1>8 DEF PlayWrite, PlayRead, PlayPulse, Playing, Done
<1>9. CASE UNCHANGED vars
  <2>1. UNCHANGED <<setup, patterns, at, stage, solverVars>> /\ pattern' = pattern
    BY <1>9 DEF vars, retargetVars, pattern
  <2> QED BY <2>1 DEF solverVars, SolverInv, SolverType, Echelon, Answered
<1> QED BY <1>1, <1>2, <1>3, <1>4, <1>5, <1>6, <1>7, <1>8, <1>9 DEF Next, Retarget

\* However solve_xor_broadcast swaps and combines the rows, they have the
\* solutions the pattern's system has, for every pattern and every width.
THEOREM EliminationKeepsSolutions == Spec => []SolutionsKept
<1>1. CallInv => SolutionsKept
  BY DEF CallInv, SolutionsKept
<1> QED BY <1>1, CallStart, CallStep, PTL DEF Spec

----------------------------------------------------------------------------
(* The ring generator is linear: a stage holds the XOR of the seed bits that *)
(* care_bit_rows names, whatever the seed.                                   *)

RowFunctions == [Channels -> SUBSET Channels]

\* Exchanging the two sums of a double XOR.
LEMMA ParityExchange ==
  ASSUME NEW taps \in SUBSET Channels, NEW rows \in RowFunctions, NEW s \in Seed
  PROVE  Parity(XorReduce(rows, taps) \cap s) <=> Parity({k \in taps : Parity(rows[k] \cap s)})
<1> DEFINE Left(T) == XorReduce(rows, T) \cap s
           Right(T) == {k \in T : Parity(rows[k] \cap s)}
           P == {T \in SUBSET Channels : Parity(Left(T)) <=> Parity(Right(T))}
<1>1. {} \in P
  <2>1. Left({}) = {} /\ Right({}) = {}
    <3>1. ~Parity({})
      BY FS_EmptySet DEF Parity
    <3>2. \A b \in Channels : {k \in {} : b \in rows[k]} = {}
      OBVIOUS
    <3> QED BY <3>1, <3>2 DEF XorReduce
  <2> HIDE DEF Left, Right
  <2> QED BY <2>1
<1>2. ASSUME NEW T \in SUBSET Channels, NEW x \in Channels \ T, T \in P
      PROVE  T \cup {x} \in P
  <2> DEFINE U == T \cup {x}
  <2>0. U \in SUBSET Channels /\ x \in Channels
    OBVIOUS
  <2>1. \A b \in Channels :
          Parity({k \in U : b \in rows[k]}) <=>
            (Parity({k \in T : b \in rows[k]}) /= (b \in rows[x]))
    <3> TAKE b \in Channels
    <3> DEFINE A == {k \in T : b \in rows[k]}
               B == IF b \in rows[x] THEN {x} ELSE {}
    <3>1. {k \in U : b \in rows[k]} = XorSets(A, B)
      BY DEF XorSets
    <3>2. IsFiniteSet(A) /\ IsFiniteSet(B)
      <4>1. A \in SUBSET Channels /\ B \in SUBSET Channels
        OBVIOUS
      <4> QED BY <4>1, ChannelsFinite
    <3>3. Parity(B) <=> b \in rows[x]
      <4>1. Cardinality({x}) = 1 /\ Cardinality({}) = 0
        BY FS_Singleton, FS_EmptySet
      <4>2. CASE b \in rows[x]  BY <4>1, <4>2 DEF Parity
      <4>3. CASE b \notin rows[x]  BY <4>1, <4>3 DEF Parity
      <4> QED BY <4>2, <4>3
    <3>4. Parity(XorSets(A, B)) <=> (Parity(A) /= Parity(B))
      BY <3>2, ParityXor
    <3> HIDE DEF A, B
    <3>5. Parity({k \in U : b \in rows[k]}) <=> (Parity(A) /= (b \in rows[x]))
      <4>1. Parity(A) \in BOOLEAN /\ Parity(B) \in BOOLEAN /\ (b \in rows[x]) \in BOOLEAN
        BY DEF Parity
      <4> QED BY <3>1, <3>3, <3>4, <4>1
    <3> QED BY <3>5 DEF A
  <2>2. Left(U) = XorSets(Left(T), rows[x] \cap s)
    <3>1. rows[x] \subseteq Channels
      BY <2>0 DEF RowFunctions
    <3>2. \A b \in Channels : b \in XorReduce(rows, U)
                                <=> ((b \in XorReduce(rows, T)) /= (b \in rows[x]))
      <4> TAKE b \in Channels
      <4>1. \A V \in SUBSET Channels : b \in XorReduce(rows, V) <=> Parity({k \in V : b \in rows[k]})
        BY DEF XorReduce
      <4> DEFINE inU == b \in XorReduce(rows, U)  inT == b \in XorReduce(rows, T)
                 oddU == Parity({k \in U : b \in rows[k]})
                 oddT == Parity({k \in T : b \in rows[k]})
      <4>2. (inU <=> oddU) /\ (inT <=> oddT)
        BY <4>1, <2>0
      <4>3. oddU <=> (oddT /= (b \in rows[x]))
        BY <2>1
      <4>4. oddU \in BOOLEAN /\ oddT \in BOOLEAN /\ inU \in BOOLEAN /\ inT \in BOOLEAN
        BY DEF Parity
      <4> HIDE DEF inU, inT, oddU, oddT
      <4>5. inU <=> (inT /= (b \in rows[x]))
        BY <4>2, <4>3, <4>4
      <4> QED BY <4>5 DEF inU, inT
    <3>3. XorReduce(rows, U) \subseteq Channels /\ XorReduce(rows, T) \subseteq Channels
      BY DEF XorReduce
    <3> QED BY <3>1, <3>2, <3>3 DEF XorSets
  <2>3. Right(U) = XorSets(Right(T), IF Parity(rows[x] \cap s) THEN {x} ELSE {})
    BY DEF XorSets
  <2>4. /\ IsFiniteSet(Left(T)) /\ IsFiniteSet(Right(T))
        /\ IsFiniteSet(rows[x] \cap s) /\ IsFiniteSet({x}) /\ IsFiniteSet({})
    <3>1. /\ Left(T) \in SUBSET Channels /\ Right(T) \in SUBSET Channels
          /\ rows[x] \cap s \in SUBSET Channels
      BY DEF XorReduce, Seed
    <3> QED BY <3>1, ChannelsFinite, FS_EmptySet, FS_Singleton
  <2>5. Parity({x}) /\ ~Parity({})
    <3>1. Cardinality({x}) = 1 /\ Cardinality({}) = 0
      BY FS_Singleton, FS_EmptySet
    <3> QED BY <3>1 DEF Parity
  <2>6. Parity(Left(T)) <=> Parity(Right(T))
    BY <1>2
  <2> DEFINE l == Left(T)  r == Right(T)  y == rows[x] \cap s
             z == IF Parity(y) THEN {x} ELSE {}
  <2>7. Left(U) = XorSets(l, y) /\ Right(U) = XorSets(r, z)
    BY <2>2, <2>3
  <2>8. IsFiniteSet(z) /\ (Parity(z) <=> Parity(y))
    BY <2>4, <2>5
  <2>9. Parity(l) <=> Parity(r)
    BY <2>6
  <2>10. IsFiniteSet(l) /\ IsFiniteSet(r) /\ IsFiniteSet(y)
    BY <2>4
  <2> HIDE DEF l, r, y, z, Left, Right
  <2>11. Parity(XorSets(l, y)) <=> (Parity(l) /= Parity(y))
    BY <2>10, ParityXor
  <2>12. Parity(XorSets(r, z)) <=> (Parity(r) /= Parity(z))
    BY <2>10, <2>8, ParityXor
  <2>13. Parity(l) \in BOOLEAN /\ Parity(r) \in BOOLEAN /\ Parity(y) \in BOOLEAN /\ Parity(z) \in BOOLEAN
    BY DEF Parity
  <2>14. Parity(Left(U)) <=> Parity(Right(U))
    BY <2>7, <2>8, <2>9, <2>11, <2>12, <2>13
  <2> QED BY <2>14, <2>0
<1>3. SUBSET Channels \subseteq P
  <2>1. IsFiniteSet(Channels)
    BY ChannelsFinite
  <2> HIDE DEF P
  <2> QED BY <1>1, <1>2, <2>1, FiniteInduction
<1> QED BY <1>3

\* rows tell, of every seed, which stages then hold a 1.
Describes(rows, stages(_)) ==
  \A s \in Seed : \A k \in Channels : k \in stages(s) <=> Parity(rows[k] \cap s)

\* A singleton picks one bit.
LEMMA ParitySingleton ==
  ASSUME NEW k \in Channels, NEW s \in Seed
  PROVE  Parity({k} \cap s) <=> k \in s
<1>1. Cardinality({k}) = 1 /\ Cardinality({}) = 0
  BY FS_Singleton, FS_EmptySet
<1>2. CASE k \in s
  <2>1. {k} \cap s = {k}  BY <1>2
  <2> QED BY <1>1, <1>2, <2>1 DEF Parity
<1>3. CASE k \notin s
  <2>1. {k} \cap s = {}  BY <1>3
  <2> QED BY <1>1, <1>3, <2>1 DEF Parity
<1> QED BY <1>2, <1>3

\* One shift of the stages is one LfsrStep of the rows.
LEMMA LfsrStepDescribes ==
  ASSUME NEW rows \in RowFunctions, NEW s \in Seed, NEW st \in SUBSET Channels,
         \A k \in Channels : k \in st <=> Parity(rows[k] \cap s)
  PROVE  /\ LfsrStep(rows) \in RowFunctions
         /\ NextStages(st) \in SUBSET Channels
         /\ \A k \in Channels : k \in NextStages(st) <=> Parity(LfsrStep(rows)[k] \cap s)
<1> DEFINE top == NumChannels - 1  fb == rows[top]
<1>1. /\ top \in Channels /\ 0 \in Channels
      /\ \A k \in Channels : k # 0 => k - 1 \in Channels
      /\ 0 \notin LfsrTaps
  BY NumChannelsAssumption, ScanAssumption DEF Channels, ValidTaps
<1>2. \A k \in Channels : rows[k] \subseteq Channels
  BY DEF RowFunctions
<1>3. LfsrStep(rows) \in RowFunctions
  <2>1. fb \subseteq Channels
    BY <1>1, <1>2
  <2>2. ASSUME NEW k \in Channels, k # 0
        PROVE  XorSets(rows[k - 1], IF k \in LfsrTaps THEN fb ELSE {}) \subseteq Channels
    <3>1. rows[k - 1] \subseteq Channels  BY <1>1, <1>2, <2>2
    <3> HIDE DEF fb
    <3> QED BY <3>1, <2>1 DEF XorSets
  <2>3. \A k \in Channels : LfsrStep(rows)[k] \subseteq Channels
    BY <2>1, <2>2 DEF LfsrStep
  <2>4. LfsrStep(rows) = [k \in Channels |-> LfsrStep(rows)[k]]
    BY DEF LfsrStep
  <2> QED BY <2>3, <2>4 DEF RowFunctions
<1>4. ASSUME NEW k \in Channels
      PROVE  k \in NextStages(st) <=> Parity(LfsrStep(rows)[k] \cap s)
  <2>1. CASE k = 0
    <3>1. LfsrStep(rows)[k] = fb
      BY <2>1 DEF LfsrStep
    <3>2. k \in NextStages(st) <=> top \in st
      BY <2>1, <1>1 DEF NextStages
    <3> QED BY <3>1, <3>2, <1>1
  <2>2. CASE k # 0
    <3> DEFINE a == rows[k - 1] \cap s
               tap == IF k \in LfsrTaps THEN fb ELSE {}
               b == tap \cap s
    <3>1. k - 1 \in Channels
      BY <2>2, <1>1
    <3>2. LfsrStep(rows)[k] = XorSets(rows[k - 1], tap)
      BY <2>2 DEF LfsrStep
    <3>3. LfsrStep(rows)[k] \cap s = XorSets(a, b)
      BY <3>2 DEF XorSets
    <3>4. IsFiniteSet(a) /\ IsFiniteSet(b)
      <4>1. a \in SUBSET Channels /\ b \in SUBSET Channels
        BY DEF Seed
      <4> QED BY <4>1, ChannelsFinite
    <3>5. Parity(b) <=> (k \in LfsrTaps /\ top \in st)
      <4>1. CASE k \in LfsrTaps
        BY <4>1, <1>1
      <4>2. CASE k \notin LfsrTaps
        <5>1. b = {} /\ Cardinality({}) = 0
          BY <4>2, FS_EmptySet
        <5>2. ~Parity({})
          BY <5>1 DEF Parity
        <5> QED BY <4>2, <5>1, <5>2
      <4> QED BY <4>1, <4>2
    <3>6. Parity(a) <=> k - 1 \in st
      BY <3>1
    <3>7. k \in NextStages(st) <=> ((k - 1 \in st) /= (k \in LfsrTaps /\ top \in st))
      BY <2>2 DEF NextStages
    <3> DEFINE below == k - 1 \in st  fed == k \in LfsrTaps /\ top \in st
    <3>8. Parity(XorSets(a, b)) <=> (Parity(a) /= Parity(b))
      BY <3>4, ParityXor
    <3>9. Parity(a) \in BOOLEAN /\ Parity(b) \in BOOLEAN /\ below \in BOOLEAN /\ fed \in BOOLEAN
      BY DEF Parity
    <3>10. (Parity(b) <=> fed) /\ (Parity(a) <=> below) /\ (k \in NextStages(st) <=> (below /= fed))
      BY <3>5, <3>6, <3>7
    <3> HIDE DEF a, b, below, fed
    <3>11. k \in NextStages(st) <=> Parity(XorSets(a, b))
      BY <3>8, <3>9, <3>10
    <3> QED BY <3>3, <3>11
  <2> QED BY <2>1, <2>2
<1>5. NextStages(st) \in SUBSET Channels
  BY DEF NextStages
<1> QED BY <1>3, <1>4, <1>5

\* StageRows is what its equation says: a function that exists.
LEMMA StageRowsAreRows ==
  /\ StageRows \in [Cycles -> RowFunctions]
  /\ \A t \in Cycles : StageRows[t] = IF t = 1 THEN [i \in Channels |-> {i}]
                                      ELSE LfsrStep(StageRows[t - 1])
<1> DEFINE base == [i \in Channels |-> {i}]
           step == [r \in RowFunctions |-> LfsrStep(r)]
           G(f) == f = [t \in Cycles |-> IF t = 1 THEN base ELSE LfsrStep(f[t - 1])]
<1>1. base \in RowFunctions
  BY DEF RowFunctions
<1>2. step \in [RowFunctions -> RowFunctions]
  <2>1. ASSUME NEW r \in RowFunctions PROVE LfsrStep(r) \in RowFunctions
    <3> DEFINE s == {}  st == {k \in Channels : Parity(r[k] \cap s)}
    <3>1. s \in Seed /\ st \in SUBSET Channels
      BY DEF Seed
    <3>2. \A k \in Channels : k \in st <=> Parity(r[k] \cap s)
      OBVIOUS
    <3> HIDE DEF s, st
    <3> QED BY <3>1, <3>2, LfsrStepDescribes
  <2> QED BY <2>1
<1>3. MaxLength \in Nat /\ Cycles = 1 .. MaxLength
  BY ScanAssumption DEF Cycles
<1> HIDE DEF base, step
<1>4. PICK f \in [Cycles -> RowFunctions] :
        \A t \in Cycles : f[t] = IF t = 1 THEN base ELSE step[f[t - 1]]
  BY <1>1, <1>2, <1>3, StepwiseExists
<1>5. \A t \in Cycles : f[t] = IF t = 1 THEN base ELSE LfsrStep(f[t - 1])
  <2> TAKE t \in Cycles
  <2>1. CASE t = 1
    BY <2>1, <1>4
  <2>2. CASE t # 1
    <3>1. t - 1 \in Cycles
      BY <2>2, <1>3
    <3>2. f[t - 1] \in RowFunctions
      BY <3>1
    <3>3. step[f[t - 1]] = LfsrStep(f[t - 1])
      BY <3>2 DEF step
    <3> QED BY <2>2, <3>3, <1>4
  <2> QED BY <2>1, <2>2
<1>6. G(f)
  BY <1>5
<1>7. StageRows = CHOOSE g : G(g)
  BY DEF StageRows, base
<1>8. G(StageRows)
  <2> HIDE DEF G
  <2> QED BY <1>6, <1>7
<1>9. \A t \in Cycles : StageRows[t] = IF t = 1 THEN base ELSE LfsrStep(StageRows[t - 1])
  BY <1>8
<1>10. StageRows = [t \in Cycles |-> StageRows[t]]
  <2>1. \A g : G(g) => g = [t \in Cycles |-> g[t]]
    OBVIOUS
  <2> HIDE DEF G
  <2> QED BY <1>8, <2>1
<1>11. \A t \in Cycles : StageRows[t] = f[t]
  <2> DEFINE P == {t \in Cycles : StageRows[t] = f[t]}
  <2>1. MaxLength >= 1 => 1 \in P
    BY <1>3, <1>5, <1>9
  <2>2. \A i \in 1 .. MaxLength : i < MaxLength /\ i \in P => i + 1 \in P
    <3> TAKE i \in 1 .. MaxLength
    <3> HAVE i < MaxLength /\ i \in P
    <3>1. i + 1 \in Cycles /\ i + 1 # 1 /\ (i + 1) - 1 = i
      BY <1>3
    <3>2. StageRows[i + 1] = LfsrStep(StageRows[i]) /\ f[i + 1] = LfsrStep(f[i])
      BY <3>1, <1>5, <1>9
    <3> QED BY <3>1, <3>2
  <2>3. 1 .. MaxLength \subseteq P
    <3> HIDE DEF P
    <3> QED BY <2>1, <2>2, <1>3, IntervalInduction
  <2> QED BY <2>3, <1>3
<1>12. StageRows \in [Cycles -> RowFunctions]
  BY <1>10, <1>11
<1> QED BY <1>9, <1>12 DEF base

\* The trajectory of a seed is what its equation says.
LEMMA TrajectoryIsStages ==
  ASSUME NEW s \in Seed
  PROVE  \A t \in Cycles :
           /\ Trajectory(s)[t] \in SUBSET Channels
           /\ Trajectory(s)[t] = IF t = 1 THEN s ELSE NextStages(Trajectory(s)[t - 1])
<1> DEFINE step == [st \in SUBSET Channels |-> NextStages(st)]
           G(f) == f = [t \in Cycles |-> IF t = 1 THEN s ELSE NextStages(f[t - 1])]
<1>1. s \in SUBSET Channels /\ step \in [SUBSET Channels -> SUBSET Channels]
  BY DEF NextStages, Seed
<1>2. MaxLength \in Nat /\ Cycles = 1 .. MaxLength
  BY ScanAssumption DEF Cycles
<1> HIDE DEF step
<1>3. PICK f \in [Cycles -> SUBSET Channels] :
        \A t \in Cycles : f[t] = IF t = 1 THEN s ELSE step[f[t - 1]]
  <2> DEFINE S == SUBSET Channels
  <2>1. s \in S /\ step \in [S -> S]
    BY <1>1
  <2> HIDE DEF S
  <2>2. \E f \in [1 .. MaxLength -> S] :
          \A t \in 1 .. MaxLength : f[t] = IF t = 1 THEN s ELSE step[f[t - 1]]
    BY <2>1, <1>2, StepwiseExists
  <2> QED BY <2>2, <1>2 DEF S
<1>4. \A t \in Cycles : f[t] = IF t = 1 THEN s ELSE NextStages(f[t - 1])
  <2> TAKE t \in Cycles
  <2>1. CASE t = 1
    BY <2>1, <1>3
  <2>2. CASE t # 1
    <3>1. t - 1 \in Cycles
      BY <2>2, <1>2
    <3>2. f[t - 1] \in SUBSET Channels
      BY <3>1
    <3>3. step[f[t - 1]] = NextStages(f[t - 1])
      BY <3>2 DEF step
    <3> QED BY <2>2, <3>3, <1>3
  <2> QED BY <2>1, <2>2
<1>5. G(f)
  BY <1>4
<1>6. Trajectory(s) = CHOOSE g : G(g)
  BY DEF Trajectory
<1>7. G(Trajectory(s))
  <2> HIDE DEF G
  <2> QED BY <1>5, <1>6
<1>8. \A t \in Cycles :
        Trajectory(s)[t] = IF t = 1 THEN s ELSE NextStages(Trajectory(s)[t - 1])
  BY <1>7
<1>9. ASSUME NEW t \in Cycles PROVE Trajectory(s)[t] \in SUBSET Channels
  <2>1. NextStages(Trajectory(s)[t - 1]) \in SUBSET Channels
    BY DEF NextStages
  <2> QED BY <2>1, <1>1, <1>8
<1> QED BY <1>8, <1>9

\* care_bit_rows is about this ring generator: at every cycle of a load, a
\* stage holds the XOR of the seed bits its row names.
LEMMA StagesAreLinear ==
  ASSUME NEW s \in Seed
  PROVE  \A t \in Cycles, k \in Channels :
           k \in Trajectory(s)[t] <=> Parity(StageRows[t][k] \cap s)
<1> DEFINE Linear(t) == \A k \in Channels : k \in Trajectory(s)[t] <=> Parity(StageRows[t][k] \cap s)
           P == {t \in Cycles : Linear(t)}
<1>1. MaxLength \in Nat /\ Cycles = 1 .. MaxLength
  BY ScanAssumption DEF Cycles
<1>2. MaxLength >= 1 => Linear(1)
  <2> HAVE MaxLength >= 1
  <2>1. 1 \in Cycles
    BY <1>1
  <2>2. Trajectory(s)[1] = s /\ \A k \in Channels : StageRows[1][k] = {k}
    BY <2>1, TrajectoryIsStages, StageRowsAreRows
  <2> QED BY <2>2, ParitySingleton
<1>3. ASSUME NEW i \in 1 .. MaxLength, i < MaxLength, Linear(i)
      PROVE  Linear(i + 1)
  <2>1. i \in Cycles /\ i + 1 \in Cycles /\ i + 1 # 1 /\ (i + 1) - 1 = i
    BY <1>1, <1>3
  <2>2. /\ Trajectory(s)[i + 1] = NextStages(Trajectory(s)[i])
        /\ Trajectory(s)[i] \in SUBSET Channels
    BY <2>1, TrajectoryIsStages
  <2>3. StageRows[i + 1] = LfsrStep(StageRows[i]) /\ StageRows[i] \in RowFunctions
    BY <2>1, StageRowsAreRows
  <2> QED BY <2>2, <2>3, <1>3, LfsrStepDescribes
<1>4. 1 .. MaxLength \subseteq P
  <2>1. MaxLength >= 1 => 1 \in P
    BY <1>2, <1>1
  <2>2. \A i \in 1 .. MaxLength : i < MaxLength /\ i \in P => i + 1 \in P
    BY <1>3, <1>1
  <2> HIDE DEF P
  <2> QED BY <2>1, <2>2, <1>1, IntervalInduction
<1> QED BY <1>4, <1>1

\* A seed solves a pattern's system exactly if the ring generator loads the
\* pattern from it.
LEMMA SolutionsLoad ==
  ASSUME NEW p \in ScanPattern, NEW s \in Seed
  PROVE  s \in SolutionsOf(EquationsOf(p)) <=> LoadsFrom(p, s)
<1>1. DOMAIN p.load \subseteq Chains
  <2>1. PICK chains \in SUBSET Chains : p.load \in [chains -> [Cycles -> BOOLEAN]]
    BY DEF ScanPattern
  <2> QED BY <2>1
<1>2. ASSUME NEW c \in Chains, NEW t \in Cycles
      PROVE  Parity(CareBitRows[t][c] \cap s) = Parity(PhaseTaps[c] \cap Trajectory(s)[t])
  <2>1. PhaseTaps[c] \in SUBSET Channels
    BY ScanAssumption
  <2>2. StageRows[t] \in RowFunctions
    BY StageRowsAreRows
  <2>3. Parity(XorReduce(StageRows[t], PhaseTaps[c]) \cap s)
          <=> Parity({k \in PhaseTaps[c] : Parity(StageRows[t][k] \cap s)})
    BY <2>1, <2>2, ParityExchange
  <2>4. {k \in PhaseTaps[c] : Parity(StageRows[t][k] \cap s)} = PhaseTaps[c] \cap Trajectory(s)[t]
    BY <2>1, StagesAreLinear
  <2>5. CareBitRows[t][c] = XorReduce(StageRows[t], PhaseTaps[c])
    BY DEF CareBitRows
  <2> QED BY <2>3, <2>4, <2>5 DEF Parity
<1>3. s \in SolutionsOf(EquationsOf(p)) <=>
        \A c \in DOMAIN p.load, t \in Cycles :
          Cared(p, c, t) => Parity(CareBitRows[t][c] \cap s) = p.load[c][t]
  BY EquationsOfPattern
<1> QED BY <1>1, <1>2, <1>3 DEF LoadsFrom

\* solve_pattern_seed refuses a pattern only if the ring generator loads it
\* from no seed at all, for every pattern and every width.
THEOREM RefusedOnlyWhenImpossible == Spec => []RaisesOnlyWhenImpossible
<1>1. CallInv => RaisesOnlyWhenImpossible
  <2> SUFFICES ASSUME CallInv, stage = "raised", setup.mode = "compressed", NEW s \in Seed
               PROVE  ~LoadsFrom(pattern, s)
    BY DEF RaisesOnlyWhenImpossible
  <2>1. pattern \in ScanPattern /\ SolutionsOf(EquationsOf(pattern)) = {}
    BY DEF CallInv, pattern
  <2> QED BY <2>1, SolutionsLoad
<1> QED BY <1>1, CallStart, CallStep, PTL DEF Spec

----------------------------------------------------------------------------
(* A program carries a proof outline: between two operations stands an     *)
(* assertion, and each operation takes the one before it to the one after. *)
(* A retargeter appends an outlined program; playing an operation drops    *)
(* the first assertion and makes the second one true of the design.        *)

(* Operations. *)
Values == Seed \cup (UNION {Contents(c) : c \in Chains}) \cup [DOMAIN Fanout -> BOOLEAN]
Operation ==
  [op : {"iWrite", "iRead"}, pattern : Nat, instrument : Int, value : Values]
  \cup [op : {"PulsePin"}, pattern : Nat, purpose : {"capture", "settle", "load", "step"},
        count : Nat \ {0}, hold : SUBSET {0, 1}]
Writes(op, x) == op.op = "iWrite" /\ op.instrument = x
Pulses(op, purpose) == op.op = "PulsePin" /\ op.purpose = purpose

\* The payload of a chain's write.
Payload(p, c) == SequenceToPayload(StripLoadPadding(p.load[c], Length[c]))

(* Assertions: about a pattern, the chains whose write instrument drives its *)
(* payload, the seed on the channel, how many cycles of the load from it are *)
(* done, and how many shifts ago the response was captured.  Unsolved and -1 *)
(* say nothing.                                                              *)
Assertion ==
  [about : ScanPattern, loaded : SUBSET Chains, seed : Seed \cup {Unsolved},
   shifts : -1 .. MaxLength, age : Nat \cup {-1}]
SaysNothing(a) == a.loaded = {} /\ a.seed = Unsolved /\ a.shifts = -1 /\ a.age = -1
Say(p, loaded, s, shifts, age) ==
  [about |-> p, loaded |-> loaded, seed |-> s, shifts |-> shifts, age |-> age]
Nothing(p) == Say(p, {}, Unsolved, -1, -1)
Captured(p, age) == Say(p, {}, Unsolved, -1, age)

\* A call's patterns and mode, which outlines are about.
Job == [patterns |-> patterns, mode |-> setup.mode]

\* What p loads is in place.
InPlace(job, a, p) ==
  \/ DOMAIN p.load = {}
  \/ /\ a.about = p
     /\ IF job.mode = "compressed" THEN a.shifts = MaxLength ELSE DOMAIN p.load \subseteq a.loaded

\* What must be asserted where op is played.
Meets(job, a, op) ==
  \/ /\ op.op = "iWrite"
     /\ \/ op.instrument = tdi_channel_instrument /\ op.value \in Seed
        \/ op.instrument \in Chains /\ op.value \in Contents(op.instrument)
  \/ /\ op.op = "iRead" /\ a.age # -1
     /\ op.pattern \in DOMAIN job.patterns /\ a.about = job.patterns[op.pattern]
     /\ \/ /\ op.instrument \in Chains /\ a.age = 0
           /\ op.value = a.about.response[op.instrument]
        \/ /\ op.instrument = tdo_channel_instrument /\ a.age < MaxLength
           /\ op.value = ExpectedChannelValue(a.about, a.age + 1)
  \/ /\ op.op = "PulsePin" /\ op.pattern \in DOMAIN job.patterns
     /\ \/ /\ op.purpose = "capture" /\ op.count = 1
           /\ op.hold = IF job.mode = "compressed" THEN {0} ELSE Unlisted
           /\ InPlace(job, a, job.patterns[op.pattern])
        \/ op.purpose = "settle" /\ op.count = 1 /\ op.hold = {0}
        \/ /\ op.purpose = "load" /\ op.hold = {1} /\ job.mode = "compressed"
           /\ a.seed # Unsolved
           /\ op.count \in 1 .. MaxLength /\ a.shifts = MaxLength - op.count
        \/ op.purpose = "step" /\ op.count = 1 /\ op.hold = {1} /\ job.mode = "compacted"

\* What may be asserted once op has been played where a was.
Carries(job, a, op, b) ==
  /\ \A c \in b.loaded :
       \/ Writes(op, c) /\ op.value = Payload(b.about, c)
       \/ ~Writes(op, c) /\ c \in a.loaded /\ a.about = b.about
  /\ b.seed # Unsolved =>
       \/ Writes(op, tdi_channel_instrument) /\ op.value = b.seed /\ LoadsFrom(b.about, b.seed)
       \/ op.op = "PulsePin" /\ a.seed = b.seed /\ a.about = b.about
  /\ b.shifts # -1 =>
       /\ a.seed = b.seed /\ b.seed # Unsolved /\ a.about = b.about
       /\ \/ Pulses(op, "settle") /\ b.shifts = 0
          \/ Pulses(op, "load") /\ b.shifts = MaxLength
  /\ b.age # -1 =>
       \/ Pulses(op, "capture") /\ b.age = 0 /\ b.about = job.patterns[op.pattern]
       \/ Pulses(op, "step") /\ a.age # -1 /\ b.age = a.age + 1 /\ a.about = b.about
       \/ op.op = "iRead" /\ b.age = a.age /\ a.about = b.about

\* prog has an outline from a to b.
Outline(job, ops, asserted) ==
  \A i \in 1 .. Len(ops) :
    Meets(job, asserted[i], ops[i]) /\ Carries(job, asserted[i], ops[i], asserted[i + 1])
Runs(job, a, ops, b) ==
  /\ ops \in Seq(Operation)
  /\ \E asserted \in [1 .. Len(ops) + 1 -> Assertion] :
       asserted[1] = a /\ asserted[Len(ops) + 1] = b /\ Outline(job, ops, asserted)

----------------------------------------------------------------------------
(* Outlines. *)

\* No operation takes an assertion to itself.
LEMMA RunsNothing ==
  ASSUME NEW job, NEW a \in Assertion
  PROVE  Runs(job, a, << >>, a)
<1> DEFINE asserted == [i \in 1 .. 1 |-> a]
<1>1. << >> \in Seq(Operation) /\ Len(<< >>) = 0
  OBVIOUS
<1>2. asserted \in [1 .. 1 -> Assertion] /\ asserted[1] = a
  OBVIOUS
<1> HIDE DEF asserted
<1>3. Outline(job, << >>, asserted)
  BY <1>1 DEF Outline
<1>4. Len(<< >>) + 1 = 1
  BY <1>1
<1> QED BY <1>1, <1>2, <1>3, <1>4 DEF Runs

\* One operation that meets a and carries it to b.
LEMMA RunsOne ==
  ASSUME NEW job, NEW a \in Assertion, NEW b \in Assertion, NEW op \in Operation,
         Meets(job, a, op), Carries(job, a, op, b)
  PROVE  Runs(job, a, <<op>>, b)
<1> DEFINE asserted == [i \in 1 .. 2 |-> IF i = 1 THEN a ELSE b]  ops == <<op>>
<1>1. ops \in Seq(Operation) /\ Len(ops) = 1 /\ ops[1] = op
  OBVIOUS
<1>2. asserted \in [1 .. 2 -> Assertion] /\ asserted[1] = a /\ asserted[2] = b
  OBVIOUS
<1> HIDE DEF asserted, ops
<1>3. Outline(job, ops, asserted)
  <2> SUFFICES ASSUME NEW i \in 1 .. Len(ops)
               PROVE  Meets(job, asserted[i], ops[i]) /\ Carries(job, asserted[i], ops[i], asserted[i + 1])
    BY DEF Outline
  <2>1. i = 1 /\ i + 1 = 2
    BY <1>1
  <2> QED BY <2>1, <1>1, <1>2
<1>4. Len(ops) + 1 = 2
  BY <1>1
<1>5. Runs(job, a, ops, b)
  BY <1>1, <1>2, <1>3, <1>4 DEF Runs
<1> QED BY <1>5 DEF ops

\* One program after another.
LEMMA RunsThen ==
  ASSUME NEW job, NEW a, NEW b, NEW c, NEW ops, NEW more,
         Runs(job, a, ops, b), Runs(job, b, more, c)
  PROVE  Runs(job, a, ops \o more, c)
<1> DEFINE n == Len(ops)  m == Len(more)  all == ops \o more
<1>1. PICK x \in [1 .. n + 1 -> Assertion] : x[1] = a /\ x[n + 1] = b /\ Outline(job, ops, x)
  BY DEF Runs
<1>2. PICK y \in [1 .. m + 1 -> Assertion] : y[1] = b /\ y[m + 1] = c /\ Outline(job, more, y)
  BY DEF Runs
<1>3. ops \in Seq(Operation) /\ more \in Seq(Operation) /\ n \in Nat /\ m \in Nat
  BY DEF Runs
<1>4. /\ all \in Seq(Operation) /\ Len(all) = n + m
      /\ \A i \in 1 .. n + m : all[i] = IF i <= n THEN ops[i] ELSE more[i - n]
  <2>1. /\ Len(ops \o more) = n + m
        /\ \A i \in 1 .. n + m : (ops \o more)[i] = IF i <= n THEN ops[i] ELSE more[i - n]
        /\ ops \o more \in Seq(Operation)
    BY <1>3, ConcatProperties
  <2> QED BY <2>1
<1> DEFINE z == [i \in 1 .. n + m + 1 |-> IF i <= n THEN x[i] ELSE y[i - n]]
<1> HIDE DEF n, m, all
<1>5. z \in [1 .. n + m + 1 -> Assertion]
  <2> SUFFICES ASSUME NEW i \in 1 .. n + m + 1 PROVE (IF i <= n THEN x[i] ELSE y[i - n]) \in Assertion
    OBVIOUS
  <2>1. i <= n => i \in 1 .. n + 1
    BY <1>3
  <2>2. ~(i <= n) => i - n \in 1 .. m + 1
    BY <1>3
  <2> QED BY <2>1, <2>2
<1>6. \A i \in 1 .. n + m + 1 : z[i] = IF i <= n + 1 THEN x[i] ELSE y[i - n]
  <2> TAKE i \in 1 .. n + m + 1
  <2>1. CASE i = n + 1
    <3>1. i - n = 1 /\ ~(i <= n)
      BY <2>1, <1>3
    <3> QED BY <3>1, <2>1, <1>1, <1>2
  <2>2. CASE i # n + 1
    <3>1. i <= n <=> i <= n + 1
      BY <2>2, <1>3
    <3> QED BY <3>1
  <2> QED BY <2>1, <2>2
<1>7. \A i \in 1 .. n + m + 1 : z[i] = IF i <= n THEN x[i] ELSE y[i - n]
  OBVIOUS
<1> HIDE DEF z
<1>8. z[1] = a /\ z[n + m + 1] = c
  <2>1. 1 \in 1 .. n + m + 1 /\ 1 <= n + 1 /\ n + m + 1 \in 1 .. n + m + 1
    BY <1>3
  <2>2. ~(n + m + 1 <= n) /\ (n + m + 1) - n = m + 1
    BY <1>3
  <2> QED BY <2>1, <2>2, <1>1, <1>2, <1>6, <1>7
<1>9. Outline(job, all, z)
  <2> SUFFICES ASSUME NEW i \in 1 .. n + m
               PROVE  Meets(job, z[i], all[i]) /\ Carries(job, z[i], all[i], z[i + 1])
    BY <1>4 DEF Outline
  <2>1. i \in 1 .. n + m + 1 /\ i + 1 \in 1 .. n + m + 1
    BY <1>3
  <2>2. CASE i <= n
    <3>1. i \in 1 .. n /\ i + 1 <= n + 1
      BY <2>2, <1>3
    <3>2. z[i] = x[i] /\ z[i + 1] = x[i + 1] /\ all[i] = ops[i]
      BY <3>1, <2>1, <2>2, <1>4, <1>6, <1>7
    <3> QED BY <3>1, <3>2, <1>1 DEF Outline, n
  <2>3. CASE ~(i <= n)
    <3>1. i - n \in 1 .. m /\ (i + 1) - n = (i - n) + 1 /\ ~(i + 1 <= n)
      BY <2>3, <1>3
    <3>2. z[i] = y[i - n] /\ z[i + 1] = y[(i - n) + 1] /\ all[i] = more[i - n]
      BY <3>1, <2>1, <2>3, <1>4, <1>7
    <3> QED BY <3>1, <3>2, <1>2 DEF Outline, m
  <2> QED BY <2>2, <2>3
<1> QED BY <1>4, <1>5, <1>8, <1>9 DEF Runs, all

\* A program's first operation, and the rest of its outline.
LEMMA RunsHead ==
  ASSUME NEW job, NEW a, NEW c, NEW ops, Runs(job, a, ops, c), ops # << >>
  PROVE  /\ Head(ops) \in Operation /\ Meets(job, a, Head(ops))
         /\ \E b \in Assertion : Carries(job, a, Head(ops), b) /\ Runs(job, b, Tail(ops), c)
<1> DEFINE n == Len(ops)  rest == Tail(ops)
<1>1. PICK x \in [1 .. n + 1 -> Assertion] : x[1] = a /\ x[n + 1] = c /\ Outline(job, ops, x)
  BY DEF Runs
<1>2. /\ ops \in Seq(Operation) /\ n \in Nat /\ n # 0
      /\ Head(ops) = ops[1] /\ Head(ops) \in Operation
      /\ rest \in Seq(Operation) /\ Len(rest) = n - 1
      /\ \A i \in 1 .. n - 1 : rest[i] = ops[i + 1]
  <2>1. ops \in Seq(Operation)
    BY DEF Runs
  <2> QED BY <2>1, HeadTailProperties
<1> DEFINE y == [i \in 1 .. n |-> x[i + 1]]
<1> HIDE DEF n, rest
<1>3. y \in [1 .. n -> Assertion] /\ y[n] = c /\ \A i \in 1 .. n : y[i] = x[i + 1]
  BY <1>1, <1>2
<1> HIDE DEF y
<1>4. Outline(job, rest, y)
  <2> SUFFICES ASSUME NEW i \in 1 .. n - 1
               PROVE  Meets(job, y[i], rest[i]) /\ Carries(job, y[i], rest[i], y[i + 1])
    BY <1>2 DEF Outline
  <2>1. i \in 1 .. n /\ i + 1 \in 1 .. n
    BY <1>2
  <2>2. rest[i] = ops[i + 1] /\ y[i] = x[i + 1] /\ y[i + 1] = x[(i + 1) + 1]
    BY <2>1, <1>2, <1>3
  <2> QED BY <2>1, <2>2, <1>1 DEF Outline, n
<1>5. Len(rest) + 1 = n
  BY <1>2
<1>6. Runs(job, y[1], rest, c)
  BY <1>2, <1>3, <1>4, <1>5 DEF Runs
<1>7. 1 \in 1 .. n
  BY <1>2
<1>8. Meets(job, a, Head(ops)) /\ Carries(job, a, Head(ops), y[1]) /\ y[1] \in Assertion
  <2>1. Meets(job, x[1], ops[1]) /\ Carries(job, x[1], ops[1], x[1 + 1])
    BY <1>1, <1>7 DEF Outline, n
  <2> QED BY <2>1, <1>1, <1>2, <1>3, <1>7
<1> QED BY <1>2, <1>6, <1>8 DEF rest

\* The ends of an outline are assertions.
LEMMA RunsEnds ==
  ASSUME NEW job, NEW a, NEW b, NEW ops, Runs(job, a, ops, b)
  PROVE  /\ a \in Assertion /\ b \in Assertion /\ ops \in Seq(Operation)
         /\ ops = << >> => a = b
<1> DEFINE n == Len(ops)
<1>1. PICK x \in [1 .. n + 1 -> Assertion] : x[1] = a /\ x[n + 1] = b
  BY DEF Runs
<1>2. ops \in Seq(Operation) /\ n \in Nat
  BY DEF Runs
<1>3. 1 \in 1 .. n + 1 /\ n + 1 \in 1 .. n + 1 /\ (ops = << >> => n = 0)
  BY <1>2
<1> HIDE DEF n
<1> QED BY <1>1, <1>2, <1>3

\* One outlined program per step of a loop.
LEMMA RunsLoop ==
  ASSUME NEW job, NEW seqs \in Seq(Seq(Operation)),
         NEW inv \in [0 .. Len(seqs) -> Assertion],
         \A i \in 1 .. Len(seqs) : Runs(job, inv[i - 1], seqs[i], inv[i])
  PROVE  Runs(job, inv[0], FlattenSeq(seqs), inv[Len(seqs)])
<1> DEFINE n == Len(seqs)
<1>1. PICK F \in [0 .. n -> Seq(Operation)] :
        F[0] = << >> /\ (\A i \in 1 .. n : F[i] = F[i - 1] \o seqs[i]) /\ FlattenSeq(seqs) = F[n]
  BY FlattenPrefixes
<1>2. n \in Nat
  OBVIOUS
<1> HIDE DEF n
<1> DEFINE Good(k) == Runs(job, inv[0], F[k], inv[k])
           P == {k \in Nat : k <= n => Good(k)}
<1>3. Good(0)
  <2>1. inv[0] \in Assertion
    BY <1>2 DEF n
  <2> QED BY <2>1, <1>1, RunsNothing
<1>4. ASSUME NEW k \in Nat, k + 1 <= n, Good(k) PROVE Good(k + 1)
  <2>1. k + 1 \in 1 .. n /\ (k + 1) - 1 = k
    BY <1>2, <1>4
  <2>2. F[k + 1] = F[k] \o seqs[k + 1] /\ Runs(job, inv[k], seqs[k + 1], inv[k + 1])
    BY <2>1, <1>1 DEF n
  <2>3. Runs(job, inv[0], F[k] \o seqs[k + 1], inv[k + 1])
    BY <1>4, <2>2, RunsThen
  <2> QED BY <2>2, <2>3
<1> HIDE DEF Good
<1>5. 0 \in P /\ \A k \in Nat : k \in P => k + 1 \in P
  BY <1>2, <1>3, <1>4
<1>6. Nat \subseteq P
  <2> HIDE DEF P
  <2> QED BY <1>5, Induction
<1>7. Good(n)
  BY <1>6, <1>2
<1> QED BY <1>7, <1>1 DEF n, Good

\* What is asserted at the end of a program can be dropped.
LEMMA RunsForget ==
  ASSUME NEW job, NEW a, NEW b, NEW ops, NEW c \in Assertion,
         Runs(job, a, ops, b), ops # << >>, SaysNothing(c)
  PROVE  Runs(job, a, ops, c)
<1> DEFINE n == Len(ops)
<1>1. PICK x \in [1 .. n + 1 -> Assertion] : x[1] = a /\ x[n + 1] = b /\ Outline(job, ops, x)
  BY DEF Runs
<1>2. ops \in Seq(Operation) /\ n \in Nat /\ n # 0
  <2>1. ops \in Seq(Operation)
    BY DEF Runs
  <2> QED BY <2>1, EmptySeq
<1> DEFINE y == [x EXCEPT ![n + 1] = c]
<1>3. /\ y \in [1 .. n + 1 -> Assertion] /\ y[n + 1] = c
      /\ \A i \in 1 .. n : y[i] = x[i]
  BY <1>1, <1>2
<1> HIDE DEF y
<1>4. Outline(job, ops, y)
  <2> SUFFICES ASSUME NEW i \in 1 .. n
               PROVE  Meets(job, y[i], ops[i]) /\ Carries(job, y[i], ops[i], y[i + 1])
    BY DEF Outline
  <2>1. Meets(job, x[i], ops[i]) /\ Carries(job, x[i], ops[i], x[i + 1]) /\ y[i] = x[i]
    BY <1>1, <1>3 DEF Outline
  <2>2. CASE i = n
    <3>1. y[i + 1] = c
      BY <2>2, <1>3
    <3>2. Carries(job, y[i], ops[i], c)
      BY DEF Carries, SaysNothing
    <3> QED BY <2>1, <3>1, <3>2
  <2>3. CASE i # n
    <3>1. i + 1 \in 1 .. n
      BY <2>3, <1>2
    <3> QED BY <2>1, <3>1, <1>3
  <2> QED BY <2>2, <2>3
<1>5. y[1] = a
  <2>1. 1 \in 1 .. n
    BY <1>2
  <2> QED BY <2>1, <1>1, <1>3
<1> QED BY <1>2, <1>3, <1>4, <1>5 DEF Runs, n

----------------------------------------------------------------------------
(* What an assertion says of the design. *)

DeviceType ==
  /\ prev_scan_en \in BOOLEAN
  /\ lfsr \in SUBSET Channels
  /\ chain \in AnyContents /\ stimulus \in AnyContents

\* to_stil is told the level of the pin in every vector that could shift.
PinKnown == setup.mode \in {"raw", "compressed"} \/ setup.declared

\* k cycles of the load from s are done: the stages are those of the next
\* cycle, and a chain's first k cells hold what its scan-in was, the last first.
Loaded(s, k) ==
  /\ prev_scan_en <=> k > 0
  /\ k > 0 /\ k < MaxLength => lfsr = Trajectory(s)[k + 1]
  /\ \A c \in Chains : \A j \in 1 .. Length[c] :
       j <= k => chain[c][j] = Parity(PhaseTaps[c] \cap Trajectory(s)[k + 1 - j])

\* A response k shifts after the capture, with nothing scanned in.
Aged(response, k) ==
  [c \in Chains |-> [j \in 1 .. Length[c] |-> IF j <= k THEN FALSE ELSE response[c][j - k]]]

\* The WRITE instruments among these chains drive p's payloads.
Drives(p, loaded) == \A c \in loaded \cap setup.writes : stimulus[c] = Payload(p, c)

Holds(a) ==
  /\ Drives(a.about, a.loaded)
  /\ a.seed # Unsolved => tdi_channel = a.seed /\ LoadsFrom(a.about, a.seed)
  /\ a.shifts # -1 => a.seed # Unsolved /\ Loaded(a.seed, a.shifts)
  /\ a.age # -1 /\ PinKnown /\ Driven(a.about) => chain = Aged(a.about.response, a.age)

\* Chains are sequences of their lengths.
LEMMA ChainFacts ==
  /\ Chains = 1 .. Len(Length) /\ Len(Length) \in Nat
  /\ MaxLength \in Nat \ {0} /\ Cycles = 1 .. MaxLength
  /\ \A c \in Chains : Length[c] \in 1 .. MaxLength /\ Length[c] \in Nat
  /\ \A f \in AnyContents : \A c \in Chains :
       f[c] \in [1 .. Length[c] -> BOOLEAN] /\ f[c] \in Seq(BOOLEAN) /\ Len(f[c]) = Length[c]
<1>1. /\ Chains = 1 .. Len(Length) /\ Len(Length) \in Nat
      /\ MaxLength \in Nat \ {0} /\ Cycles = 1 .. MaxLength
      /\ \A c \in Chains : Length[c] \in 1 .. MaxLength /\ Length[c] \in Nat
  BY ScanAssumption DEF Chains, Cycles
<1>2. ASSUME NEW f \in AnyContents, NEW c \in Chains
      PROVE  f[c] \in [1 .. Length[c] -> BOOLEAN]
  BY DEF AnyContents, Contents
<1>3. ASSUME NEW f \in AnyContents, NEW c \in Chains
      PROVE  f[c] \in Seq(BOOLEAN) /\ Len(f[c]) = Length[c]
  <2> DEFINE g == f[c]  n == Length[c]
  <2>1. g \in [1 .. n -> BOOLEAN] /\ n \in Nat
    BY <1>1, <1>2
  <2> HIDE DEF g, n
  <2>2. g \in Seq(BOOLEAN) /\ Len(g) = n
    BY <2>1, FunctionIsSeq
  <2> QED BY <2>2 DEF g, n
<1> QED BY <1>1, <1>2, <1>3

\* A function that gives each chain contents of its length is contents.
LEMMA MakeContents ==
  ASSUME NEW f, f = [c \in Chains |-> f[c]],
         \A c \in Chains : f[c] \in [1 .. Length[c] -> BOOLEAN]
  PROVE  f \in AnyContents
<1>1. \A c \in Chains : f[c] \in Contents(c)
  BY DEF Contents
<1>2. f \in [Chains -> UNION {Contents(c) : c \in Chains}]
  <2>1. \A c \in Chains : f[c] \in UNION {Contents(d) : d \in Chains}
    BY <1>1
  <2> QED BY <2>1
<1> QED BY <1>1, <1>2 DEF AnyContents

\* A shift moves every cell's value one cell on and takes one in.
LEMMA ShiftMoves ==
  ASSUME chain \in AnyContents, ShiftEdge
  PROVE  /\ chain' \in AnyContents
         /\ \A c \in Chains : \A j \in 1 .. Length[c] :
              chain'[c][j] = IF j = 1 THEN ScanIn(c) ELSE chain[c][j - 1]
<1>1. chain' = [c \in Chains |-> <<ScanIn(c)>> \o SubSeq(chain[c], 1, Length[c] - 1)]
  BY DEF ShiftEdge
<1>2. ASSUME NEW c \in Chains
      PROVE  /\ chain'[c] \in [1 .. Length[c] -> BOOLEAN]
             /\ \A j \in 1 .. Length[c] : chain'[c][j] = IF j = 1 THEN ScanIn(c) ELSE chain[c][j - 1]
  <2> DEFINE n == Length[c]  x == ScanIn(c)  s == chain[c]
  <2>1. s \in Seq(BOOLEAN) /\ Len(s) = n /\ n \in Nat \ {0}
    BY ChainFacts
  <2>2. x \in BOOLEAN
    BY DEF ScanIn, Parity
  <2>3. chain'[c] = <<x>> \o SubSeq(s, 1, n - 1)
    BY <1>1
  <2> HIDE DEF x, n, s
  <2> DEFINE t == SubSeq(s, 1, n - 1)
  <2>4. t \in Seq(BOOLEAN) /\ Len(t) = n - 1 /\ \A j \in 1 .. n - 1 : t[j] = s[j]
    BY <2>1, SubSeqProperties
  <2> HIDE DEF t
  <2>5. <<x>> \in Seq(BOOLEAN) /\ Len(<<x>>) = 1 /\ <<x>>[1] = x
    BY <2>2
  <2> DEFINE h == <<x>>
  <2> HIDE DEF h
  <2>6. /\ Len(h \o t) = 1 + (n - 1)
        /\ \A j \in 1 .. 1 + (n - 1) : (h \o t)[j] = IF j <= 1 THEN h[j] ELSE t[j - 1]
        /\ h \o t \in Seq(BOOLEAN)
    BY <2>4, <2>5, ConcatProperties DEF h
  <2>7. 1 + (n - 1) = n
    BY <2>1
  <2>8. chain'[c] \in [1 .. n -> BOOLEAN]
    BY <2>3, <2>6, <2>7, LenProperties DEF h, t
  <2>9. \A j \in 1 .. n : chain'[c][j] = IF j = 1 THEN x ELSE s[j - 1]
    <3> TAKE j \in 1 .. n
    <3>1. chain'[c] = h \o t
      BY <2>3 DEF h, t
    <3>2. chain'[c][j] = IF j <= 1 THEN h[j] ELSE t[j - 1]
      BY <3>1, <2>6, <2>7
    <3>3. CASE j = 1
      BY <3>2, <3>3, <2>5 DEF h
    <3>4. CASE j # 1
      <4>1. j - 1 \in 1 .. n - 1 /\ ~(j <= 1)
        BY <3>4, <2>1
      <4> QED BY <4>1, <3>2, <3>4, <2>4
    <3> QED BY <3>3, <3>4
  <2> QED BY <2>8, <2>9 DEF n, x, s
<1>3. chain' = [c \in Chains |-> chain'[c]]
  BY <1>1
<1> QED BY <1>2, <1>3, MakeContents

\* One cycle of a load from a seed: the first one reseeds.
LEMMA LoadCycle ==
  ASSUME DeviceType, NEW s \in Seed, NEW k \in Nat, k < MaxLength, Loaded(s, k),
         tdi_channel = s, setup.mode = "compressed", scan_enable' = TRUE,
         NEW p, ClockEdge(p)
  PROVE  Loaded(s, k + 1)' /\ DeviceType'
<1>1. /\ prev_scan_en <=> k > 0
      /\ k > 0 => lfsr = Trajectory(s)[k + 1]
  BY DEF Loaded
<1>2. /\ k + 1 \in Cycles /\ 1 \in Cycles /\ MaxLength \in Nat
      /\ k + 1 < MaxLength => (k + 1) + 1 \in Cycles /\ (k + 1) + 1 # 1 /\ ((k + 1) + 1) - 1 = k + 1
  BY ChainFacts
<1>3. Trajectory(s)[1] = s /\ Trajectory(s)[k + 1] \in SUBSET Channels
  BY <1>2, TrajectoryIsStages
<1>4. Stages = Trajectory(s)[k + 1]
  <2>1. CASE k = 0
    <3>1. Reseed
      BY <2>1, <1>1 DEF Reseed
    <3> QED BY <3>1, <2>1, <1>3 DEF Stages
  <2>2. CASE k # 0
    <3>1. ~Reseed /\ k > 0
      BY <2>2, <1>1 DEF Reseed
    <3> QED BY <3>1, <1>1 DEF Stages
  <2> QED BY <2>1, <2>2
<1>5. /\ ShiftEdge /\ lfsr' = NextStages(Stages) /\ prev_scan_en' = TRUE
      /\ stimulus' = stimulus
  BY DEF ClockEdge, Shifting
<1>6. k + 1 < MaxLength => lfsr' = Trajectory(s)[(k + 1) + 1]
  BY <1>2, <1>4, <1>5, TrajectoryIsStages
<1>7. /\ chain' \in AnyContents
      /\ \A c \in Chains : \A j \in 1 .. Length[c] :
           chain'[c][j] = IF j = 1 THEN ScanIn(c) ELSE chain[c][j - 1]
  BY <1>5, ShiftMoves DEF DeviceType
<1>8. \A c \in Chains : ScanIn(c) = Parity(PhaseTaps[c] \cap Trajectory(s)[k + 1])
  BY <1>4 DEF ScanIn, Parity
<1>9. ASSUME NEW c \in Chains, NEW j \in 1 .. Length[c], j <= k + 1
      PROVE  chain'[c][j] = Parity(PhaseTaps[c] \cap Trajectory(s)[(k + 1) + 1 - j])
  <2>1. CASE j = 1
    <3>1. (k + 1) + 1 - j = k + 1
      BY <2>1
    <3>2. chain'[c][j] = ScanIn(c)
      BY <2>1, <1>7
    <3> QED BY <3>1, <3>2, <1>8
  <2>2. CASE j # 1
    <3>1. j - 1 \in 1 .. Length[c] /\ j - 1 <= k /\ k + 1 - (j - 1) = (k + 1) + 1 - j
      BY <2>2, <1>9, ChainFacts
    <3>2. chain[c][j - 1] = Parity(PhaseTaps[c] \cap Trajectory(s)[k + 1 - (j - 1)])
      BY <3>1 DEF Loaded
    <3>3. chain'[c][j] = chain[c][j - 1]
      BY <2>2, <1>7
    <3> QED BY <3>1, <3>2, <3>3
  <2> QED BY <2>1, <2>2
<1>10. lfsr' \in SUBSET Channels
  BY <1>5 DEF NextStages
<1>11. DeviceType'
  BY <1>5, <1>7, <1>10 DEF DeviceType
<1>12. (k + 1 > 0) /\ (prev_scan_en' <=> k + 1 > 0)
  BY <1>5
<1> QED BY <1>6, <1>9, <1>11, <1>12 DEF Loaded

----------------------------------------------------------------------------
(* What a pattern needs is what its program puts in place. *)

\* A payload has the load's last cycles, the last one nearest scan-in.
LEMMA PayloadCells ==
  ASSUME NEW p \in ScanPattern, NEW c \in DOMAIN p.load
  PROVE  /\ c \in Chains /\ Payload(p, c) \in Contents(c)
         /\ \A j \in 1 .. Length[c] : Payload(p, c)[j] = p.load[c][MaxLength + 1 - j]
<1> DEFINE n == Length[c]  f == p.load[c]  m == MaxLength
<1>1. c \in Chains /\ f \in [1 .. m -> BOOLEAN]
  <2>1. PICK chains \in SUBSET Chains : p.load \in [chains -> [Cycles -> BOOLEAN]]
    BY DEF ScanPattern
  <2> QED BY <2>1, ChainFacts
<1>2. n \in 1 .. m /\ n \in Nat /\ m \in Nat
  BY <1>1, ChainFacts
<1>3. Payload(p, c) = Reverse(SubSeq(f, Len(f) - n + 1, Len(f)))
  BY DEF Payload, SequenceToPayload, StripLoadPadding
<1> HIDE DEF f, n, m
<1>4. f \in Seq(BOOLEAN) /\ Len(f) = m
  BY <1>1, <1>2, FunctionIsSeq
<1> DEFINE t == SubSeq(f, m - n + 1, m)
<1>5. /\ t \in Seq(BOOLEAN) /\ Len(t) = n
      /\ \A j \in 1 .. n : t[j] = f[m - n + j]
  <2>1. m - n + 1 \in 1 .. m + 1 /\ m \in m - n + 1 - 1 .. m
    BY <1>2
  <2>2. /\ t \in Seq(BOOLEAN)
        /\ Len(t) = m - (m - n + 1) + 1
        /\ \A j \in 1 .. m - (m - n + 1) + 1 : t[j] = f[(m - n + 1) + j - 1]
    BY <2>1, <1>2, <1>4, SubSeqProperties
  <2>3. m - (m - n + 1) + 1 = n
    BY <1>2
  <2> HIDE DEF t
  <2>4. \A j \in 1 .. n : t[j] = f[m - n + j]
    <3> TAKE j \in 1 .. n
    <3>1. (m - n + 1) + j - 1 = m - n + j
      BY <1>2
    <3> QED BY <3>1, <2>2, <2>3
  <2> QED BY <2>2, <2>3, <2>4
<1> HIDE DEF t
<1>6. Payload(p, c) = [j \in 1 .. n |-> t[(n - j) + 1]]
  BY <1>3, <1>4, <1>5 DEF Reverse, t
<1>7. ASSUME NEW j \in 1 .. n
      PROVE  t[(n - j) + 1] = f[m + 1 - j] /\ t[(n - j) + 1] \in BOOLEAN
  <2>1. (n - j) + 1 \in 1 .. n /\ m - n + ((n - j) + 1) = m + 1 - j
    BY <1>2
  <2>2. m + 1 - j \in 1 .. m
    BY <1>2
  <2> QED BY <2>1, <2>2, <1>1, <1>5
<1>8. Payload(p, c) \in [1 .. n -> BOOLEAN] /\ \A j \in 1 .. n : Payload(p, c)[j] = f[m + 1 - j]
  BY <1>6, <1>7
<1> QED BY <1>1, <1>8 DEF n, f, m, Contents

\* A load complete in the chains.
LEMMA LoadedIsWell ==
  ASSUME NEW p \in ScanPattern, NEW s \in Seed, Loaded(s, MaxLength), LoadsFrom(p, s)
  PROVE  WellLoaded(p, chain)
<1> SUFFICES ASSUME NEW c \in DOMAIN p.load, NEW t \in Cycles,
                    Cared(p, c, t), t > MaxLength - Length[c]
             PROVE  chain[c][MaxLength + 1 - t] = p.load[c][t]
  BY DEF WellLoaded
<1>1. c \in Chains
  BY PayloadCells
<1>2. Parity(PhaseTaps[c] \cap Trajectory(s)[t]) = p.load[c][t]
  BY DEF LoadsFrom
<1> DEFINE j == MaxLength + 1 - t
<1>3. j \in 1 .. Length[c] /\ j <= MaxLength /\ MaxLength + 1 - j = t
  BY <1>1, ChainFacts
<1> HIDE DEF j
<1>4. chain[c][j] = Parity(PhaseTaps[c] \cap Trajectory(s)[MaxLength + 1 - j])
  BY <1>1, <1>3 DEF Loaded
<1> QED BY <1>2, <1>3, <1>4 DEF j

\* A load complete in the write instruments.
LEMMA WrittenIsWell ==
  ASSUME NEW p \in ScanPattern, \A c \in DOMAIN p.load : stimulus[c] = Payload(p, c)
  PROVE  WellLoaded(p, stimulus)
<1> SUFFICES ASSUME NEW c \in DOMAIN p.load, NEW t \in Cycles,
                    Cared(p, c, t), t > MaxLength - Length[c]
             PROVE  stimulus[c][MaxLength + 1 - t] = p.load[c][t]
  BY DEF WellLoaded
<1> DEFINE j == MaxLength + 1 - t
<1>1. j \in 1 .. Length[c] /\ MaxLength + 1 - j = t
  BY PayloadCells, ChainFacts
<1> HIDE DEF j
<1>2. Payload(p, c)[j] = p.load[c][MaxLength + 1 - j]
  BY <1>1, PayloadCells
<1> QED BY <1>1, <1>2 DEF j

\* What an outline calls in place is where the design captures from.
LEMMA InPlaceIsWell ==
  ASSUME NEW a \in Assertion, Holds(a), NEW p \in ScanPattern, InPlace(Job, a, p), Driven(p)
  PROVE  WellLoaded(p, LoadTarget)
<1>1. CASE DOMAIN p.load = {}
  BY <1>1 DEF WellLoaded
<1>2. CASE a.about = p /\ setup.mode = "compressed" /\ a.shifts = MaxLength
  <2>1. a.seed \in Seed /\ Loaded(a.seed, MaxLength) /\ LoadsFrom(p, a.seed)
    <3>1. a.shifts # -1
      BY <1>2, ChainFacts
    <3>2. a.seed \in Seed \cup {Unsolved}
      BY DEF Assertion
    <3> QED BY <1>2, <3>1, <3>2 DEF Holds
  <2> QED BY <2>1, <1>2, LoadedIsWell DEF LoadTarget
<1>3. CASE a.about = p /\ setup.mode # "compressed" /\ DOMAIN p.load \subseteq a.loaded
  <2>1. \A c \in DOMAIN p.load : stimulus[c] = Payload(p, c)
    BY <1>3 DEF Holds, Drives, Driven
  <2> QED BY <2>1, <1>3, WrittenIsWell DEF LoadTarget
<1> QED BY <1>1, <1>2, <1>3 DEF InPlace, Job

----------------------------------------------------------------------------
(* Playing an operation makes the next assertion true. *)

\* A write reaches its instrument and nothing else.
LEMMA AfterWrite ==
  ASSUME DeviceType, NEW a \in Assertion, NEW b \in Assertion, Holds(a), NEW job,
         NEW op \in Operation, op.op = "iWrite", Meets(job, a, op), Carries(job, a, op, b),
         IF op.instrument = tdi_channel_instrument
         THEN tdi_channel' = op.value /\ UNCHANGED stimulus
         ELSE stimulus' = Latches(op.instrument, op.value) /\ UNCHANGED tdi_channel,
         UNCHANGED <<setup, prev_scan_en, lfsr, chain>>
  PROVE  DeviceType' /\ Holds(b)'
<1>1. \/ op.instrument = tdi_channel_instrument /\ op.value \in Seed
      \/ op.instrument \in Chains /\ op.value \in Contents(op.instrument)
  BY DEF Meets
<1>2. \A c \in Chains : c # tdi_channel_instrument
  BY ChainFacts DEF tdi_channel_instrument
<1>3. stimulus = [c \in Chains |-> stimulus[c]]
  BY DEF DeviceType, AnyContents
<1>4. stimulus' = [c \in Chains |-> stimulus'[c]]
  BY <1>3 DEF Latches
<1>5. \A c \in Chains :
        stimulus'[c] = IF op.instrument = c /\ c \in setup.writes THEN op.value ELSE stimulus[c]
  BY <1>2, <1>3 DEF Latches
<1>6. stimulus' \in AnyContents
  <2>1. ASSUME NEW c \in Chains PROVE stimulus'[c] \in [1 .. Length[c] -> BOOLEAN]
    <3>1. CASE op.instrument = c /\ c \in setup.writes
      BY <3>1, <1>1, <1>2, <1>5 DEF Contents
    <3>2. CASE ~(op.instrument = c /\ c \in setup.writes)
      BY <3>2, <1>5, ChainFacts DEF DeviceType
    <3> QED BY <3>1, <3>2
  <2> QED BY <2>1, <1>4, MakeContents
<1>7. DeviceType'
  BY <1>6 DEF DeviceType
<1>8. Drives(b.about, b.loaded)'
  <2> SUFFICES ASSUME NEW c \in b.loaded, c \in setup.writes
               PROVE  stimulus'[c] = Payload(b.about, c)
    BY DEF Drives
  <2>1. c \in Chains
    BY DEF Assertion
  <2>2. CASE Writes(op, c) /\ op.value = Payload(b.about, c)
    BY <2>1, <2>2, <1>5 DEF Writes
  <2>3. CASE ~Writes(op, c) /\ c \in a.loaded /\ a.about = b.about
    BY <2>1, <2>3, <1>5 DEF Writes, Holds, Drives
  <2> QED BY <2>2, <2>3 DEF Carries
<1>9. b.seed # Unsolved => tdi_channel' = b.seed /\ LoadsFrom(b.about, b.seed)
  BY DEF Carries, Writes
<1>10. b.shifts = -1 /\ b.age = -1
  BY DEF Carries, Pulses
<1> QED BY <1>7, <1>8, <1>9, <1>10 DEF Holds

\* A read changes nothing.
LEMMA AfterRead ==
  ASSUME DeviceType, NEW a \in Assertion, NEW b \in Assertion, Holds(a), NEW job,
         NEW op \in Operation, op.op = "iRead", Carries(job, a, op, b),
         UNCHANGED <<setup, stimulus, tdi_channel, prev_scan_en, lfsr, chain>>
  PROVE  DeviceType' /\ Holds(b)'
<1>1. DeviceType'
  BY DEF DeviceType
<1>2. Drives(b.about, b.loaded)'
  BY DEF Carries, Holds, Writes, Drives
<1>3. b.seed = Unsolved /\ b.shifts = -1
  BY DEF Carries, Pulses, Writes
<1>4. b.age # -1 => b.age = a.age /\ a.about = b.about
  BY DEF Carries, Pulses
<1>5. b.age # -1 /\ PinKnown' /\ Driven(b.about)' => chain' = Aged(b.about.response, b.age)
  BY <1>4 DEF Holds, PinKnown, Driven
<1> QED BY <1>1, <1>2, <1>3, <1>5 DEF Holds

\* What a pulse leaves alone.
LEMMA PulseFrame ==
  ASSUME NEW a \in Assertion, NEW b \in Assertion, Holds(a), NEW job,
         NEW op \in Operation, op.op = "PulsePin", Carries(job, a, op, b),
         UNCHANGED <<setup, stimulus, tdi_channel>>
  PROVE  /\ Drives(b.about, b.loaded)'
         /\ b.seed # Unsolved => /\ a.seed = b.seed /\ a.about = b.about
                                 /\ tdi_channel' = b.seed /\ LoadsFrom(b.about, b.seed)
<1>1. \A x : ~Writes(op, x)
  BY DEF Writes
<1>2. Drives(b.about, b.loaded)'
  BY <1>1 DEF Carries, Holds, Drives
<1>3. b.seed # Unsolved => a.seed = b.seed /\ a.about = b.about
  BY <1>1 DEF Carries
<1> QED BY <1>2, <1>3 DEF Holds

\* The two levels hold_pins can give, and none.
LEMMA HoldLevels == {0} # {1} /\ {0} # {} /\ {1} # {} /\ Unlisted = {}
<1>1. 0 \in {0} /\ 0 \notin {1} /\ 1 \in {1}
  OBVIOUS
<1> QED BY <1>1 DEF Unlisted

\* A pulse, functional or not, keeps the design's types.
LEMMA PulseTypes ==
  ASSUME DeviceType, NEW p \in ScanPattern, scan_enable' \in BOOLEAN, ClockEdge(p)
  PROVE  DeviceType'
<1>1. chain' \in AnyContents
  <2>1. CASE Shifting
    BY <2>1, ShiftMoves DEF ClockEdge, DeviceType
  <2>2. CASE ~Shifting
    <3>1. p.response \in AnyContents
      BY DEF ScanPattern
    <3> QED BY <2>2, <3>1 DEF ClockEdge, FunctionalEdge
  <2> QED BY <2>1, <2>2
<1>2. lfsr' \in SUBSET Channels
  BY DEF ClockEdge, NextStages, DeviceType
<1>3. prev_scan_en' \in BOOLEAN /\ stimulus' \in AnyContents
  BY DEF ClockEdge, DeviceType
<1> QED BY <1>1, <1>2, <1>3 DEF DeviceType

\* A response just captured has not moved.
LEMMA AgedZero ==
  ASSUME NEW r \in AnyContents
  PROVE  Aged(r, 0) = r
<1>1. r = [c \in Chains |-> r[c]]
  BY DEF AnyContents
<1>2. \A c \in Chains : [j \in 1 .. Length[c] |-> IF j <= 0 THEN FALSE ELSE r[c][j - 0]] = r[c]
  <2> TAKE c \in Chains
  <2> DEFINE n == Length[c]  g == r[c]
  <2>1. g = [j \in 1 .. n |-> g[j]] /\ n \in Nat
    BY ChainFacts
  <2> HIDE DEF n, g
  <2>2. \A j \in 1 .. n : (IF j <= 0 THEN FALSE ELSE g[j - 0]) = g[j]
    <3> TAKE j \in 1 .. n
    <3>1. ~(j <= 0) /\ j - 0 = j
      BY <2>1
    <3> QED BY <3>1
  <2>3. [j \in 1 .. n |-> IF j <= 0 THEN FALSE ELSE g[j - 0]] = g
    BY <2>1, <2>2
  <2> QED BY <2>3 DEF n, g
<1> QED BY <1>1, <1>2 DEF Aged

\* The capture: a design whose pattern is in place answers with its response.
LEMMA AfterCapture ==
  ASSUME DeviceType, NEW a \in Assertion, NEW b \in Assertion, Holds(a),
         patterns \in Seq(ScanPattern), scan_enable \in BOOLEAN, setup \in Setups,
         NEW op \in Operation, Pulses(op, "capture"),
         Meets(Job, a, op), Carries(Job, a, op, b),
         scan_enable' = PulseLevel(op), ClockEdge(patterns[op.pattern]), UNCHANGED setup
  PROVE  /\ DeviceType' /\ Holds(b)'
         /\ Driven(patterns[op.pattern]) => WellLoaded(patterns[op.pattern], LoadTarget)
         /\ PinKnown => ~Shifting
<1> DEFINE p == patterns[op.pattern]
<1>1. /\ op.op = "PulsePin" /\ op.pattern \in DOMAIN patterns
      /\ op.hold = IF setup.mode = "compressed" THEN {0} ELSE Unlisted
      /\ InPlace(Job, a, p)
  BY DEF Meets, Pulses, Job
<1>2. p \in ScanPattern
  BY <1>1
<1> HIDE DEF p
<1>3. Driven(p) => WellLoaded(p, LoadTarget)
  BY <1>1, <1>2, InPlaceIsWell
<1>4. /\ setup.mode \in {"raw", "compressed", "compacted"}
      /\ setup.declared \in BOOLEAN
  <2>1. setup \in [mode : {"raw", "compressed", "compacted"}, declared : BOOLEAN,
                 writes : SUBSET Chains]
    BY PatternsAssumption
  <2> QED BY <2>1
<1>5. {0} # {1} /\ {0} # {} /\ Unlisted = {}
  BY HoldLevels
<1>6. scan_enable' \in BOOLEAN /\ (PinKnown => ~Shifting)
  <2>1. scan_enable' \in BOOLEAN
    BY DEF PulseLevel, Undriven
  <2>2. CASE setup.mode = "raw"
    BY <2>1, <2>2 DEF Shifting
  <2>3. CASE setup.mode = "compressed"
    <3>1. ~PulseLevel(op)
      BY <2>3, <1>1, <1>5 DEF PulseLevel
    <3> QED BY <2>1, <3>1 DEF Shifting
  <2>4. CASE setup.mode = "compacted"
    <3>1. PinKnown => ~PulseLevel(op)
      BY <2>4, <1>1, <1>5 DEF PulseLevel, Undriven, PinKnown
    <3> QED BY <2>1, <3>1 DEF Shifting
  <2> QED BY <2>2, <2>3, <2>4, <2>1, <1>4
<1>7. DeviceType'
  BY <1>2, <1>6, PulseTypes DEF p
<1>8. /\ Drives(b.about, b.loaded)'
      /\ b.seed # Unsolved => tdi_channel' = b.seed /\ LoadsFrom(b.about, b.seed)
  BY <1>1, PulseFrame DEF ClockEdge
<1>9. b.shifts = -1
  BY DEF Carries, Pulses
<1>10. b.age # -1 => b.age = 0 /\ b.about = p
  BY DEF Carries, Pulses, Job, p
<1>11. PinKnown' /\ Driven(b.about)' /\ b.about = p => chain' = p.response
  <2>1. PinKnown => FunctionalEdge(p)
    BY <1>6 DEF ClockEdge, p
  <2>2. (PinKnown' => PinKnown) /\ (Driven(b.about)' => Driven(b.about))
    BY DEF PinKnown, Driven
  <2> QED BY <2>1, <2>2, <1>3 DEF FunctionalEdge
<1>12. p.response \in AnyContents
  BY <1>2 DEF ScanPattern
<1>13. b.age # -1 /\ PinKnown' /\ Driven(b.about)' => chain' = Aged(b.about.response, b.age)
  BY <1>10, <1>11, <1>12, AgedZero
<1>14. Holds(b)'
  BY <1>8, <1>9, <1>13 DEF Holds
<1> QED BY <1>3, <1>6, <1>7, <1>14 DEF p

\* The settling edge leaves the ring generator ready to reseed.
LEMMA AfterSettle ==
  ASSUME DeviceType, NEW a \in Assertion, NEW b \in Assertion, Holds(a), NEW job,
         NEW op \in Operation, Pulses(op, "settle"), Meets(job, a, op), Carries(job, a, op, b),
         scan_enable' = PulseLevel(op), NEW p \in ScanPattern, ClockEdge(p), UNCHANGED setup
  PROVE  DeviceType' /\ Holds(b)'
<1>1. op.op = "PulsePin" /\ op.hold = {0}
  BY DEF Meets, Pulses
<1>2. scan_enable' = FALSE
  BY <1>1, HoldLevels DEF PulseLevel
<1>3. DeviceType'
  BY <1>2, PulseTypes
<1>4. /\ Drives(b.about, b.loaded)'
      /\ b.seed # Unsolved => tdi_channel' = b.seed /\ LoadsFrom(b.about, b.seed)
  BY <1>1, PulseFrame DEF ClockEdge
<1>5. prev_scan_en' = FALSE
  BY <1>2 DEF ClockEdge
<1>6. b.shifts # -1 => b.shifts = 0 /\ b.seed # Unsolved
  BY DEF Carries, Pulses
<1>7. Loaded(b.seed, 0)'
  <2>1. \A c \in Chains : \A j \in 1 .. Length[c] : ~(j <= 0)
    BY ChainFacts
  <2>2. ~(0 > 0)
    OBVIOUS
  <2> QED BY <2>1, <2>2, <1>5 DEF Loaded
<1>8. b.age = -1
  BY <1>1 DEF Carries, Pulses
<1>9. b.shifts # -1 => b.seed # Unsolved /\ Loaded(b.seed, b.shifts)'
  BY <1>6, <1>7
<1> QED BY <1>3, <1>4, <1>8, <1>9 DEF Holds

\* One cycle of the load.  More of them may follow.
LEMMA AfterLoad ==
  ASSUME DeviceType, NEW a \in Assertion, NEW b \in Assertion, Holds(a),
         NEW op \in Operation, Pulses(op, "load"), Meets(Job, a, op), Carries(Job, a, op, b),
         scan_enable' = PulseLevel(op), NEW p \in ScanPattern, ClockEdge(p), UNCHANGED setup
  PROVE  /\ DeviceType'
         /\ op.count = 1 => Holds(b)'
         /\ op.count > 1 => \E c \in Assertion :
              /\ Holds(c)'
              /\ Meets(Job, c, [op EXCEPT !.count = @ - 1])
              /\ Carries(Job, c, [op EXCEPT !.count = @ - 1], b)
<1> DEFINE k == a.shifts
<1>1. /\ op.op = "PulsePin" /\ op.purpose = "load" /\ op.hold = {1}
      /\ op.count \in 1 .. MaxLength /\ k = MaxLength - op.count
      /\ a.seed # Unsolved /\ setup.mode = "compressed" /\ op.pattern \in DOMAIN patterns
  BY DEF Meets, Pulses, Job
<1>2. scan_enable' = TRUE
  BY <1>1, HoldLevels DEF PulseLevel
<1>3. k \in Nat /\ k < MaxLength /\ k # -1 /\ MaxLength \in Nat
  BY <1>1, ChainFacts
<1>4. a.seed \in Seed /\ Loaded(a.seed, k) /\ tdi_channel = a.seed
  <2>1. a.seed \in Seed \cup {Unsolved}
    BY DEF Assertion
  <2> QED BY <2>1, <1>1, <1>3 DEF Holds
<1> HIDE DEF k
<1>5. Loaded(a.seed, k + 1)' /\ DeviceType'
  BY <1>1, <1>2, <1>3, <1>4, LoadCycle
<1>6. UNCHANGED <<setup, stimulus, tdi_channel>>
  BY DEF ClockEdge
<1>7. /\ Drives(b.about, b.loaded)'
      /\ b.seed # Unsolved => /\ a.seed = b.seed /\ a.about = b.about
                              /\ tdi_channel' = b.seed /\ LoadsFrom(b.about, b.seed)
  BY <1>1, <1>6, PulseFrame
<1>8. b.age = -1
  BY <1>1 DEF Carries, Pulses
<1>9. b.shifts # -1 => b.shifts = MaxLength /\ b.seed # Unsolved /\ b.seed = a.seed
  BY <1>1 DEF Carries, Pulses
<1>10. ASSUME op.count = 1 PROVE Holds(b)'
  <2>1. k + 1 = MaxLength
    BY <1>1, <1>3, <1>10 DEF k
  <2>2. b.shifts # -1 => b.seed # Unsolved /\ Loaded(b.seed, b.shifts)'
    BY <2>1, <1>5, <1>9
  <2> QED BY <2>2, <1>7, <1>8 DEF Holds
<1>11. ASSUME op.count > 1
       PROVE  \E c \in Assertion :
                /\ Holds(c)'
                /\ Meets(Job, c, [op EXCEPT !.count = @ - 1])
                /\ Carries(Job, c, [op EXCEPT !.count = @ - 1], b)
  <2> DEFINE c == [a EXCEPT !.shifts = k + 1, !.age = -1]
             rest == [op EXCEPT !.count = @ - 1]
  <2>1. /\ c \in Assertion
        /\ c.about = a.about /\ c.loaded = a.loaded /\ c.seed = a.seed
        /\ c.shifts = k + 1 /\ c.age = -1
    <3>1. k + 1 \in -1 .. MaxLength
      BY <1>3
    <3> QED BY <3>1 DEF Assertion
  <2>2. /\ rest.op = "PulsePin" /\ rest.purpose = "load" /\ rest.hold = {1}
        /\ rest.count = op.count - 1 /\ rest.pattern = op.pattern
    <3>1. op \in [op : {"PulsePin"}, pattern : Nat, purpose : {"capture", "settle", "load", "step"},
                  count : Nat \ {0}, hold : SUBSET {0, 1}]
      BY <1>1 DEF Operation
    <3> QED BY <3>1, <1>1
  <2> HIDE DEF c, rest
  <2>3. Holds(c)'
    <3>1. Drives(c.about, c.loaded)'
      BY <2>1, <1>6 DEF Holds, Drives
    <3>2. tdi_channel' = c.seed /\ LoadsFrom(c.about, c.seed)
      BY <2>1, <1>1, <1>6 DEF Holds
    <3>3. Loaded(c.seed, c.shifts)' /\ c.seed # Unsolved
      BY <2>1, <1>1, <1>5
    <3> QED BY <3>1, <3>2, <3>3, <2>1 DEF Holds
  <2>4. Meets(Job, c, rest)
    <3>1. rest.count \in 1 .. MaxLength /\ c.shifts = MaxLength - rest.count
      BY <2>1, <2>2, <1>1, <1>3, <1>11 DEF k
    <3> QED BY <3>1, <2>1, <2>2, <1>1 DEF Meets, Pulses, Job
  <2>5. Carries(Job, c, rest, b)
    <3>1. \A x : ~Writes(op, x) /\ ~Writes(rest, x)
      BY <1>1, <2>2 DEF Writes
    <3>2. \A d \in b.loaded : d \in c.loaded /\ c.about = b.about
      BY <3>1, <2>1 DEF Carries
    <3>3. b.seed # Unsolved => c.seed = b.seed /\ c.about = b.about
      BY <1>7, <2>1
    <3>4. b.shifts # -1 => /\ c.seed = b.seed /\ b.seed # Unsolved /\ c.about = b.about
                           /\ b.shifts = MaxLength
      BY <1>9, <3>3
    <3> QED BY <3>1, <3>2, <3>3, <3>4, <1>8, <2>2 DEF Carries, Pulses
  <2> QED BY <2>1, <2>3, <2>4, <2>5 DEF rest
<1> QED BY <1>5, <1>10, <1>11

\* A step of the unload shifts the response by one, and nothing in.
LEMMA AfterStep ==
  ASSUME DeviceType, NEW a \in Assertion, NEW b \in Assertion, Holds(a),
         NEW op \in Operation, Pulses(op, "step"), Meets(Job, a, op), Carries(Job, a, op, b),
         scan_enable' = PulseLevel(op), NEW p \in ScanPattern, ClockEdge(p), UNCHANGED setup
  PROVE  DeviceType' /\ Holds(b)'
<1>1. op.op = "PulsePin" /\ op.hold = {1} /\ setup.mode = "compacted"
  BY DEF Meets, Pulses, Job
<1>2. scan_enable' = TRUE
  BY <1>1, HoldLevels DEF PulseLevel
<1>3. DeviceType'
  BY <1>2, PulseTypes
<1>4. /\ Drives(b.about, b.loaded)'
      /\ b.seed # Unsolved => tdi_channel' = b.seed /\ LoadsFrom(b.about, b.seed)
  BY <1>1, PulseFrame DEF ClockEdge
<1>5. b.shifts = -1
  BY DEF Carries, Pulses
<1>6. b.age # -1 => a.age # -1 /\ b.age = a.age + 1 /\ a.about = b.about
  BY <1>1 DEF Carries, Pulses
<1>7. ASSUME b.age # -1, PinKnown', Driven(b.about)' PROVE chain' = Aged(b.about.response, b.age)
  <2> DEFINE k == a.age  r == a.about.response
  <2>1. k \in Nat /\ chain = Aged(r, k)
    <3>1. a.age \in Nat \cup {-1}
      BY DEF Assertion
    <3> QED BY <3>1, <1>6, <1>7 DEF Holds, PinKnown, Driven
  <2> HIDE DEF k, r
  <2>2. ShiftEdge
    BY <1>1, <1>2 DEF ClockEdge, Shifting
  <2>3. \A c \in Chains : \A j \in 1 .. Length[c] :
          chain'[c][j] = IF j = 1 THEN ScanIn(c) ELSE chain[c][j - 1]
    BY <2>2, ShiftMoves DEF DeviceType
  <2>4. \A c \in Chains : ScanIn(c) = FALSE
    BY <1>1 DEF ScanIn
  <2>5. ASSUME NEW c \in Chains, NEW j \in 1 .. Length[c]
        PROVE  chain'[c][j] = IF j <= k + 1 THEN FALSE ELSE r[c][j - (k + 1)]
    <3>1. CASE j = 1
      <4>1. j <= k + 1
        BY <3>1, <2>1
      <4> QED BY <4>1, <3>1, <2>3, <2>4
    <3>2. CASE j # 1
      <4>1. j - 1 \in 1 .. Length[c] /\ (j - 1 <= k <=> j <= k + 1) /\ (j - 1) - k = j - (k + 1)
        BY <3>2, <2>1, ChainFacts
      <4>2. chain[c][j - 1] = IF j - 1 <= k THEN FALSE ELSE r[c][(j - 1) - k]
        BY <4>1, <2>1 DEF Aged
      <4>3. chain'[c][j] = chain[c][j - 1]
        BY <3>2, <2>3
      <4>4. CASE j <= k + 1
        BY <4>1, <4>2, <4>3, <4>4
      <4>5. CASE ~(j <= k + 1)
        <5>1. chain[c][j - 1] = r[c][(j - 1) - k]
          BY <4>1, <4>2, <4>5
        <5> QED BY <4>1, <4>3, <4>5, <5>1
      <4> QED BY <4>4, <4>5
    <3> QED BY <3>1, <3>2
  <2>6. ASSUME NEW c \in Chains
        PROVE  chain'[c] = [j \in 1 .. Length[c] |-> IF j <= k + 1 THEN FALSE ELSE r[c][j - (k + 1)]]
    <3>1. chain'[c] \in [1 .. Length[c] -> BOOLEAN]
      BY <1>3, ChainFacts DEF DeviceType
    <3>2. chain'[c] = [j \in 1 .. Length[c] |-> chain'[c][j]]
      BY <3>1
    <3> QED BY <3>2, <2>5
  <2>7. chain' = [c \in Chains |-> chain'[c]]
    BY <1>3 DEF DeviceType, AnyContents
  <2>8. chain' = Aged(r, k + 1)
    BY <2>6, <2>7 DEF Aged
  <2> QED BY <2>8, <1>6, <1>7 DEF k, r
<1>8. Holds(b)'
  BY <1>4, <1>5, <1>7 DEF Holds
<1> QED BY <1>3, <1>8

----------------------------------------------------------------------------
(* What a pattern predicts of the unload. *)

\* A chain's unload is its response, the last cell first, then the padding.
LEMMA UnloadCells ==
  ASSUME NEW p \in ScanPattern, NEW c \in Chains
  PROVE  /\ ExpectedUnload(p, c) \in Seq(BOOLEAN)
         /\ Len(ExpectedUnload(p, c)) = MaxLength
         /\ \A t \in Cycles : ExpectedUnload(p, c)[t] =
              IF t <= Length[c] THEN p.response[c][Length[c] + 1 - t] ELSE FALSE
<1> DEFINE n == Length[c]  m == MaxLength  r == p.response[c]
           rev == [j \in 1 .. n |-> r[(n - j) + 1]]  pad == [j \in 1 .. m - n |-> FALSE]
<1>1. r \in [1 .. n -> BOOLEAN] /\ r \in Seq(BOOLEAN) /\ Len(r) = n
  <2>1. p.response \in AnyContents
    BY DEF ScanPattern
  <2> QED BY <2>1, ChainFacts
<1>2. n \in 1 .. m /\ n \in Nat /\ m \in Nat /\ m - n \in Nat /\ Cycles = 1 .. m
  BY ChainFacts
<1> HIDE DEF n, m, r
<1>3. Reverse(r) = rev
  BY <1>1 DEF Reverse
<1>4. rev \in Seq(BOOLEAN) /\ Len(rev) = n /\ \A j \in 1 .. n : rev[j] = r[(n - j) + 1]
  <2>1. \A j \in 1 .. n : (n - j) + 1 \in 1 .. n
    BY <1>2
  <2>2. rev \in [1 .. n -> BOOLEAN]
    BY <2>1, <1>1
  <2> QED BY <2>2, <1>2, FunctionIsSeq
<1>5. pad \in Seq(BOOLEAN) /\ Len(pad) = m - n /\ \A j \in 1 .. m - n : pad[j] = FALSE
  <2>1. pad \in [1 .. m - n -> BOOLEAN]
    OBVIOUS
  <2> QED BY <2>1, <1>2, FunctionIsSeq
<1>6. ExpectedUnload(p, c) = rev \o pad
  BY <1>3 DEF ExpectedUnload, r, m, n
<1> HIDE DEF rev, pad
<1>7. /\ rev \o pad \in Seq(BOOLEAN) /\ Len(rev \o pad) = n + (m - n)
      /\ \A j \in 1 .. n + (m - n) : (rev \o pad)[j] = IF j <= n THEN rev[j] ELSE pad[j - n]
  <2> DEFINE q == m - n
  <2>1. pad \in Seq(BOOLEAN) /\ Len(pad) = q
    BY <1>5
  <2> HIDE DEF q
  <2>2. /\ rev \o pad \in Seq(BOOLEAN) /\ Len(rev \o pad) = n + q
        /\ \A j \in 1 .. n + q : (rev \o pad)[j] = IF j <= n THEN rev[j] ELSE pad[j - n]
    BY <2>1, <1>4, ConcatProperties
  <2> QED BY <2>2 DEF q
<1>8. n + (m - n) = m
  BY <1>2
<1>9. \A t \in 1 .. m : (rev \o pad)[t] = IF t <= n THEN r[n + 1 - t] ELSE FALSE
  <2> TAKE t \in 1 .. m
  <2>1. (rev \o pad)[t] = IF t <= n THEN rev[t] ELSE pad[t - n]
    BY <1>7, <1>8
  <2>2. CASE t <= n
    <3>1. t \in 1 .. n /\ (n - t) + 1 = n + 1 - t
      BY <2>2, <1>2
    <3>2. rev[t] = r[(n - t) + 1]
      BY <3>1, <1>4
    <3> QED BY <3>1, <3>2, <2>1, <2>2
  <2>3. CASE ~(t <= n)
    <3>1. t - n \in 1 .. m - n
      BY <2>3, <1>2
    <3> QED BY <3>1, <2>1, <2>3, <1>5
  <2> QED BY <2>2, <2>3
<1>10. Len(rev \o pad) = m
  BY <1>7, <1>8
<1>11. \A t \in Cycles : ExpectedUnload(p, c)[t] = IF t <= n THEN r[n + 1 - t] ELSE FALSE
  BY <1>2, <1>6, <1>9
<1>12. ExpectedUnload(p, c) \in Seq(BOOLEAN) /\ Len(ExpectedUnload(p, c)) = m
  BY <1>6, <1>7, <1>10
<1> QED BY <1>11, <1>12 DEF n, m, r

\* What a chain's iRead expects is the response: reversed twice, unpadded.
LEMMA UnloadIsResponse ==
  ASSUME NEW p \in ScanPattern, NEW c \in Chains
  PROVE  SequenceToPayload(StripUnloadPadding(ExpectedUnload(p, c), Length[c])) = p.response[c]
<1> DEFINE n == Length[c]  u == ExpectedUnload(p, c)  r == p.response[c]
           t == SubSeq(u, 1, n)
<1>1. r = [j \in 1 .. n |-> r[j]]
  <2>1. p.response \in AnyContents
    BY DEF ScanPattern
  <2> QED BY <2>1, ChainFacts
<1>2. /\ u \in Seq(BOOLEAN) /\ Len(u) = MaxLength
      /\ n \in 1 .. MaxLength /\ n \in Nat /\ MaxLength \in Nat
      /\ \A j \in 1 .. n : u[j] = r[n + 1 - j]
  <2>1. n \in 1 .. MaxLength /\ n \in Nat /\ MaxLength \in Nat /\ Cycles = 1 .. MaxLength
    BY ChainFacts
  <2>2. \A j \in 1 .. n : j \in Cycles /\ j <= n
    BY <2>1
  <2> QED BY <2>1, <2>2, UnloadCells
<1> HIDE DEF n, u, r
<1>3. t \in Seq(BOOLEAN) /\ Len(t) = n /\ \A j \in 1 .. n : t[j] = u[j]
  <2>1. 1 \in 1 .. MaxLength + 1 /\ n \in 1 - 1 .. MaxLength
    BY <1>2
  <2>2. /\ t \in Seq(BOOLEAN) /\ Len(t) = n - 1 + 1
        /\ \A j \in 1 .. n - 1 + 1 : t[j] = u[1 + j - 1]
    BY <2>1, <1>2, SubSeqProperties
  <2>3. n - 1 + 1 = n /\ \A j \in 1 .. n : 1 + j - 1 = j
    BY <1>2
  <2> HIDE DEF t
  <2> QED BY <2>2, <2>3
<1> HIDE DEF t
<1>4. Reverse(t) = [j \in 1 .. n |-> t[(n - j) + 1]]
  BY <1>3 DEF Reverse
<1>5. \A j \in 1 .. n : t[(n - j) + 1] = r[j]
  <2> TAKE j \in 1 .. n
  <2>1. (n - j) + 1 \in 1 .. n /\ n + 1 - ((n - j) + 1) = j
    BY <1>2
  <2> QED BY <2>1, <1>2, <1>3
<1>6. Reverse(t) = r
  BY <1>1, <1>4, <1>5
<1> QED BY <1>6 DEF SequenceToPayload, StripUnloadPadding, t, n, u, r

\* k shifts after the capture the compactor shows cycle k + 1 of the unload.
LEMMA ChannelAfterShifts ==
  ASSUME NEW p \in ScanPattern, NEW k \in Nat, k < MaxLength, chain = Aged(p.response, k)
  PROVE  ChannelOutput = ExpectedChannelValue(p, k + 1)
<1>1. ASSUME NEW c \in Chains PROVE Last(chain[c]) = ExpectedUnload(p, c)[k + 1]
  <2> DEFINE n == Length[c]
  <2>1. n \in Nat \ {0} /\ k + 1 \in Cycles
    BY ChainFacts
  <2>2. chain[c] = [j \in 1 .. n |-> IF j <= k THEN FALSE ELSE p.response[c][j - k]]
    BY DEF Aged
  <2> HIDE DEF n
  <2>3. Len(chain[c]) = n
    <3> DEFINE g == [j \in 1 .. n |-> IF j <= k THEN FALSE ELSE p.response[c][j - k]]
    <3>1. p.response[c] \in [1 .. n -> BOOLEAN]
      <4>1. p.response \in AnyContents
        BY DEF ScanPattern
      <4> QED BY <4>1, ChainFacts DEF n
    <3>2. g \in [1 .. n -> BOOLEAN]
      <4>1. \A j \in 1 .. n : ~(j <= k) => j - k \in 1 .. n
        BY <2>1
      <4> QED BY <4>1, <3>1
    <3> HIDE DEF g
    <3>3. Len(g) = n
      BY <3>2, <2>1, FunctionIsSeq
    <3> QED BY <3>3, <2>2 DEF g
  <2>4. n \in 1 .. n /\ Last(chain[c]) = chain[c][n]
    BY <2>1, <2>3 DEF Last
  <2>5. Last(chain[c]) = IF n <= k THEN FALSE ELSE p.response[c][n - k]
    BY <2>2, <2>4
  <2>6. ExpectedUnload(p, c)[k + 1] = IF k + 1 <= n THEN p.response[c][n + 1 - (k + 1)] ELSE FALSE
    BY <2>1, UnloadCells DEF n
  <2>7. n + 1 - (k + 1) = n - k /\ (k + 1 <= n <=> ~(n <= k))
    BY <2>1
  <2> QED BY <2>5, <2>6, <2>7
<1>2. ASSUME NEW o \in DOMAIN Fanout
      PROVE  {c \in Fanout[o] : Last(chain[c])} = {c \in Fanout[o] : ExpectedUnload(p, c)[k + 1]}
  <2>1. Fanout[o] \subseteq Chains
    BY ScanAssumption
  <2> QED BY <1>1, <2>1
<1> QED BY <1>2 DEF ChannelOutput, ExpectedChannelValue

----------------------------------------------------------------------------
(* The programs the retargeters append have outlines. *)

\* What can be said of a pattern.
LEMMA SayTypes ==
  ASSUME NEW p \in ScanPattern, NEW L \in SUBSET Chains, NEW s \in Seed \cup {Unsolved},
         NEW k \in -1 .. MaxLength, NEW g \in Nat \cup {-1}
  PROVE  /\ Say(p, L, s, k, g) \in Assertion
         /\ Say(p, L, s, k, g).about = p /\ Say(p, L, s, k, g).loaded = L
         /\ Say(p, L, s, k, g).seed = s /\ Say(p, L, s, k, g).shifts = k
         /\ Say(p, L, s, k, g).age = g
BY DEF Say, Assertion

\* The operations a retargeter appends.
LEMMA MakeOperations ==
  ASSUME NEW n \in Nat
  PROVE  /\ \A x \in Int, v \in Values : iWrite(n, x, v) \in Operation /\ iRead(n, x, v) \in Operation
         /\ \A purpose \in {"capture", "settle", "load", "step"}, count \in Nat \ {0},
               hold \in SUBSET {0, 1} : PulsePin(n, purpose, count, hold) \in Operation
BY DEF iWrite, iRead, PulsePin, Operation

\* And their fields.
LEMMA AccessFields ==
  ASSUME NEW n, NEW x, NEW v
  PROVE  /\ iWrite(n, x, v).op = "iWrite" /\ iWrite(n, x, v).instrument = x /\ iWrite(n, x, v).value = v
         /\ iRead(n, x, v).op = "iRead" /\ iRead(n, x, v).instrument = x /\ iRead(n, x, v).value = v
         /\ iRead(n, x, v).pattern = n
BY DEF iWrite, iRead

\* One operation for each chain of a set.
LEMMA RunsPerChain ==
  ASSUME NEW job, NEW S \in SUBSET Chains, NEW f, NEW inv \in [0 .. Len(Length) -> Assertion],
         \A c \in S : /\ f[c] \in Operation /\ Meets(job, inv[c - 1], f[c])
                      /\ Carries(job, inv[c - 1], f[c], inv[c]),
         \A c \in Chains \ S : inv[c] = inv[c - 1]
  PROVE  Runs(job, inv[0], FlattenSeq([c \in Chains |-> IF c \in S THEN <<f[c]>> ELSE << >>]),
              inv[Len(Length)])
<1> DEFINE seqs == [c \in Chains |-> IF c \in S THEN <<f[c]>> ELSE << >>]
           n == Len(Length)
<1>1. Chains = 1 .. n /\ n \in Nat
  BY ChainFacts
<1>2. ASSUME NEW c \in Chains
      PROVE  /\ seqs[c] \in Seq(Operation)
             /\ Runs(job, inv[c - 1], seqs[c], inv[c])
  <2>1. c - 1 \in 0 .. n /\ c \in 0 .. n
    BY <1>1
  <2>2. inv[c - 1] \in Assertion /\ inv[c] \in Assertion
    BY <2>1
  <2>3. CASE c \in S
    <3> DEFINE op == f[c]
    <3>1. op \in Operation /\ Meets(job, inv[c - 1], op) /\ Carries(job, inv[c - 1], op, inv[c])
      BY <2>3
    <3>2. seqs[c] = <<op>>
      BY <2>3
    <3> HIDE DEF op, seqs
    <3>3. Runs(job, inv[c - 1], <<op>>, inv[c])
      BY <3>1, <2>2, RunsOne
    <3>4. <<op>> \in Seq(Operation)
      BY <3>1
    <3> QED BY <3>2, <3>3, <3>4
  <2>4. CASE c \notin S
    <3>1. seqs[c] = << >> /\ inv[c] = inv[c - 1]
      BY <2>4
    <3>2. Runs(job, inv[c], << >>, inv[c]) /\ << >> \in Seq(Operation)
      BY <2>2, RunsNothing
    <3> HIDE DEF seqs
    <3> QED BY <3>1, <3>2
  <2> QED BY <2>3, <2>4
<1>3. seqs \in Seq(Seq(Operation)) /\ Len(seqs) = n
  <2>1. seqs \in [1 .. n -> Seq(Operation)]
    BY <1>1, <1>2
  <2> HIDE DEF seqs, n
  <2> QED BY <2>1, <1>1, FunctionIsSeq
<1> HIDE DEF seqs
<1>4. Runs(job, inv[0], FlattenSeq(seqs), inv[Len(seqs)])
  <2>1. \A i \in 1 .. Len(seqs) : Runs(job, inv[i - 1], seqs[i], inv[i])
    BY <1>1, <1>2, <1>3
  <2>2. inv \in [0 .. Len(seqs) -> Assertion]
    BY <1>3
  <2> QED BY <1>3, <2>1, <2>2, RunsLoop
<1> QED BY <1>3, <1>4 DEF seqs

\* LoadChains writes every chain of the load, and no chain twice.
LEMMA LoadChainsRuns ==
  ASSUME NEW job, NEW n \in Nat, NEW p \in ScanPattern
  PROVE  Runs(job, Nothing(p), LoadChains(n, p), Say(p, DOMAIN p.load, Unsolved, -1, -1))
<1> DEFINE S == DOMAIN p.load  k == Len(Length)
           f == [c \in Chains |-> iWrite(n, c, Payload(p, c))]
           before(i) == {c \in S : c <= i}
           inv == [i \in 0 .. k |-> Say(p, before(i), Unsolved, -1, -1)]
<1>1. /\ S \in SUBSET Chains /\ Chains = 1 .. k /\ k \in Nat
      /\ \A c \in S : Payload(p, c) \in Contents(c)
  BY PayloadCells, ChainFacts
<1>2. /\ LoadChains(n, p) = FlattenSeq([c \in Chains |-> IF c \in S THEN <<f[c]>> ELSE << >>])
      /\ \A c \in Chains : f[c] = iWrite(n, c, Payload(p, c))
  <2>1. \A c \in Chains : f[c] = iWrite(n, c, Payload(p, c))
    OBVIOUS
  <2>2. [c \in Chains |-> IF c \in S THEN <<f[c]>> ELSE << >>]
          = [c \in Chains |-> IF c \in S THEN <<iWrite(n, c, Payload(p, c))>> ELSE << >>]
    BY <2>1
  <2> QED BY <2>1, <2>2 DEF LoadChains, PerChain, Payload
<1>3. \A i \in 0 .. k : /\ inv[i] \in Assertion
                        /\ inv[i].about = p /\ inv[i].loaded = before(i)
                        /\ inv[i].seed = Unsolved /\ inv[i].shifts = -1 /\ inv[i].age = -1
  <2> TAKE i \in 0 .. k
  <2>1. before(i) \in SUBSET Chains
    BY <1>1
  <2>2. -1 \in -1 .. MaxLength /\ -1 \in Nat \cup {-1} /\ Unsolved \in Seed \cup {Unsolved}
    BY ChainFacts
  <2> HIDE DEF before
  <2> QED BY <2>1, <2>2, SayTypes
<1>4. inv[0] = Nothing(p) /\ inv[k] = Say(p, S, Unsolved, -1, -1)
  <2>1. before(0) = {} /\ before(k) = S
    BY <1>1
  <2>2. 0 \in 0 .. k /\ k \in 0 .. k
    BY <1>1
  <2> HIDE DEF before, S
  <2> QED BY <2>1, <2>2 DEF Nothing
<1>5. inv \in [0 .. k -> Assertion]
  BY <1>3
<1> HIDE DEF inv, f
<1>6. ASSUME NEW c \in S
      PROVE  /\ f[c] \in Operation /\ Meets(job, inv[c - 1], f[c])
             /\ Carries(job, inv[c - 1], f[c], inv[c])
  <2>1. c \in Chains /\ c \in Int /\ c \in 0 .. k /\ c - 1 \in 0 .. k
    BY <1>1
  <2>2. Payload(p, c) \in Contents(c) /\ Payload(p, c) \in Values
    BY <1>1 DEF Values
  <2>3. f[c] \in Operation
    BY <2>1, <2>2, <1>2, MakeOperations
  <2>4. f[c].op = "iWrite" /\ f[c].instrument = c /\ f[c].value = Payload(p, c)
    BY <2>1, <1>2, AccessFields
  <2>5. Meets(job, inv[c - 1], f[c])
    BY <2>1, <2>2, <2>4 DEF Meets
  <2>6. \A d \in before(c) : d = c \/ d \in before(c - 1)
    BY <1>1, <2>1
  <2>7. Carries(job, inv[c - 1], f[c], inv[c])
    <3> HIDE DEF before
    <3>1. ASSUME NEW d \in inv[c].loaded
          PROVE  \/ Writes(f[c], d) /\ f[c].value = Payload(inv[c].about, d)
                 \/ ~Writes(f[c], d) /\ d \in inv[c - 1].loaded /\ inv[c - 1].about = inv[c].about
      <4>1. d \in before(c)
        BY <2>1, <1>3
      <4>2. CASE d = c
        BY <4>2, <2>1, <2>4, <1>3 DEF Writes
      <4>3. CASE d # c
        BY <4>1, <4>3, <2>1, <2>4, <2>6, <1>3 DEF Writes
      <4> QED BY <4>2, <4>3
    <3> QED BY <3>1, <2>1, <1>3 DEF Carries
  <2> QED BY <2>3, <2>5, <2>7
<1>7. ASSUME NEW c \in Chains \ S PROVE inv[c] = inv[c - 1]
  <2>1. c \in 0 .. k /\ c - 1 \in 0 .. k
    BY <1>1
  <2>2. before(c) = before(c - 1)
    BY <1>1
  <2> HIDE DEF before
  <2> QED BY <2>1, <2>2 DEF inv
<1>8. Runs(job, inv[0], FlattenSeq([c \in Chains |-> IF c \in S THEN <<f[c]>> ELSE << >>]), inv[k])
  <2> HIDE DEF S
  <2> QED BY <1>1, <1>5, <1>6, <1>7, RunsPerChain
<1> QED BY <1>2, <1>4, <1>8

\* UnloadChains reads the response where it was captured.
LEMMA UnloadChainsRuns ==
  ASSUME NEW job, NEW n \in DOMAIN job.patterns, n \in Nat, NEW p \in ScanPattern,
         p = job.patterns[n], NEW a \in Assertion, p.observed # {} => a = Captured(p, 0)
  PROVE  Runs(job, a, UnloadChains(n, p), a)
<1> DEFINE S == p.observed  k == Len(Length)
           value(c) == SequenceToPayload(StripUnloadPadding(ExpectedUnload(p, c), Length[c]))
           f == [c \in Chains |-> iRead(n, c, value(c))]
           inv == [i \in 0 .. k |-> a]
<1>1. S \in SUBSET Chains /\ Chains = 1 .. k /\ k \in Nat /\ p.response \in AnyContents
  BY ChainFacts DEF ScanPattern
<1>2. /\ UnloadChains(n, p) = FlattenSeq([c \in Chains |-> IF c \in S THEN <<f[c]>> ELSE << >>])
      /\ \A c \in Chains : f[c] = iRead(n, c, p.response[c])
  <2>1. \A c \in Chains : f[c] = iRead(n, c, value(c))
    OBVIOUS
  <2>2. [c \in Chains |-> IF c \in S THEN <<f[c]>> ELSE << >>]
          = [c \in Chains |-> IF c \in S THEN <<iRead(n, c, value(c))>> ELSE << >>]
    BY <2>1
  <2>3. \A c \in Chains : value(c) = p.response[c]
    BY UnloadIsResponse
  <2>4. UnloadChains(n, p) = FlattenSeq([c \in Chains |-> IF c \in S THEN <<f[c]>> ELSE << >>])
    BY <2>2 DEF UnloadChains, PerChain
  <2> HIDE DEF value
  <2> QED BY <2>1, <2>3, <2>4
<1>3. \A i \in 0 .. k : inv[i] = a
  OBVIOUS
<1>4. inv \in [0 .. k -> Assertion]
  OBVIOUS
<1> HIDE DEF inv, f
<1>5. ASSUME NEW c \in S
      PROVE  f[c] \in Operation /\ Meets(job, inv[c - 1], f[c]) /\ Carries(job, inv[c - 1], f[c], inv[c])
  <2>1. c \in Chains /\ c \in Int /\ inv[c] = a /\ inv[c - 1] = a
    BY <1>1, <1>3
  <2>2. p.response[c] \in Values
    <3>1. p.response[c] \in Contents(c)
      BY <1>1, <2>1 DEF AnyContents
    <3> QED BY <3>1, <2>1 DEF Values
  <2>3. f[c] \in Operation
    BY <2>1, <2>2, <1>2, MakeOperations
  <2>4. f[c].op = "iRead" /\ f[c].instrument = c /\ f[c].value = p.response[c] /\ f[c].pattern = n
    BY <2>1, <1>2, AccessFields
  <2>5. /\ a.about = p /\ a.loaded = {} /\ a.seed = Unsolved /\ a.shifts = -1 /\ a.age = 0
    BY DEF Captured, Say
  <2>6. Meets(job, a, f[c])
    BY <2>1, <2>4, <2>5 DEF Meets
  <2>7. Carries(job, a, f[c], a)
    BY <2>4, <2>5 DEF Carries
  <2> QED BY <2>1, <2>3, <2>6, <2>7
<1>6. \A c \in Chains \ S : inv[c] = inv[c - 1]
  BY <1>1, <1>3
<1>7. Runs(job, inv[0], FlattenSeq([c \in Chains |-> IF c \in S THEN <<f[c]>> ELSE << >>]), inv[k])
  <2> HIDE DEF S
  <2> QED BY <1>1, <1>4, <1>5, <1>6, RunsPerChain
<1>8. inv[0] = a /\ inv[k] = a
  BY <1>1, <1>3
<1> QED BY <1>2, <1>7, <1>8

\* The capture, when anything is observed.
LEMMA CaptureRuns ==
  ASSUME NEW job, NEW n \in DOMAIN job.patterns, n \in Nat, NEW p \in ScanPattern,
         p = job.patterns[n], NEW a \in Assertion, InPlace(job, a, p),
         NEW hold, hold = IF job.mode = "compressed" THEN {0} ELSE Unlisted
  PROVE  /\ p.observed = {} => Runs(job, a, Capture(n, p, hold), a)
         /\ p.observed # {} => Runs(job, a, Capture(n, p, hold), Captured(p, 0))
<1>1. ASSUME p.observed = {} PROVE Runs(job, a, Capture(n, p, hold), a)
  BY <1>1, RunsNothing DEF Capture
<1>2. ASSUME p.observed # {} PROVE Runs(job, a, Capture(n, p, hold), Captured(p, 0))
  <2> DEFINE op == PulsePin(n, "capture", 1, hold)
  <2>1. op \in Operation
    <3>1. hold \in SUBSET {0, 1}
      BY DEF Unlisted
    <3> QED BY <3>1, MakeOperations
  <2>2. /\ op.op = "PulsePin" /\ op.purpose = "capture" /\ op.pattern = n
        /\ op.count = 1 /\ op.hold = hold
    BY DEF PulsePin
  <2>3. Capture(n, p, hold) = <<op>>
    BY <1>2 DEF Capture
  <2> HIDE DEF op
  <2>4. /\ Captured(p, 0) \in Assertion
        /\ Captured(p, 0).about = p /\ Captured(p, 0).loaded = {}
        /\ Captured(p, 0).seed = Unsolved /\ Captured(p, 0).shifts = -1 /\ Captured(p, 0).age = 0
    <3>1. -1 \in -1 .. MaxLength /\ {} \in SUBSET Chains
      BY ChainFacts
    <3> QED BY <3>1, SayTypes DEF Captured
  <2>5. Meets(job, a, op)
    BY <2>2 DEF Meets, Pulses
  <2>6. Carries(job, a, op, Captured(p, 0))
    BY <2>2, <2>4 DEF Carries, Pulses
  <2>7. Runs(job, a, <<op>>, Captured(p, 0))
    BY <2>1, <2>4, <2>5, <2>6, RunsOne
  <2> QED BY <2>3, <2>7
<1> QED BY <1>1, <1>2

\* Every chain is written before the capture, whichever chains that is.
LEMMA LoadThenCapture ==
  ASSUME NEW job, job.mode # "compressed", NEW n \in DOMAIN job.patterns, n \in Nat,
         NEW p \in ScanPattern, p = job.patterns[n]
  PROVE  \E b \in Assertion :
           /\ Runs(job, Nothing(p), LoadChains(n, p) \o Capture(n, p, Unlisted), b)
           /\ p.observed # {} => b = Captured(p, 0)
<1> DEFINE a == Say(p, DOMAIN p.load, Unsolved, -1, -1)
<1>1. a \in Assertion /\ a.about = p /\ a.loaded = DOMAIN p.load
  <2>1. DOMAIN p.load \in SUBSET Chains /\ -1 \in -1 .. MaxLength
    BY PayloadCells, ChainFacts
  <2> QED BY <2>1, SayTypes
<1>2. Runs(job, Nothing(p), LoadChains(n, p), a)
  BY LoadChainsRuns
<1> HIDE DEF a
<1>3. InPlace(job, a, p)
  BY <1>1 DEF InPlace
<1>4. CASE p.observed = {}
  <2>1. Runs(job, a, Capture(n, p, Unlisted), a)
    BY <1>1, <1>3, <1>4, CaptureRuns
  <2>2. Runs(job, Nothing(p), LoadChains(n, p) \o Capture(n, p, Unlisted), a)
    BY <1>2, <2>1, RunsThen
  <2> QED BY <2>2, <1>1, <1>4
<1>5. CASE p.observed # {}
  <2>1. Runs(job, a, Capture(n, p, Unlisted), Captured(p, 0))
    BY <1>1, <1>3, <1>5, CaptureRuns
  <2>2. Runs(job, Nothing(p), LoadChains(n, p) \o Capture(n, p, Unlisted), Captured(p, 0))
    BY <1>2, <2>1, RunsThen
  <2>3. Captured(p, 0) \in Assertion
    BY <2>1, RunsEnds
  <2> QED BY <2>2, <2>3
<1> QED BY <1>4, <1>5

\* A raw program loads every chain, captures, and unloads.
LEMMA RawRuns ==
  ASSUME NEW job, job.mode = "raw", NEW n \in DOMAIN job.patterns, n \in Nat,
         NEW p \in ScanPattern, p = job.patterns[n]
  PROVE  \E b : Runs(job, Nothing(p), RawProgram(n, p), b)
<1>1. job.mode # "compressed"
  OBVIOUS
<1>2. PICK b \in Assertion :
        /\ Runs(job, Nothing(p), LoadChains(n, p) \o Capture(n, p, Unlisted), b)
        /\ p.observed # {} => b = Captured(p, 0)
  BY <1>1, LoadThenCapture
<1>3. Runs(job, b, UnloadChains(n, p), b)
  BY <1>2, UnloadChainsRuns
<1> QED BY <1>2, <1>3, RunsThen DEF RawProgram

\* The samples of the compactor's outputs: one per cycle, a shift between two.
LEMMA SampleRuns ==
  ASSUME NEW job, job.mode = "compacted", NEW n \in DOMAIN job.patterns, n \in Nat,
         NEW p \in ScanPattern, p = job.patterns[n], p.observed # {}
  PROVE  \E b : Runs(job, Captured(p, 0), SampleOutputs(n, p), b)
<1> DEFINE m == MaxLength
           reading(t) == iRead(n, tdo_channel_instrument, ExpectedChannelValue(p, t))
           step == PulsePin(n, "step", 1, {1})
           seqs == [t \in Cycles |-> <<reading(t)>> \o (IF t < m THEN <<step>> ELSE << >>)]
           age(t) == IF t < m THEN t ELSE m - 1
           inv == [t \in 0 .. m |-> Captured(p, age(t))]
<1>1. m \in Nat \ {0} /\ Cycles = 1 .. m
  BY ChainFacts
<1>2. SampleOutputs(n, p) = FlattenSeq(seqs)
  BY DEF SampleOutputs
<1>3. \A g \in Nat : /\ Captured(p, g) \in Assertion
                     /\ Captured(p, g).about = p /\ Captured(p, g).loaded = {}
                     /\ Captured(p, g).seed = Unsolved /\ Captured(p, g).shifts = -1
                     /\ Captured(p, g).age = g
  <2>1. -1 \in -1 .. MaxLength /\ {} \in SUBSET Chains
    BY ChainFacts
  <2> QED BY <2>1, SayTypes DEF Captured
<1>4. /\ step \in Operation /\ step.op = "PulsePin" /\ step.purpose = "step" /\ step.pattern = n
      /\ step.count = 1 /\ step.hold = {1}
  <2>1. step \in Operation
    BY MakeOperations
  <2> QED BY <2>1 DEF PulsePin
<1>5. ASSUME NEW t \in Cycles
      PROVE  /\ reading(t) \in Operation /\ reading(t).op = "iRead"
             /\ reading(t).instrument = tdo_channel_instrument /\ reading(t).pattern = n
             /\ reading(t).value = ExpectedChannelValue(p, t)
  <2>1. ExpectedChannelValue(p, t) \in Values
    <3>1. ExpectedChannelValue(p, t) \in [DOMAIN Fanout -> BOOLEAN]
      BY DEF ExpectedChannelValue, Parity
    <3> QED BY <3>1 DEF Values
  <2>2. tdo_channel_instrument \in Int
    BY DEF tdo_channel_instrument
  <2>3. reading(t) \in Operation
    BY <2>1, <2>2, MakeOperations
  <2> QED BY <2>3, AccessFields
<1> HIDE DEF reading, step, m
<1>6. ASSUME NEW t \in Cycles
      PROVE  Runs(job, Captured(p, t - 1), <<reading(t)>>, Captured(p, t - 1))
  <2> DEFINE a == Captured(p, t - 1)  op == reading(t)
  <2>1. t - 1 \in Nat /\ t - 1 < MaxLength /\ (t - 1) + 1 = t /\ t - 1 # -1
    BY <1>1 DEF m
  <2>2. /\ a \in Assertion /\ a.about = p /\ a.loaded = {} /\ a.seed = Unsolved
        /\ a.shifts = -1 /\ a.age = t - 1
    BY <2>1, <1>3
  <2>3. op \in Operation /\ op.op = "iRead" /\ op.instrument = tdo_channel_instrument
        /\ op.pattern = n /\ op.value = ExpectedChannelValue(p, t)
    BY <1>5
  <2> HIDE DEF a, op
  <2>4. Meets(job, a, op)
    BY <2>1, <2>2, <2>3 DEF Meets
  <2>5. Carries(job, a, op, a)
    BY <2>2, <2>3 DEF Carries
  <2>6. Runs(job, a, <<op>>, a)
    BY <2>2, <2>3, <2>4, <2>5, RunsOne
  <2> QED BY <2>6 DEF a, op
<1>7. ASSUME NEW t \in Cycles, t < m
      PROVE  Runs(job, Captured(p, t - 1), <<step>>, Captured(p, t))
  <2> DEFINE a == Captured(p, t - 1)  b == Captured(p, t)
  <2>1. t - 1 \in Nat /\ t \in Nat /\ (t - 1) + 1 = t /\ t - 1 # -1
    BY <1>1
  <2>2. /\ a \in Assertion /\ a.about = p /\ a.age = t - 1
        /\ b \in Assertion /\ b.about = p /\ b.loaded = {} /\ b.seed = Unsolved
        /\ b.shifts = -1 /\ b.age = t
    BY <2>1, <1>3
  <2> HIDE DEF a, b
  <2>3. Meets(job, a, step)
    BY <1>4 DEF Meets, Pulses
  <2>4. Carries(job, a, step, b)
    BY <2>1, <2>2, <1>4 DEF Carries, Pulses
  <2>5. Runs(job, a, <<step>>, b)
    BY <2>2, <2>3, <2>4, <1>4, RunsOne
  <2> QED BY <2>5 DEF a, b
<1>8. ASSUME NEW t \in Cycles
      PROVE  /\ Runs(job, inv[t - 1], seqs[t], inv[t])
             /\ seqs[t] \in Seq(Operation)
  <2>1. /\ t - 1 \in 0 .. m /\ t \in 0 .. m /\ age(t - 1) = t - 1
    BY <1>1
  <2>2. inv[t - 1] = Captured(p, t - 1) /\ inv[t] = Captured(p, age(t))
    BY <2>1
  <2>3. seqs[t] = <<reading(t)>> \o (IF t < m THEN <<step>> ELSE << >>)
    OBVIOUS
  <2> HIDE DEF seqs, inv
  <2>4. CASE t < m
    <3>1. Runs(job, Captured(p, t - 1), <<reading(t)>> \o <<step>>, Captured(p, t))
      BY <2>4, <1>6, <1>7, RunsThen
    <3>2. age(t) = t /\ seqs[t] = <<reading(t)>> \o <<step>>
      BY <2>3, <2>4
    <3>3. Runs(job, inv[t - 1], seqs[t], inv[t])
      BY <2>2, <3>1, <3>2
    <3> QED BY <3>3, RunsEnds
  <2>5. CASE ~(t < m)
    <3>1. age(t) = t - 1
      BY <2>5, <1>1
    <3>2. Captured(p, t - 1) \in Assertion
      <4>1. t - 1 \in Nat
        BY <1>1
      <4> QED BY <4>1, <1>3
    <3>3. Runs(job, Captured(p, t - 1), << >>, Captured(p, t - 1))
      BY <3>2, RunsNothing
    <3>4. Runs(job, Captured(p, t - 1), <<reading(t)>> \o << >>, Captured(p, t - 1))
      BY <1>6, <3>3, RunsThen
    <3>5. seqs[t] = <<reading(t)>> \o << >>
      BY <2>3, <2>5
    <3>6. Runs(job, inv[t - 1], seqs[t], inv[t])
      BY <2>2, <3>1, <3>4, <3>5
    <3> QED BY <3>6, RunsEnds
  <2> QED BY <2>4, <2>5
<1>9. seqs \in Seq(Seq(Operation)) /\ Len(seqs) = m
  <2>1. seqs \in [1 .. m -> Seq(Operation)]
    BY <1>1, <1>8
  <2> HIDE DEF seqs
  <2> QED BY <2>1, <1>1, FunctionIsSeq
<1>10. inv \in [0 .. m -> Assertion] /\ inv[0] = Captured(p, 0)
  <2>1. \A t \in 0 .. m : age(t) \in Nat
    BY <1>1
  <2>2. 0 \in 0 .. m /\ age(0) = 0
    BY <1>1
  <2> HIDE DEF age
  <2> QED BY <2>1, <2>2, <1>3
<1> HIDE DEF seqs, inv
<1>11. Runs(job, inv[0], FlattenSeq(seqs), inv[Len(seqs)])
  <2>1. \A i \in 1 .. Len(seqs) : Runs(job, inv[i - 1], seqs[i], inv[i])
    BY <1>1, <1>8, <1>9
  <2>2. inv \in [0 .. Len(seqs) -> Assertion]
    BY <1>9, <1>10
  <2> QED BY <1>9, <2>1, <2>2, RunsLoop
<1> QED BY <1>2, <1>10, <1>11

\* A compacted program loads every chain, captures, and samples.
LEMMA CompactedRuns ==
  ASSUME NEW job, job.mode = "compacted", NEW n \in DOMAIN job.patterns, n \in Nat,
         NEW p \in ScanPattern, p = job.patterns[n]
  PROVE  \E b : Runs(job, Nothing(p), CompactedProgram(n, p), b)
<1>1. job.mode # "compressed"
  OBVIOUS
<1>2. PICK a \in Assertion :
        /\ Runs(job, Nothing(p), LoadChains(n, p) \o Capture(n, p, Unlisted), a)
        /\ p.observed # {} => a = Captured(p, 0)
  BY <1>1, LoadThenCapture
<1>3. PICK b : Runs(job, a, SampleOutputs(n, p), b)
  <2>1. CASE p.observed = {}
    <3>1. SampleOutputs(n, p) = << >>
      BY <2>1 DEF SampleOutputs
    <3> QED BY <3>1, <1>2, RunsNothing
  <2>2. CASE p.observed # {}
    BY <2>2, <1>2, SampleRuns
  <2> QED BY <2>1, <2>2
<1>4. Runs(job, Nothing(p), CompactedProgram(n, p), b)
  BY <1>2, <1>3, RunsThen DEF CompactedProgram
<1> QED BY <1>4

\* A seed program writes the seed, settles, and loads for as long as it takes.
LEMMA LoadSeedRuns ==
  ASSUME NEW job, job.mode = "compressed", NEW n \in DOMAIN job.patterns, n \in Nat,
         NEW p \in ScanPattern, NEW s \in Seed, LoadsFrom(p, s)
  PROVE  Runs(job, Nothing(p), LoadSeed(n, s), Say(p, {}, s, MaxLength, -1))
<1> DEFINE w == iWrite(n, tdi_channel_instrument, s)
           settle == PulsePin(n, "settle", 1, {0})
           load == PulsePin(n, "load", MaxLength, {1})
           a0 == Nothing(p)
           a1 == Say(p, {}, s, -1, -1)
           a2 == Say(p, {}, s, 0, -1)
           a3 == Say(p, {}, s, MaxLength, -1)
<1>1. MaxLength \in Nat \ {0} /\ -1 \in -1 .. MaxLength /\ 0 \in -1 .. MaxLength
      /\ MaxLength \in -1 .. MaxLength
  BY ChainFacts
<1>2. s \in Seed \cup {Unsolved} /\ s # Unsolved
  BY Markers
<1>3. /\ a0 \in Assertion /\ a1 \in Assertion /\ a2 \in Assertion /\ a3 \in Assertion
      /\ a1.about = p /\ a1.loaded = {} /\ a1.seed = s /\ a1.shifts = -1 /\ a1.age = -1
      /\ a2.about = p /\ a2.loaded = {} /\ a2.seed = s /\ a2.shifts = 0 /\ a2.age = -1
      /\ a3.about = p /\ a3.loaded = {} /\ a3.seed = s /\ a3.shifts = MaxLength /\ a3.age = -1
  <2>1. {} \in SUBSET Chains /\ -1 \in Nat \cup {-1} /\ Unsolved \in Seed \cup {Unsolved}
    OBVIOUS
  <2>2. a0 \in Assertion
    BY <2>1, <1>1, SayTypes DEF Nothing
  <2> QED BY <2>1, <2>2, <1>1, <1>2, SayTypes
<1>4. w \in Operation /\ settle \in Operation /\ load \in Operation
  <2>1. s \in Values /\ tdi_channel_instrument \in Int
    BY DEF Values, tdi_channel_instrument
  <2> QED BY <2>1, <1>1, MakeOperations
<1>5. /\ w.op = "iWrite" /\ w.instrument = tdi_channel_instrument /\ w.value = s
  BY AccessFields
<1>6. /\ settle.pattern = n /\ load.pattern = n
      /\ settle.op = "PulsePin" /\ settle.purpose = "settle" /\ settle.count = 1 /\ settle.hold = {0}
      /\ load.op = "PulsePin" /\ load.purpose = "load" /\ load.count = MaxLength /\ load.hold = {1}
  BY DEF PulsePin
<1>7. LoadSeed(n, s) = (<<w>> \o <<settle>>) \o <<load>>
  <2>1. LoadSeed(n, s) = <<w, settle, load>>
    BY DEF LoadSeed
  <2> HIDE DEF w, settle, load
  <2> QED BY <2>1, ThreeByOne
<1> HIDE DEF w, settle, load, a0, a1, a2, a3
<1>8. Runs(job, a0, <<w>>, a1)
  <2>1. Meets(job, a0, w)
    BY <1>5 DEF Meets
  <2>2. Carries(job, a0, w, a1)
    BY <1>3, <1>5 DEF Carries, Writes
  <2> QED BY <2>1, <2>2, <1>3, <1>4, RunsOne
<1>9. Runs(job, a1, <<settle>>, a2)
  <2>1. Meets(job, a1, settle)
    BY <1>6 DEF Meets, Pulses
  <2>2. Carries(job, a1, settle, a2)
    BY <1>2, <1>3, <1>6 DEF Carries, Pulses
  <2> QED BY <2>1, <2>2, <1>3, <1>4, RunsOne
<1>10. Runs(job, a2, <<load>>, a3)
  <2>1. Meets(job, a2, load)
    BY <1>1, <1>2, <1>3, <1>6 DEF Meets, Pulses
  <2>2. Carries(job, a2, load, a3)
    BY <1>1, <1>2, <1>3, <1>6 DEF Carries, Pulses
  <2> QED BY <2>1, <2>2, <1>3, <1>4, RunsOne
<1>11. Runs(job, a0, (<<w>> \o <<settle>>) \o <<load>>, a3)
  BY <1>8, <1>9, <1>10, RunsThen
<1> QED BY <1>7, <1>11 DEF a0, a3

\* What follows the load of a compressed pattern, or the lack of one.
LEMMA CaptureAndUnloadRuns ==
  ASSUME NEW job, job.mode = "compressed", NEW n \in DOMAIN job.patterns, n \in Nat,
         NEW p \in ScanPattern, p = job.patterns[n], NEW a \in Assertion, InPlace(job, a, p)
  PROVE  \E b : Runs(job, a, CaptureAndUnload(n, p), b)
<1> DEFINE hold == {0}
<1>1. hold = IF job.mode = "compressed" THEN {0} ELSE Unlisted
  OBVIOUS
<1> HIDE DEF hold
<1>2. PICK b \in Assertion : /\ Runs(job, a, Capture(n, p, hold), b)
                             /\ p.observed # {} => b = Captured(p, 0)
  <2>1. CASE p.observed = {}
    BY <2>1, <1>1, CaptureRuns
  <2>2. CASE p.observed # {}
    <3>1. Runs(job, a, Capture(n, p, hold), Captured(p, 0))
      BY <2>2, <1>1, CaptureRuns
    <3> QED BY <3>1, RunsEnds
  <2> QED BY <2>1, <2>2
<1>3. Runs(job, b, UnloadChains(n, p), b)
  BY <1>2, UnloadChainsRuns
<1>4. Runs(job, a, Capture(n, p, hold) \o UnloadChains(n, p), b)
  BY <1>2, <1>3, RunsThen
<1> QED BY <1>4 DEF CaptureAndUnload, hold

\* A compressed pattern from a seed that loads it.
LEMMA CompressedRuns ==
  ASSUME NEW job, job.mode = "compressed", NEW n \in DOMAIN job.patterns, n \in Nat,
         NEW p \in ScanPattern, p = job.patterns[n], NEW s \in Seed, LoadsFrom(p, s)
  PROVE  \E b : Runs(job, Nothing(p), LoadSeed(n, s) \o CaptureAndUnload(n, p), b)
<1> DEFINE a == Say(p, {}, s, MaxLength, -1)
<1>1. Runs(job, Nothing(p), LoadSeed(n, s), a)
  BY LoadSeedRuns
<1>2. a \in Assertion
  BY <1>1, RunsEnds
<1>3. InPlace(job, a, p)
  <2>1. a.about = p /\ a.shifts = MaxLength
    BY DEF Say
  <2> HIDE DEF a
  <2> QED BY <2>1 DEF InPlace
<1> HIDE DEF a
<1>4. PICK b : Runs(job, a, CaptureAndUnload(n, p), b)
  BY <1>2, <1>3, CaptureAndUnloadRuns
<1>5. Runs(job, Nothing(p), LoadSeed(n, s) \o CaptureAndUnload(n, p), b)
  BY <1>1, <1>4, RunsThen
<1> QED BY <1>5

----------------------------------------------------------------------------
(* The program that is left always has an outline that is true where it      *)
(* starts.                                                                   *)

Outlined ==
  program # << >> => \E a, b : Holds(a) /\ SaysNothing(b) /\ Runs(Job, a, program, b)
PlayInv ==
  /\ setup \in Setups
  /\ scan_enable \in BOOLEAN
  /\ DeviceType
  /\ program \in Seq(Operation)
  /\ Outlined

\* A call starts with an empty program.
LEMMA PlayStart == Init => PlayInv
<1> SUFFICES ASSUME Init PROVE PlayInv
  OBVIOUS
<1>1. Zeros \in AnyContents
  <2>1. Zeros = [c \in Chains |-> Zeros[c]] /\ \A c \in Chains : Zeros[c] \in [1 .. Length[c] -> BOOLEAN]
    BY DEF Zeros
  <2> QED BY <2>1, MakeContents
<1>2. DeviceType
  BY <1>1 DEF Init, DeviceType
<1>3. program = << >> /\ program \in Seq(Operation) /\ setup \in Setups /\ scan_enable \in BOOLEAN
  <2>1. program = << >> /\ setup \in Setups /\ scan_enable = FALSE
    BY DEF Init, RetargetInit
  <2>2. << >> \in Seq(Operation)
    OBVIOUS
  <2> QED BY <2>1, <2>2
<1> QED BY <1>2, <1>3 DEF PlayInv, Outlined

\* Nothing need be true for a pattern's own program to start.
LEMMA NothingHolds ==
  ASSUME NEW p \in ScanPattern
  PROVE  Nothing(p) \in Assertion /\ SaysNothing(Nothing(p)) /\ Holds(Nothing(p))
<1>1. -1 \in -1 .. MaxLength /\ {} \in SUBSET Chains
  BY ChainFacts
<1>2. /\ Nothing(p) \in Assertion /\ Nothing(p).loaded = {} /\ Nothing(p).seed = Unsolved
      /\ Nothing(p).shifts = -1 /\ Nothing(p).age = -1
  BY <1>1, SayTypes DEF Nothing
<1> QED BY <1>2 DEF SaysNothing, Holds, Drives

\* What is true of the design stays true while the design does nothing.
LEMMA HoldsStays ==
  ASSUME NEW a, Holds(a), UNCHANGED <<setup, deviceVars>>
  PROVE  Holds(a)'
BY DEF Holds, Drives, Driven, Loaded, PinKnown, deviceVars

\* An outlined program appended to the program so far.
LEMMA Appended ==
  ASSUME PlayInv, NEW p \in ScanPattern, NEW block, NEW last,
         Runs(Job, Nothing(p), block, last), program' = program \o block,
         UNCHANGED <<setup, patterns, deviceVars>>
  PROVE  PlayInv'
<1>1. Job' = Job
  BY DEF Job
<1>2. /\ Nothing(p) \in Assertion /\ SaysNothing(Nothing(p)) /\ Holds(Nothing(p))
      /\ block \in Seq(Operation) /\ program \in Seq(Operation)
  BY NothingHolds, RunsEnds DEF PlayInv
<1>3. Holds(Nothing(p))'
  BY <1>2, HoldsStays
<1>4. program' \in Seq(Operation)
  BY <1>2
<1>5. (setup \in Setups /\ scan_enable \in BOOLEAN /\ DeviceType)'
  BY DEF PlayInv, DeviceType, deviceVars
<1>6. Outlined'
  <2>1. CASE block = << >>
    <3>1. program' = program
      BY <2>1, <1>2, ConcatEmptySeq
    <3>2. ASSUME program # << >> PROVE Outlined'
      <4>1. PICK a, b : Holds(a) /\ SaysNothing(b) /\ Runs(Job, a, program, b)
        BY <3>2 DEF PlayInv, Outlined
      <4>2. Holds(a)'
        BY <4>1, HoldsStays
      <4> QED BY <4>1, <4>2, <3>1, <1>1 DEF Outlined
    <3> QED BY <3>1, <3>2 DEF Outlined
  <2>2. CASE block # << >>
    <3>1. Runs(Job, Nothing(p), block, Nothing(p))
      BY <2>2, <1>2, RunsForget
    <3>2. CASE program = << >>
      <4>1. program' = block
        BY <3>2, <1>2, ConcatEmptySeq
      <4> QED BY <4>1, <3>1, <1>1, <1>2, <1>3 DEF Outlined
    <3>3. CASE program # << >>
      <4>1. PICK a, b : Holds(a) /\ SaysNothing(b) /\ Runs(Job, a, program, b)
        BY <3>3 DEF PlayInv, Outlined
      <4>2. Runs(Job, a, program, Nothing(p))
        BY <4>1, <3>3, <1>2, RunsForget
      <4>3. Runs(Job, a, program \o block, Nothing(p))
        BY <4>2, <3>1, RunsThen
      <4>4. Holds(a)'
        BY <4>1, HoldsStays
      <4> QED BY <4>3, <4>4, <1>1, <1>2 DEF Outlined
    <3> QED BY <3>2, <3>3
  <2> QED BY <2>1, <2>2
<1> QED BY <1>4, <1>5, <1>6 DEF PlayInv

\* The program at hand when it is played.
LEMMA AtOperation ==
  ASSUME PlayInv, program # << >>
  PROVE  /\ Op \in Operation /\ program = <<Op>> \o Tail(program)
         /\ \E a, b, c : /\ Holds(a) /\ SaysNothing(c) /\ Meets(Job, a, Op)
                         /\ a \in Assertion /\ b \in Assertion
                         /\ Carries(Job, a, Op, b) /\ Runs(Job, b, Tail(program), c)
<1>1. PICK a, c : Holds(a) /\ SaysNothing(c) /\ Runs(Job, a, program, c)
  BY DEF PlayInv, Outlined
<1>2. /\ Op \in Operation /\ Meets(Job, a, Op)
      /\ \E b \in Assertion : Carries(Job, a, Op, b) /\ Runs(Job, b, Tail(program), c)
  BY <1>1, RunsHead DEF Op
<1>3. a \in Assertion /\ program \in Seq(Operation)
  BY <1>1, RunsEnds
<1>4. program = <<Op>> \o Tail(program)
  BY <1>3 DEF Op
<1> QED BY <1>1, <1>2, <1>3, <1>4

\* The rest of a program whose next assertion is now true.
LEMMA RestOutlined ==
  ASSUME PlayInv, NEW b, NEW c, Holds(b)', SaysNothing(c), Runs(Job, b, program', c),
         DeviceType', UNCHANGED <<setup, patterns>>, scan_enable' \in BOOLEAN
  PROVE  PlayInv'
<1>1. Job' = Job
  BY DEF Job
<1>2. program' \in Seq(Operation)
  BY RunsEnds
<1>3. Outlined'
  BY <1>1 DEF Outlined
<1> QED BY <1>2, <1>3 DEF PlayInv

\* A retargeter that solves is the compressed one.
SolvesSeeds == stage = "solving" => setup.mode = "compressed"

\* Only the compressed retargeter solves.
LEMMA OnlyCompressedSolves ==
  /\ Init => SolvesSeeds
  /\ SolvesSeeds /\ [Next]_vars => SolvesSeeds'
<1>1. Init => SolvesSeeds
  BY DEF Init, RetargetInit, SolvesSeeds
<1>2. ASSUME SolvesSeeds, [Next]_vars PROVE SolvesSeeds'
  <2> USE DEF SolvesSeeds
  <2>1. CASE Retarget
    BY <1>2, <2>1 DEF Retarget, RetargetRaw, RetargetCompacted, RetargetWithoutLoad, SolvePattern,
                Solving, RetargetCompressed, Return, Ready, Emit, Raise
  <2>2. CASE PlayWrite \/ PlayRead \/ PlayPulse
    BY <1>2, <2>2 DEF PlayWrite, PlayRead, PlayPulse, Done
  <2>3. CASE UNCHANGED vars
    BY <1>2, <2>3 DEF vars, retargetVars
  <2> QED BY <1>2, <2>1, <2>2, <2>3 DEF Next
<1> QED BY <1>1, <1>2

\* The call: what a retargeter appends has an outline.
LEMMA RetargetKeeps ==
  ASSUME PlayInv, CallInv, SolvesSeeds, Retarget, UNCHANGED deviceVars
  PROVE  PlayInv'
<1> DEFINE Quiet == UNCHANGED <<setup, patterns, program, deviceVars>>
<1>1. ASSUME Quiet PROVE PlayInv'
  <2>1. Job' = Job /\ UNCHANGED <<setup, deviceVars>> /\ program' = program
    BY <1>1 DEF Job
  <2>2. \A a : Holds(a) => Holds(a)'
    BY <2>1, HoldsStays
  <2>3. Outlined'
    BY <2>1, <2>2 DEF PlayInv, Outlined
  <2>4. (setup \in Setups /\ scan_enable \in BOOLEAN /\ DeviceType)'
    BY <2>1 DEF PlayInv, DeviceType, deviceVars
  <2> QED BY <2>1, <2>3, <2>4 DEF PlayInv
<1>2. ASSUME stage \in {"next", "solving"}, at <= Len(patterns)
      PROVE  /\ pattern \in ScanPattern /\ pattern = Job.patterns[at]
             /\ at \in DOMAIN Job.patterns /\ at \in Nat
  BY <1>2 DEF CallInv, Job, pattern
<1>3. Job.mode = setup.mode
  BY DEF Job
<1>4. CASE RetargetRaw
  <2>1. /\ setup.mode = "raw" /\ stage = "next" /\ at <= Len(patterns)
        /\ program' = program \o RawProgram(at, pattern)
        /\ UNCHANGED <<setup, patterns, deviceVars>>
    BY <1>4 DEF RetargetRaw, Ready, Emit
  <2>2. \E b : Runs(Job, Nothing(pattern), RawProgram(at, pattern), b)
    BY <2>1, <1>2, <1>3, RawRuns
  <2> QED BY <2>1, <2>2, <1>2, Appended
<1>5. CASE RetargetCompacted
  <2>1. /\ setup.mode = "compacted" /\ stage = "next" /\ at <= Len(patterns)
        /\ UNCHANGED <<setup, patterns, deviceVars>>
    BY <1>5 DEF RetargetCompacted, Ready
  <2>2. CASE program' = program \o CompactedProgram(at, pattern)
    <3>1. \E b : Runs(Job, Nothing(pattern), CompactedProgram(at, pattern), b)
      BY <2>1, <1>2, <1>3, CompactedRuns
    <3> QED BY <2>1, <2>2, <3>1, <1>2, Appended
  <2>3. CASE program' = program
    BY <2>1, <2>3, <1>1
  <2> QED BY <1>5, <2>2, <2>3 DEF RetargetCompacted, Emit, Raise
<1>6. CASE RetargetWithoutLoad
  <2>1. /\ setup.mode = "compressed" /\ stage = "next" /\ at <= Len(patterns)
        /\ DOMAIN pattern.load = {}
        /\ program' = program \o CaptureAndUnload(at, pattern)
        /\ UNCHANGED <<setup, patterns, deviceVars>>
    BY <1>6 DEF RetargetWithoutLoad, Ready, Emit
  <2>2. InPlace(Job, Nothing(pattern), pattern)
    BY <2>1 DEF InPlace
  <2>3. Nothing(pattern) \in Assertion
    BY <2>1, <1>2, NothingHolds
  <2>4. \E b : Runs(Job, Nothing(pattern), CaptureAndUnload(at, pattern), b)
    BY <2>1, <2>2, <2>3, <1>2, <1>3, CaptureAndUnloadRuns
  <2> QED BY <2>1, <2>4, <1>2, Appended
<1>7. CASE SolvePattern \/ Solving \/ Return
  <2>1. Quiet
    BY <1>7 DEF SolvePattern, Solving, Return
  <2> QED BY <2>1, <1>1
<1>8. CASE RetargetCompressed
  <2>1. /\ stage = "solving" /\ seed # Unsolved /\ setup.mode = "compressed"
        /\ UNCHANGED <<setup, patterns, deviceVars>>
    BY <1>8 DEF RetargetCompressed, SolvesSeeds
  <2>2. CASE seed = NoSeed
    <3>1. Quiet
      BY <1>8, <2>1, <2>2 DEF RetargetCompressed, Raise
    <3> QED BY <3>1, <1>1
  <2>3. CASE seed # NoSeed
    <3>1. at <= Len(patterns)
      BY <2>1 DEF CallInv
    <3>2. seed \in Seed /\ seed \in SolutionsOf(EquationsOf(pattern))
      <4>1. seed \in {Unsolved, NoSeed} \cup Seed
        BY <2>1 DEF CallInv, SolverInv, SolverType
      <4> QED BY <4>1, <2>1, <2>3 DEF CallInv, SolverInv, Answered
    <3>3. LoadsFrom(pattern, seed)
      BY <2>1, <3>1, <3>2, <1>2, SolutionsLoad
    <3>4. program' = program \o (LoadSeed(at, seed) \o CaptureAndUnload(at, pattern))
      BY <1>8, <2>3 DEF RetargetCompressed, Emit
    <3>5. \E b : Runs(Job, Nothing(pattern), LoadSeed(at, seed) \o CaptureAndUnload(at, pattern), b)
      BY <2>1, <2>3, <3>1, <3>2, <3>3, <1>2, <1>3, CompressedRuns
    <3> QED BY <2>1, <3>1, <3>4, <3>5, <1>2, Appended
  <2> QED BY <2>2, <2>3
<1> QED BY <1>4, <1>5, <1>6, <1>7, <1>8 DEF Retarget

\* Playing an operation: what its outline asserts next is true.
LEMMA PlayKeeps ==
  ASSUME PlayInv, CallInv, PlayWrite \/ PlayRead \/ PlayPulse
  PROVE  PlayInv'
<1>1. program # << >> /\ UNCHANGED <<setup, patterns>>
  BY DEF PlayWrite, PlayRead, PlayPulse, Playing, Done
<1>2. /\ Op \in Operation
      /\ \E a, b, c : /\ Holds(a) /\ SaysNothing(c) /\ Meets(Job, a, Op)
                      /\ a \in Assertion /\ b \in Assertion
                      /\ Carries(Job, a, Op, b) /\ Runs(Job, b, Tail(program), c)
  BY <1>1, AtOperation
<1>3. PICK a, b, c :
        /\ Holds(a) /\ SaysNothing(c) /\ Meets(Job, a, Op)
        /\ a \in Assertion /\ b \in Assertion
        /\ Carries(Job, a, Op, b) /\ Runs(Job, b, Tail(program), c)
  BY <1>2
<1>4. DeviceType /\ setup \in Setups /\ scan_enable \in BOOLEAN /\ patterns \in Seq(ScanPattern)
  BY DEF PlayInv, CallInv
<1>5. setup.declared \in BOOLEAN
  <2>1. setup \in [mode : {"raw", "compressed", "compacted"}, declared : BOOLEAN,
                 writes : SUBSET Chains]
    BY <1>4, PatternsAssumption
  <2> QED BY <2>1
<1>6. ASSUME Holds(b)', DeviceType', program' = Tail(program), scan_enable' \in BOOLEAN
      PROVE  PlayInv'
  <2>1. Runs(Job, b, program', c)
    BY <1>3, <1>6
  <2> QED BY <2>1, <1>1, <1>3, <1>6, RestOutlined
<1>7. CASE PlayWrite
  <2>1. /\ Op.op = "iWrite" /\ program' = Tail(program) /\ scan_enable' \in BOOLEAN
        /\ IF Op.instrument = tdi_channel_instrument
           THEN tdi_channel' = Op.value /\ UNCHANGED stimulus
           ELSE stimulus' = Latches(Op.instrument, Op.value) /\ UNCHANGED tdi_channel
        /\ UNCHANGED <<setup, prev_scan_en, lfsr, chain>>
    BY <1>4, <1>7 DEF PlayWrite, JtagVector, Undriven, Done
  <2>2. DeviceType' /\ Holds(b)'
    BY <2>1, <1>2, <1>3, <1>4, AfterWrite
  <2> QED BY <2>1, <2>2, <1>6
<1>8. CASE PlayRead
  <2>1. /\ Op.op = "iRead" /\ program' = Tail(program) /\ scan_enable' \in BOOLEAN
        /\ UNCHANGED <<setup, stimulus, tdi_channel, prev_scan_en, lfsr, chain>>
    BY <1>4, <1>8 DEF PlayRead, JtagVector, Undriven, Done
  <2>2. DeviceType' /\ Holds(b)'
    BY <2>1, <1>2, <1>3, <1>4, AfterRead
  <2> QED BY <2>1, <2>2, <1>6
<1>9. CASE PlayPulse
  <2> DEFINE p == patterns[Op.pattern]
             rest == IF Op.count > 1 THEN <<[Op EXCEPT !.count = @ - 1]>> ELSE << >>
  <2>1. /\ Op.op = "PulsePin" /\ scan_enable' = PulseLevel(Op) /\ ClockEdge(p)
        /\ program' = rest \o Tail(program) /\ UNCHANGED setup
    BY <1>9 DEF PlayPulse, Done
  <2>2. /\ Op.count \in Nat \ {0} /\ Op.hold \in SUBSET {0, 1} /\ scan_enable' \in BOOLEAN
    <3>1. Op \in [op : {"PulsePin"}, pattern : Nat, purpose : {"capture", "settle", "load", "step"},
                  count : Nat \ {0}, hold : SUBSET {0, 1}]
      BY <2>1, <1>2 DEF Operation
    <3>2. Op.count \in Nat \ {0} /\ Op.hold \in SUBSET {0, 1}
      BY <3>1
    <3> QED BY <3>2, <2>1, <1>4 DEF PulseLevel, Undriven
  <2>3. p \in ScanPattern
    BY <1>3, <1>4, <2>1 DEF Meets, Job
  <2>4. Tail(program) \in Seq(Operation)
    BY <1>3, RunsEnds
  <2>5. ASSUME Op.count = 1 PROVE program' = Tail(program)
    <3>1. rest = << >>
      BY <2>5
    <3> HIDE DEF rest
    <3> QED BY <3>1, <2>1, <2>4, ConcatEmptySeq
  <2> HIDE DEF p
  <2>6. CASE Op.purpose = "capture"
    <3>1. Pulses(Op, "capture") /\ Op.count = 1
      BY <2>1, <2>6, <1>3 DEF Meets, Pulses
    <3>2. DeviceType' /\ Holds(b)'
      BY <2>1, <3>1, <1>2, <1>3, <1>4, AfterCapture DEF p
    <3> QED BY <3>1, <3>2, <2>2, <2>5, <1>6
  <2>7. CASE Op.purpose = "settle"
    <3>1. Pulses(Op, "settle") /\ Op.count = 1
      BY <2>1, <2>7, <1>3 DEF Meets, Pulses
    <3>2. DeviceType' /\ Holds(b)'
      BY <2>1, <2>3, <3>1, <1>2, <1>3, <1>4, AfterSettle
    <3> QED BY <3>1, <3>2, <2>2, <2>5, <1>6
  <2>8. CASE Op.purpose = "step"
    <3>1. Pulses(Op, "step") /\ Op.count = 1
      BY <2>1, <2>8, <1>3 DEF Meets, Pulses
    <3>2. DeviceType' /\ Holds(b)'
      BY <2>1, <2>3, <3>1, <1>2, <1>3, <1>4, AfterStep
    <3> QED BY <3>1, <3>2, <2>2, <2>5, <1>6
  <2>9. CASE Op.purpose = "load"
    <3> DEFINE less == [Op EXCEPT !.count = @ - 1]
    <3>1. Pulses(Op, "load")
      BY <2>1, <2>9 DEF Pulses
    <3>2. /\ DeviceType'
          /\ Op.count = 1 => Holds(b)'
          /\ Op.count > 1 => \E d \in Assertion :
               Holds(d)' /\ Meets(Job, d, less) /\ Carries(Job, d, less, b)
      BY <2>1, <2>3, <3>1, <1>2, <1>3, <1>4, AfterLoad
    <3>3. CASE Op.count = 1
      BY <3>2, <3>3, <2>2, <2>5, <1>6
    <3>4. CASE Op.count > 1
      <4>1. PICK d \in Assertion : Holds(d)' /\ Meets(Job, d, less) /\ Carries(Job, d, less, b)
        BY <3>2, <3>4
      <4>2. less \in Operation
        <5>1. Op \in [op : {"PulsePin"}, pattern : Nat, purpose : {"capture", "settle", "load", "step"},
                      count : Nat \ {0}, hold : SUBSET {0, 1}]
          BY <2>1, <1>2 DEF Operation
        <5>2. Op.count - 1 \in Nat \ {0}
          BY <2>2, <3>4
        <5> QED BY <5>1, <5>2 DEF Operation
      <4>3. program' = <<less>> \o Tail(program)
        BY <2>1, <3>4
      <4> HIDE DEF less
      <4>4. Runs(Job, d, <<less>>, b)
        <5>1. b \in Assertion
          BY <1>3
        <5>2. d \in Assertion /\ Meets(Job, d, less) /\ Carries(Job, d, less, b)
          BY <4>1
        <5> QED BY <4>2, <5>1, <5>2, RunsOne
      <4>5. Runs(Job, d, program', c)
        BY <4>3, <4>4, <1>3, RunsThen
      <4> QED BY <4>1, <4>5, <3>2, <2>2, <1>1, <1>3, RestOutlined
    <3>5. Op.count = 1 \/ Op.count > 1
      BY <2>2
    <3> QED BY <3>3, <3>4, <3>5
  <2> QED BY <2>6, <2>7, <2>8, <2>9, <2>1, <1>3 DEF Meets, Pulses
<1> QED BY <1>7, <1>8, <1>9

\* Every step keeps the outline.
LEMMA PlayInvKept == PlayInv /\ CallInv /\ SolvesSeeds /\ [Next]_vars => PlayInv'
<1> SUFFICES ASSUME PlayInv, CallInv, SolvesSeeds, [Next]_vars PROVE PlayInv'
  OBVIOUS
<1>1. CASE Retarget /\ UNCHANGED deviceVars
  BY <1>1, RetargetKeeps
<1>2. CASE PlayWrite \/ PlayRead \/ PlayPulse
  BY <1>2, PlayKeeps
<1>3. CASE UNCHANGED vars
  <2>1. UNCHANGED <<setup, patterns, program, deviceVars>> /\ Job' = Job
    BY <1>3 DEF vars, retargetVars, Job
  <2>2. \A a : Holds(a) => Holds(a)'
    BY <2>1, HoldsStays
  <2>3. Outlined'
    BY <2>1, <2>2 DEF PlayInv, Outlined
  <2>4. (setup \in Setups /\ scan_enable \in BOOLEAN /\ DeviceType)'
    BY <2>1 DEF PlayInv, DeviceType, deviceVars
  <2> QED BY <2>1, <2>3, <2>4 DEF PlayInv
<1> QED BY <1>1, <1>2, <1>3 DEF Next

\* The program of every call has an outline, from its first operation to its
\* last.
THEOREM ProgramsAreOutlined == Spec => []PlayInv
<1>1. Init => PlayInv /\ CallInv /\ SolvesSeeds
  BY PlayStart, CallStart, OnlyCompressedSolves
<1>2. PlayInv /\ CallInv /\ SolvesSeeds /\ [Next]_vars => (PlayInv /\ CallInv /\ SolvesSeeds)'
  BY PlayInvKept, CallStep, OnlyCompressedSolves
<1> QED BY <1>1, <1>2, PTL DEF Spec

\* Whatever earlier patterns left in the ring generator, the pins, the latches
\* and the chains, and whatever the other patterns of the list are, every bit of
\* a load that matters is in place at its capture if WRITE instruments drive it
\* or the ring generator does: the settling edge that the seed program takes
\* before the load is enough (faultflow_compression.py), for every ring
\* generator and every seed.
THEOREM LoadsAreInPlace == Spec => []LoadedAtCapture
<1>1. PlayInv /\ CallInv => LoadedAtCapture
  <2> SUFFICES ASSUME PlayInv, CallInv, AtCapture, Driven(patterns[Op.pattern])
               PROVE  WellLoaded(patterns[Op.pattern], LoadTarget)
    BY DEF LoadedAtCapture
  <2>1. program # << >> /\ Pulses(Op, "capture")
    BY DEF AtCapture, Playing, Pulses
  <2>2. PICK a \in Assertion : Holds(a) /\ Meets(Job, a, Op)
    BY <2>1, AtOperation
  <2>3. Op.pattern \in DOMAIN patterns /\ InPlace(Job, a, patterns[Op.pattern])
    BY <2>1, <2>2 DEF Meets, Pulses, Job
  <2>4. patterns[Op.pattern] \in ScanPattern
    BY <2>3 DEF CallInv
  <2> QED BY <2>2, <2>3, <2>4, InPlaceIsWell
<1>2. Spec => []CallInv
  BY CallStart, CallStep, PTL DEF Spec
<1> QED BY <1>1, <1>2, ProgramsAreOutlined, PTL

\* Whether the pin is known is settled when the call is made.
LEMMA PinIsKnown ==
  ASSUME \A s \in Setups : s.mode = "compacted" => s.declared, PlayInv
  PROVE  PinKnown
<1>1. setup \in Setups /\ setup \in [mode : {"raw", "compressed", "compacted"}, declared : BOOLEAN,
                 writes : SUBSET Chains]
  BY PatternsAssumption DEF PlayInv
<1> QED BY <1>1 DEF PinKnown

\* If a compacted program's scan_enable is among to_stil's declared inputs, a
\* design without a defect passes every iRead of a READ instrument, in every
\* pattern whose load WRITE instruments or the ring generator drive: what the
\* retargeters expect is what the chains and the compactor then show.  A raw
\* chain both loaded and observed through its one instrument is never among them.
THEOREM SoundDesignsPass ==
  ASSUME \A s \in Setups : s.mode = "compacted" => s.declared
  PROVE  Spec => []ReadsMatch
<1>1. PlayInv => ReadsMatch
  <2> SUFFICES ASSUME PlayInv, Playing, Op.op = "iRead", Driven(patterns[Op.pattern]),
                      Op.instrument \notin setup.writes
               PROVE  Observed(Op.instrument) = Op.value
    BY DEF ReadsMatch
  <2>1. program # << >>
    BY DEF Playing
  <2>2. PICK a \in Assertion : Holds(a) /\ Meets(Job, a, Op)
    BY <2>1, AtOperation
  <2>3. /\ a.age # -1 /\ a.about = patterns[Op.pattern]
        /\ \/ /\ Op.instrument \in Chains /\ a.age = 0
              /\ Op.value = a.about.response[Op.instrument]
           \/ /\ Op.instrument = tdo_channel_instrument /\ a.age < MaxLength
              /\ Op.value = ExpectedChannelValue(a.about, a.age + 1)
    BY <2>2 DEF Meets, Job
  <2>4. chain = Aged(a.about.response, a.age) /\ a.about \in ScanPattern /\ a.age \in Nat
    <3>1. PinKnown
      BY PinIsKnown
    <3>2. a.about \in ScanPattern /\ a.age \in Nat \cup {-1}
      BY DEF Assertion
    <3> QED BY <3>1, <3>2, <2>2, <2>3 DEF Holds
  <2>5. CASE /\ Op.instrument \in Chains /\ a.age = 0
             /\ Op.value = a.about.response[Op.instrument]
    <3>1. chain = a.about.response
      <4>1. a.about.response \in AnyContents
        BY <2>4 DEF ScanPattern
      <4> QED BY <4>1, <2>4, <2>5, AgedZero
    <3>2. Op.instrument # tdo_channel_instrument
      BY <2>5, ChainFacts DEF tdo_channel_instrument
    <3> QED BY <3>1, <3>2, <2>5 DEF Observed
  <2>6. CASE /\ Op.instrument = tdo_channel_instrument /\ a.age < MaxLength
             /\ Op.value = ExpectedChannelValue(a.about, a.age + 1)
    <3>1. ChannelOutput = ExpectedChannelValue(a.about, a.age + 1)
      BY <2>4, <2>6, ChannelAfterShifts
    <3> QED BY <3>1, <2>6 DEF Observed
  <2> QED BY <2>3, <2>5, <2>6
<1> QED BY <1>1, ProgramsAreOutlined, PTL

\* Under the same condition no capture pulse is taken with scan_enable high.
\* Without it one is: the run compacted_capture has the counterexample.
THEOREM CapturesAreFunctional ==
  ASSUME \A s \in Setups : s.mode = "compacted" => s.declared
  PROVE  Spec => []CaptureIsFunctional
<1>1. PlayInv => CaptureIsFunctional
  <2> SUFFICES ASSUME PlayInv, AtCapture, setup.mode # "raw" PROVE ~PulseLevel(Op)
    BY DEF CaptureIsFunctional
  <2>1. program # << >> /\ Op.op = "PulsePin" /\ Op.purpose = "capture"
    BY DEF AtCapture, Playing
  <2>2. PICK a \in Assertion : Meets(Job, a, Op)
    BY <2>1, AtOperation
  <2>3. Op.hold = IF setup.mode = "compressed" THEN {0} ELSE Unlisted
    BY <2>1, <2>2 DEF Meets, Job
  <2>4. setup.mode = "compressed" \/ setup.declared
    BY PinIsKnown DEF PinKnown
  <2> QED BY <2>3, <2>4, HoldLevels DEF PulseLevel, Undriven
<1> QED BY <1>1, ProgramsAreOutlined, PTL
=============================================================================
