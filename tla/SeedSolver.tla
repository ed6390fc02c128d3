---------------------------- MODULE SeedSolver ----------------------------
(* solve_xor_broadcast (faultflow_compression.py): Gauss-Jordan elimination *)
(* over GF(2), one action per column.  A row is a linear equation over the   *)
(* seed bits: the set of bits it XORs, and the value that XOR must have.     *)
EXTENDS Integers, Sequences, FiniteSets, FiniteSetsExt

CONSTANT NumChannels    \* the width of the seed
ASSUME NumChannelsAssumption == NumChannels \in Nat \ {0}

Channels == 0 .. NumChannels - 1
Seed == SUBSET Channels                       \* the seed bits that are 1
Equation == [coeffs : SUBSET Channels, rhs : BOOLEAN]
NoSeed == {-1}                                \* the function returned None
Unsolved == {-2}

VARIABLES
    augmented,            \* the rows, as the elimination rewrites them
    pivot_col_for_row,    \* the pivot columns found, one per leading row
    col,                  \* the next column
    seed                  \* Unsolved, NoSeed or the answer

solverVars == <<augmented, pivot_col_for_row, col, seed>>

Parity(S) == Cardinality(S) % 2 = 1
XorSets(A, B) == (A \ B) \union (B \ A)
XorRows(r, s) ==
    [coeffs |-> XorSets(r.coeffs, s.coeffs), rhs |-> r.rhs /= s.rhs]

pivot_row == Len(pivot_col_for_row) + 1       \* the row that wants a pivot
Searching == seed = Unsolved /\ col < NumChannels /\ pivot_row <= Len(augmented)
Candidates == {r \in pivot_row .. Len(augmented) : col \in augmented[r].coeffs}

SolverInit ==
    /\ augmented = << >> /\ pivot_col_for_row = << >>
    /\ col = 0 /\ seed = Unsolved

\* The call: one row per equation.
StartSolver(equations) ==
    /\ augmented' = equations
    /\ pivot_col_for_row' = << >>
    /\ col' = 0
    /\ seed' = Unsolved

\* A seeded fault: the pivot row is not left alone.
ClearedAll(rows) ==
    [r \in DOMAIN rows |->
        IF col \in rows[r].coeffs THEN XorRows(rows[r], rows[pivot_row]) ELSE rows[r]]

\* The selected row swapped into place, and its column cleared from every
\* other row, those above it included.
Swapped(sel) ==
    [augmented EXCEPT ![pivot_row] = augmented[sel], ![sel] = augmented[pivot_row]]
Cleared(rows) ==
    [r \in DOMAIN rows |->
        IF r /= pivot_row /\ col \in rows[r].coeffs
        THEN XorRows(rows[r], rows[pivot_row])
        ELSE rows[r]]

PivotColumn ==
    /\ Searching
    /\ Candidates /= {}
    /\ augmented' = Cleared(Swapped(Min(Candidates)))
    /\ pivot_col_for_row' = Append(pivot_col_for_row, col)
    /\ col' = col + 1
    /\ UNCHANGED seed

SkipColumn ==
    /\ Searching
    /\ Candidates = {}
    /\ col' = col + 1
    /\ UNCHANGED <<augmented, pivot_col_for_row, seed>>

\* A seeded fault: a dependent row is taken for a contradiction.
RedundantRow ==
    \E r \in pivot_row .. Len(augmented) : augmented[r].coeffs = {}

\* None if a row without a pivot reads 0 = 1; otherwise each pivot bit takes
\* its row's value and every other bit stays 0.
Contradictory ==
    \E r \in pivot_row .. Len(augmented) :
        augmented[r].coeffs = {} /\ augmented[r].rhs
PivotBits ==
    {pivot_col_for_row[r] : r \in {q \in 1 .. pivot_row - 1 : augmented[q].rhs}}

Decide ==
    /\ seed = Unsolved /\ ~Searching
    /\ seed' = IF Contradictory THEN NoSeed ELSE PivotBits
    /\ UNCHANGED <<augmented, pivot_col_for_row, col>>

SolverStep == PivotColumn \/ SkipColumn \/ Decide

Satisfies(x, row) == Parity(row.coeffs \intersect x) = row.rhs
SolutionsOf(rows) ==
    {x \in Seed : \A r \in DOMAIN rows : Satisfies(x, rows[r])}
=============================================================================
