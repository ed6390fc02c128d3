------------------------- MODULE FaultflowRetarget -------------------------
(* The three retargeters of scan test patterns: raw chains                  *)
(* (faultflow_retarget.py), a compressed load side                           *)
(* (faultflow_compression.py) and a compacted unload side                    *)
(* (faultflow_compaction.py).  A call turns a list of patterns into one      *)
(* program or raises and returns nothing.  The accesses to instruments are   *)
(* iWrite and iRead calls, each applied: PdlOnNetwork shows that they make   *)
(* an instrument behave as a register.                                       *)
EXTENDS SeedSolver, SequencesExt

CONSTANTS
    Length,         \* chain number -> number of cells
    MaxLength,      \* max_chain_length, the length of every exported sequence
    LfsrTaps,       \* LfsrPolynomial.taps
    PhaseTaps,      \* chain number -> the ring generator stages it XORs
    Fanout,         \* compactor output -> the chains it XORs
    PatternLists,   \* mode -> the lists of patterns a call may be given
    Setups          \* [mode, declared, writes]: the retargeter, whether the caller
                    \* of to_stil declares scan_enable among its inputs, and
                    \* the chains whose instrument is a WRITE one

Chains == DOMAIN Length
Cycles == 1 .. MaxLength
Contents(c) == [1 .. Length[c] -> BOOLEAN]
AnyContents == {f \in [Chains -> UNION {Contents(c) : c \in Chains}] :
                    \A c \in Chains : f[c] \in Contents(c)}

\* A pattern: what it loads into some chains, cycle by cycle, which of that
\* matters, what the chains hold after the capture, and which are observed.
ScanPattern ==
  [load : UNION {[chains -> [Cycles -> BOOLEAN]] : chains \in SUBSET Chains},
   care : SUBSET (Chains \X Cycles),
   response : AnyContents,
   observed : SUBSET Chains]

\* Stage 0 always takes the raw feedback, so it is never a tap.
ValidTaps == LfsrTaps \subseteq 1 .. NumChannels - 1
ASSUME ScanAssumption ==
    /\ ValidTaps
    /\ MaxLength \in Nat \ {0}
    /\ Length \in Seq(Nat)
    /\ \A c \in Chains : Length[c] \in Cycles
    /\ PhaseTaps \in [Chains -> SUBSET Channels]
    /\ \A o \in DOMAIN Fanout : Fanout[o] \subseteq Chains
ASSUME PatternsAssumption ==
    /\ Setups \subseteq [mode : {"raw", "compressed", "compacted"}, declared : BOOLEAN,
                        writes : SUBSET Chains]
    /\ \A s \in Setups : \A list \in PatternLists[s.mode] : list \in Seq(ScanPattern)

\* load_care absent: every specified bit is a constraint.
AllCare == Chains \X Cycles

\* Instruments: the one chain_to_instrument names for a chain, by the chain's
\* number, and the two channel instruments, one WRITE and one READ.
tdi_channel_instrument == -1
tdo_channel_instrument == -2

VARIABLES
    setup,      \* the member of Setups this call runs in
    patterns,   \* the patterns given
    at,         \* the pattern being retargeted; Len(patterns) + 1 at the end
    stage,      \* "next", "solving", "done" or "raised"
    program     \* the operations appended so far

retargetVars == <<setup, patterns, at, stage, program, solverVars>>

pattern == patterns[at]

-----------------------------------------------------------------------------
(* Sequences: load_seqs is padded at the front, expected_unload at the back. *)

StripLoadPadding(seq, width) == SubSeq(seq, Len(seq) - width + 1, Len(seq))
StripUnloadPadding(seq, width) == SubSeq(seq, 1, width)

\* A seeded fault: the sequence is packed as it stands.
PayloadUnreversed(seq) == seq

SequenceToPayload(seq) == Reverse(seq)

\* What the generator of the patterns exports for a response (the contents of
\* a chain, the cell nearest scan-in first): the last cell leaves first.
ExpectedUnload(p, c) ==
    Reverse(p.response[c]) \o [i \in 1 .. MaxLength - Length[c] |-> FALSE]

(* Operations. *)
iWrite(n, instrument, value) ==
    [op |-> "iWrite", pattern |-> n, instrument |-> instrument, value |-> value]
iRead(n, instrument, value) ==
    [op |-> "iRead", pattern |-> n, instrument |-> instrument, value |-> value]
\* hold is the level hold_pins gives scan_enable, if it gives one.
Unlisted == {}
PulsePin(n, purpose, count, hold) ==
    [op |-> "PulsePin", pattern |-> n, purpose |-> purpose,
     count |-> count, hold |-> hold]

PerChain(chains, Op(_)) ==
    FlattenSeq([c \in Chains |-> IF c \in chains THEN <<Op(c)>> ELSE << >>])

LoadChains(n, p) ==
    PerChain(DOMAIN p.load, LAMBDA c :
        iWrite(n, c, SequenceToPayload(StripLoadPadding(p.load[c], Length[c]))))
UnloadChains(n, p) ==
    PerChain(p.observed, LAMBDA c :
        iRead(n, c, SequenceToPayload(StripUnloadPadding(ExpectedUnload(p, c), Length[c]))))
Capture(n, p, hold) ==
    IF p.observed = {} THEN << >> ELSE <<PulsePin(n, "capture", 1, hold)>>

\* Every chain loaded, one capture, every chain unloaded.
RawProgram(n, p) == LoadChains(n, p) \o Capture(n, p, Unlisted) \o UnloadChains(n, p)

-----------------------------------------------------------------------------
(* Compression. *)

\* A seeded fault: the tap's XOR one stage late.
LfsrStepLate(rows) ==
    LET fb == rows[NumChannels - 1]
    IN  [i \in Channels |->
            IF i = 0 THEN fb
            ELSE XorSets(rows[i - 1], IF i - 1 \in LfsrTaps THEN fb ELSE {})]

\* The seed bits each stage XORs after one more shift: stage 0 takes the
\* feedback, a tapped stage XORs it into what it receives.
LfsrStep(rows) ==
    LET fb == rows[NumChannels - 1]
    IN  [i \in Channels |->
            IF i = 0 THEN fb
            ELSE XorSets(rows[i - 1], IF i \in LfsrTaps THEN fb ELSE {})]

XorReduce(rows, taps) == {b \in Channels : Parity({k \in taps : b \in rows[k]})}

\* care_bit_rows[t][c]: the seed bits chain c's scan-in XORs at cycle t.
StageRows[t \in Cycles] ==
    IF t = 1 THEN [i \in Channels |-> {i}] ELSE LfsrStep(StageRows[t - 1])
CareBitRows == [t \in Cycles |-> [c \in Chains |-> XorReduce(StageRows[t], PhaseTaps[c])]]

Cared(p, c, t) == <<c, t>> \in p.care

\* solve_pattern_seed: one equation per specified bit that matters.
Equations(p, c, t) ==
    IF c \in DOMAIN p.load /\ Cared(p, c, t)
    THEN << [coeffs |-> CareBitRows[t][c], rhs |-> p.load[c][t]] >>
    ELSE << >>
EquationsOf(p) ==
    FlattenSeq([c \in Chains |-> FlattenSeq([t \in Cycles |-> Equations(p, c, t)])])

\* A seeded fault: no edge with scan_enable low before the load.
LoadSeedUnsettled(n, s) ==
    << iWrite(n, tdi_channel_instrument, s),
       PulsePin(n, "load", MaxLength, {1}) >>

\* The seed, one edge with scan_enable low, then the reseed and the shifts.
LoadSeed(n, s) ==
    << iWrite(n, tdi_channel_instrument, s),
       PulsePin(n, "settle", 1, {0}),
       PulsePin(n, "load", MaxLength, {1}) >>

CaptureAndUnload(n, p) == Capture(n, p, {0}) \o UnloadChains(n, p)

(* Compaction. *)

\* What the compactor's outputs show in one cycle of the unload.
ExpectedChannelValue(p, t) ==
    [o \in DOMAIN Fanout |-> Parity({c \in Fanout[o] : ExpectedUnload(p, c)[t]})]
FoldCovered(p) == \A o \in DOMAIN Fanout : Fanout[o] \subseteq p.observed

\* One sample per cycle, and a shift between two samples.
SampleOutputs(n, p) ==
    IF p.observed = {} THEN << >>
    ELSE FlattenSeq([t \in Cycles |->
            <<iRead(n, tdo_channel_instrument, ExpectedChannelValue(p, t))>>
            \o (IF t < MaxLength THEN <<PulsePin(n, "step", 1, {1})>> ELSE << >>)])
CompactedProgram(n, p) ==
    LoadChains(n, p) \o Capture(n, p, Unlisted) \o SampleOutputs(n, p)

-----------------------------------------------------------------------------
RetargetInit ==
    /\ setup \in Setups
    /\ patterns \in PatternLists[setup.mode]
    /\ at = 1 /\ stage = "next" /\ program = << >>
    /\ SolverInit

Ready(mode) == setup.mode = mode /\ stage = "next" /\ at <= Len(patterns)
Emit(ops) ==
    /\ program' = program \o ops
    /\ at' = at + 1
    /\ stage' = "next"
Raise == stage' = "raised" /\ UNCHANGED <<at, program>>

RetargetRaw ==
    /\ Ready("raw")
    /\ Emit(RawProgram(at, pattern))
    /\ UNCHANGED <<setup, patterns, solverVars>>

RetargetCompacted ==
    /\ Ready("compacted")
    /\ IF pattern.observed = {} \/ FoldCovered(pattern)
       THEN Emit(CompactedProgram(at, pattern))
       ELSE Raise
    /\ UNCHANGED <<setup, patterns, solverVars>>

\* A pattern with nothing to load writes no seed.
RetargetWithoutLoad ==
    /\ Ready("compressed")
    /\ DOMAIN pattern.load = {}
    /\ Emit(CaptureAndUnload(at, pattern))
    /\ UNCHANGED <<setup, patterns, solverVars>>

SolvePattern ==
    /\ Ready("compressed")
    /\ DOMAIN pattern.load /= {}
    /\ StartSolver(EquationsOf(pattern))
    /\ stage' = "solving"
    /\ UNCHANGED <<setup, patterns, at, program>>

Solving ==
    /\ stage = "solving"
    /\ SolverStep
    /\ UNCHANGED <<setup, patterns, at, stage, program>>

RetargetCompressed ==
    /\ stage = "solving" /\ seed /= Unsolved
    /\ IF seed = NoSeed THEN Raise
       ELSE Emit(LoadSeed(at, seed) \o CaptureAndUnload(at, pattern))
    /\ UNCHANGED <<setup, patterns, solverVars>>

\* The call returns its program.
Return ==
    /\ stage = "next" /\ at > Len(patterns)
    /\ stage' = "done"
    /\ UNCHANGED <<setup, patterns, at, program, solverVars>>

Retarget ==
    RetargetRaw \/ RetargetCompacted \/ RetargetWithoutLoad \/ SolvePattern
    \/ Solving \/ RetargetCompressed \/ Return
=============================================================================
