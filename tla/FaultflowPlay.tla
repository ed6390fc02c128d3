--------------------------- MODULE FaultflowPlay ---------------------------
(* A retargeted program on the design it is for.  to_stil (tap_ir_stil.py)   *)
(* decides the level of the scan_enable pin in every vector; the design, its *)
(* ring generator and its compactor are outside the repository and follow    *)
(* what faultflow_compression.py and faultflow_compaction.py say of them.    *)
(* The design has no defect: a capture of a pattern's load gives the response *)
(* the pattern predicts, and a capture of anything else could give any.       *)
EXTENDS FaultflowRetarget

VARIABLES
    scan_enable,    \* the level of the pin
    stimulus,       \* chain -> the update latches of its instrument, if it is WRITE
    tdi_channel,    \* the seed channel's write instrument
    prev_scan_en,   \* the ring generator's copy of scan_enable
    lfsr,           \* the ring generator's stages that are 1
    chain           \* chain -> its cells, the one nearest scan-in first

deviceVars == <<scan_enable, stimulus, tdi_channel, prev_scan_en, lfsr, chain>>
vars == <<retargetVars, deviceVars>>

Zeros == [c \in Chains |-> [i \in 1 .. Length[c] |-> FALSE]]

Init ==
    /\ RetargetInit
    /\ scan_enable = FALSE
    /\ stimulus = Zeros /\ tdi_channel = {}
    /\ prev_scan_en \in BOOLEAN
    /\ lfsr \in {{}, Channels}
    /\ chain = Zeros

-----------------------------------------------------------------------------
(* The pin: a JTAG vector drives a declared input to its value (0 here) and  *)
(* leaves any other where it was; so does a pulse that does not list it.      *)
Undriven == IF setup.declared THEN FALSE ELSE scan_enable
JtagVector == scan_enable' = Undriven
PulseLevel(op) == IF op.hold = Unlisted THEN Undriven ELSE op.hold = {1}

(* The design. *)
Shifting == setup.mode /= "raw" /\ scan_enable'
Reseed == scan_enable' /\ ~prev_scan_en
Stages == IF Reseed THEN tdi_channel ELSE lfsr

\* The Galois shift on the stages themselves.
NextStages(s) ==
    {i \in Channels :
        (((IF i = 0 THEN NumChannels - 1 ELSE i - 1) \in s)
            /= (i \in LfsrTaps /\ NumChannels - 1 \in s))}

ScanIn(c) == setup.mode = "compressed" /\ Parity(PhaseTaps[c] \intersect Stages)

\* contents holds every specified bit of p's load that matters.
WellLoaded(p, contents) ==
    \A c \in DOMAIN p.load : \A t \in Cycles :
        Cared(p, c, t) /\ t > MaxLength - Length[c]
            => contents[c][MaxLength + 1 - t] = p.load[c][t]
\* Where the load of this mode is when the design captures.
LoadTarget == IF setup.mode = "compressed" THEN chain ELSE stimulus

FunctionalEdge(p) ==
    chain' \in IF WellLoaded(p, LoadTarget) THEN {p.response} ELSE AnyContents
ShiftEdge ==
    chain' = [c \in Chains |-> <<ScanIn(c)>> \o SubSeq(chain[c], 1, Length[c] - 1)]

ClockEdge(p) ==
    /\ IF Shifting THEN ShiftEdge ELSE FunctionalEdge(p)
    /\ lfsr' = IF scan_enable' THEN NextStages(Stages) ELSE lfsr
    /\ prev_scan_en' = scan_enable'
    /\ UNCHANGED <<stimulus, tdi_channel>>

ChannelOutput == [o \in DOMAIN Fanout |-> Parity({c \in Fanout[o] : Last(chain[c])})]

(* An instrument is READ or WRITE, never both, and a chain has one.  Only a  *)
(* WRITE one takes what it is sent, and it captures its own latches; a READ   *)
(* one captures the design's bits it is bound to.                             *)
Latches(instrument, value) ==
    IF instrument \in setup.writes THEN [stimulus EXCEPT ![instrument] = value] ELSE stimulus
Observed(instrument) ==
    IF instrument = tdo_channel_instrument THEN ChannelOutput
    ELSE IF instrument \in setup.writes THEN stimulus[instrument] ELSE chain[instrument]

-----------------------------------------------------------------------------
Playing == stage = "done" /\ program /= << >>
Op == Head(program)
Done(ops) == program' = ops /\ UNCHANGED <<setup, patterns, at, stage, solverVars>>

PlayWrite ==
    /\ Playing /\ Op.op = "iWrite"
    /\ JtagVector
    /\ IF Op.instrument = tdi_channel_instrument
       THEN tdi_channel' = Op.value /\ UNCHANGED stimulus
       ELSE stimulus' = Latches(Op.instrument, Op.value) /\ UNCHANGED tdi_channel
    /\ UNCHANGED <<prev_scan_en, lfsr, chain>>
    /\ Done(Tail(program))

PlayRead ==
    /\ Playing /\ Op.op = "iRead"
    /\ JtagVector
    /\ UNCHANGED <<stimulus, tdi_channel, prev_scan_en, lfsr, chain>>
    /\ Done(Tail(program))

\* One vector of the pulse's loop.
PlayPulse ==
    /\ Playing /\ Op.op = "PulsePin"
    /\ scan_enable' = PulseLevel(Op)
    /\ ClockEdge(patterns[Op.pattern])
    /\ Done((IF Op.count > 1 THEN <<[Op EXCEPT !.count = @ - 1]>> ELSE << >>)
            \o Tail(program))

Next == (Retarget /\ UNCHANGED deviceVars) \/ PlayWrite \/ PlayRead \/ PlayPulse
Spec == Init /\ [][Next]_vars

\* One sequential call, then one tester run over a finite program: neither stops
\* while it has a step to take.
FairSpec == Spec /\ WF_vars(Next)

-----------------------------------------------------------------------------
\* However the rows were swapped and combined, solve_xor_broadcast still
\* solves the system it was given: no solution is lost and none is gained.
SolutionsKept ==
    stage = "solving" => SolutionsOf(augmented) = SolutionsOf(EquationsOf(pattern))

\* The ring generator's stages at each cycle of a load from a seed.
Trajectory(s) ==
    LET stages[t \in Cycles] == IF t = 1 THEN s ELSE NextStages(stages[t - 1])
    IN  stages
LoadsFrom(p, s) ==
    \A c \in DOMAIN p.load : \A t \in Cycles :
        Cared(p, c, t) => Parity(PhaseTaps[c] \intersect Trajectory(s)[t]) = p.load[c][t]

\* A compressed pattern is refused only if the ring generator loads it from no
\* seed at all ("no seed jointly satisfies", solve_pattern_seed).
RaisesOnlyWhenImpossible ==
    stage = "raised" /\ setup.mode = "compressed"
        => \A s \in Seed : ~LoadsFrom(pattern, s)

\* A load some seed produces, and outputs that fold listed chains only.
Retargetable(p) ==
    /\ setup.mode = "compressed" /\ DOMAIN p.load /= {} => \E s \in Seed : LoadsFrom(p, s)
    /\ setup.mode = "compacted" => p.observed = {} \/ FoldCovered(p)

\* A call whose patterns can all be loaded and observed is answered and its
\* program plays to the end: the elimination comes to a decision on every
\* system, dependent equations included, and refuses none it can meet.
RetargetableIsPlayed ==
    (stage = "next" /\ at = 1 /\ \A n \in DOMAIN patterns : Retargetable(patterns[n]))
        ~> (stage = "done" /\ program = << >>)

AtCapture == Playing /\ Op.op = "PulsePin" /\ Op.purpose = "capture"

\* Every instrument p writes to load a chain is a WRITE one.
Driven(p) == setup.mode = "compressed" \/ DOMAIN p.load \subseteq setup.writes

\* Whatever earlier patterns left in the ring generator, the pins, the latches
\* and the chains, every bit that matters is in place when a pattern captures
\* whose load its instruments can drive.
LoadedAtCapture ==
    AtCapture /\ Driven(patterns[Op.pattern]) => WellLoaded(patterns[Op.pattern], LoadTarget)

\* No capture pulse is taken with scan_enable high: the chains would shift.
\* faultflow_compaction.py:30-33 sets the shift pulses apart from the capture this way.
CaptureIsFunctional == AtCapture /\ setup.mode /= "raw" => ~PulseLevel(Op)

\* A design without a defect passes: every iRead of a pattern that was loaded
\* finds what it expects, through an instrument that can see the design.  Read
\* through the WRITE instrument that loaded it, a chain gives back the load:
\* faultflow_retarget.py:33-36 compares every chain against the capture.
ReadsMatch ==
    Playing /\ Op.op = "iRead" /\ Driven(patterns[Op.pattern])
            /\ Op.instrument \notin setup.writes
        => Observed(Op.instrument) = Op.value
=============================================================================
