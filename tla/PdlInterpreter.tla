--------------------------- MODULE PdlInterpreter ---------------------------
(***************************************************************************)
(* pdl_interpreter.py's PDLInterpreter: iTarget, iWrite, iRead, iRunLoop   *)
(* and iApply lower instrument accesses to DR scans, tracking what the     *)
(* scans emitted so far will have opened and committed.  The program is    *)
(* played later (PdlOnNetwork), so the tracking runs ahead of the network. *)
(***************************************************************************)
EXTENDS ScanNetwork

CONSTANTS
  Fields,        \* instrument -> its Aliases, [low, high] bit ranges
  OtherScopes,   \* modules of the instance tree that are not instruments
  WriteValues, ReadValues,
  MaxEdits,      \* bound on the iWrites pending for one scope
  MaxPending,    \* bound on the scopes with anything pending
  MaxAccesses,   \* bound on the applied accesses not yet played
  MaxWaits       \* a wait is only appended to a program shorter than this

Scopes == Instruments \cup OtherScopes
NoScope == "no scope"

ASSUME PdlAssumption ==
  /\ Fields \in [Instruments -> SUBSET [low : Nat, high : Nat]]
  /\ \A i \in Instruments : \A f \in Fields[i] : f.low <= f.high /\ f.high < Width[i]
  /\ OtherScopes \cap Instruments = {}
  /\ WriteValues \subseteq Nat /\ ReadValues \subseteq Nat
  /\ MaxEdits \in Nat /\ MaxPending \in Nat /\ MaxAccesses \in Nat /\ MaxWaits \in Nat

VARIABLES
  scope,            \* _scope
  pendingWrites,    \* _pending_writes, scope -> value
  pendingReads,     \* _pending_reads, scope -> [low, high, value]
  committedWrites,  \* _committed_writes, WRITE instrument -> value
  currentlyOpen,    \* _currently_open, slot -> value
  program,          \* the operations emitted and not yet played
  edits             \* history: the iWrites behind each pending write, in order

pdlVars == <<scope, pendingWrites, pendingReads, committedWrites, currentlyOpen,
             program, edits>>

With(f, x, v) == [y \in DOMAIN f \cup {x} |-> IF y = x THEN v ELSE f[y]]
Without(f, x) == [y \in DOMAIN f \ {x} |-> f[y]]
GetOr(f, x, default) == IF x \in DOMAIN f THEN f[x] ELSE default

\* _set_bit_range: value replaces bits low .. high of current.
SetBitRange(current, low, high, value) ==
  LET span == Pow2[high - low + 1]
      field == (current \div Pow2[low]) % span
  IN  (current - field * Pow2[low]) + (value % span) * Pow2[low]

PdlInit ==
  /\ scope = NoScope
  /\ pendingWrites = <<>> /\ pendingReads = <<>>
  /\ committedWrites = <<>> /\ currentlyOpen = <<>>
  /\ program = <<>>
  /\ edits = [s \in Scopes |-> <<>>]

\* The bounds on what is pending.
RoomForCommand ==
  Cardinality({scope} \cup DOMAIN pendingWrites \cup DOMAIN pendingReads) <= MaxPending

RoomForWrite == RoomForCommand /\ Len(edits[scope]) < MaxEdits

----------------------------------------------------------------------------
iTarget(s) ==
  /\ scope' = s
  /\ UNCHANGED <<pendingWrites, pendingReads, committedWrites, currentlyOpen,
                 program, edits>>

\* A whole-instrument write replaces whatever was pending.
iWrite(value) ==
  /\ scope # NoScope
  /\ RoomForWrite
  /\ pendingWrites' = With(pendingWrites, scope, value)
  /\ edits' = [edits EXCEPT ![scope] =
       Append(@, [low |-> 0, value |-> value,
                  high |-> IF scope \in Instruments THEN Width[scope] - 1 ELSE 0])]
  /\ UNCHANGED <<scope, pendingReads, committedWrites, currentlyOpen, program>>

\* A field write merges into the pending value, else into the last committed one.
iWriteField(field, value) ==
  /\ scope \in Instruments /\ field \in Fields[scope]
  /\ RoomForWrite
  /\ LET current == GetOr(pendingWrites, scope, GetOr(committedWrites, scope, 0))
         merged == SetBitRange(current, field.low, field.high, value)
     IN  pendingWrites' = With(pendingWrites, scope, merged)
  /\ edits' = [edits EXCEPT ![scope] =
       Append(@, [low |-> field.low, high |-> field.high, value |-> value])]
  /\ UNCHANGED <<scope, pendingReads, committedWrites, currentlyOpen, program>>

\* Which bits a whole-instrument read compares is settled in iApply.
iRead(expected) ==
  /\ scope # NoScope /\ RoomForCommand
  /\ LET high == IF scope \in Instruments THEN Width[scope] - 1 ELSE 0
     IN  pendingReads' = With(pendingReads, scope,
                                 [low |-> 0, high |-> high, value |-> expected])
  /\ UNCHANGED <<scope, pendingWrites, committedWrites, currentlyOpen, program, edits>>

iReadField(field, expected) ==
  /\ scope \in Instruments /\ field \in Fields[scope] /\ RoomForCommand
  /\ pendingReads' = With(pendingReads, scope, [low |-> field.low, high |-> field.high,
                                              value |-> expected])
  /\ UNCHANGED <<scope, pendingWrites, committedWrites, currentlyOpen, program, edits>>

\* A wait (Runtest, or PulsePin on a functional clock) goes straight into the
\* program.
iRunLoop ==
  /\ Len(program) < MaxWaits
  /\ program' = Append(program, [kind |-> "runtest"])
  /\ UNCHANGED <<scope, pendingWrites, pendingReads, committedWrites,
                 currentlyOpen, edits>>

----------------------------------------------------------------------------
NoAccess == [inst |-> NoScope]

\* ShiftDR: its length, its TDI bits in the order they are fed, and the TDO
\* bits an iRead masks in (cycle -> bit, cycles from 0).
ShiftDR(bits, tdi, expect, access) ==
  [kind |-> "shift", bits |-> bits, tdi |-> tdi, expect |-> expect, access |-> access]

\* A seeded fault: every round sized by what was open before the first.
PhaseOneStatic(rounds) ==
  [r \in DOMAIN rounds |->
     ShiftDR(layout_bit_length(currentlyOpen),
             Reverse(compose_bits(currentlyOpen, rounds[r], NoScope, 0)), <<>>, NoAccess)]

\* Phase 1: one round per stage_open_sequence entry, each sized by what the
\* round before it leaves open.
PhaseOne(rounds) ==
  [r \in DOMAIN rounds |->
     LET prior == IF r = 1 THEN currentlyOpen ELSE rounds[r - 1]
     IN  ShiftDR(layout_bit_length(prior),
                 Reverse(compose_bits(prior, rounds[r], NoScope, 0)), <<>>, NoAccess)]

\* Where the target's bit k comes out.  Bits ordinarily leave in the reverse of
\* position order; a matched mux arm is relayed past the select field and so
\* comes out first (_mux_arm_read_chronological_bits).
ReadCycle(opened, inst, k) ==
  LET layout == Layout(opened)
      offset == (CHOOSE n \in DOMAIN layout : layout[n] = <<inst, 0>>) - 1
  IN  IF Gate(inst).slot \in Muxes THEN Width[inst] - 1 - k
                                  ELSE Len(layout) - 1 - (offset + k)

ExpectedTdo(opened, inst, read) ==
  [c \in {ReadCycle(opened, inst, k) : k \in read.low .. read.high} |->
     LET k == CHOOSE j \in read.low .. read.high : ReadCycle(opened, inst, j) = c
     IN  Bit(read.value, k - read.low)]

\* A seeded fault: a re-applied WRITE instrument falls back to 0.
PayloadOrZero(s) == GetOr(pendingWrites, s, 0)

\* Phase 2 always commits: without a pending write, what was last committed.
Payload(s) ==
  IF s \in DOMAIN pendingWrites THEN pendingWrites[s]
  ELSE IF s \in Writes THEN GetOr(committedWrites, s, 0)
  ELSE 0

\* The accesses among a program's operations.
AccessesOf(p) ==
  FoldLeft(LAMBDA acc, op :
             IF op.kind = "shift" /\ op.access # NoAccess THEN Append(acc, op.access)
                                                         ELSE acc,
           <<>>, p)

Accesses == AccessesOf(program)

\* iApply on an instrument; on any other scope open_path_to raises.
iApply ==
  /\ scope \in Instruments
  /\ Len(Accesses) < MaxAccesses
  /\ LET target_open == AsMap(ToSet(open_path_to(scope)))
         target_sib == Gate(scope).slot
         rounds == stage_open_sequence(target_open, currentlyOpen)
         opened == IF rounds = <<>> THEN currentlyOpen ELSE rounds[Len(rounds)]
         payload == Payload(scope)
         expect == IF scope \in DOMAIN pendingReads
                     THEN ExpectedTdo(opened, scope, pendingReads[scope])
                     ELSE <<>>
         access == [inst |-> scope, edits |-> edits[scope],
                    expects |-> IF scope \in DOMAIN pendingReads
                                  THEN {pendingReads[scope]} ELSE {}]
         phaseTwo == ShiftDR(layout_bit_length(opened),
                             Reverse(compose_bits(opened, opened, target_sib, payload)),
                             expect, access)
     IN  /\ program' = program \o PhaseOne(rounds) \o <<phaseTwo>>
         /\ currentlyOpen' = opened
         /\ committedWrites' = IF scope \in Writes
                                 THEN With(committedWrites, scope, payload)
                                 ELSE committedWrites
  /\ pendingWrites' = Without(pendingWrites, scope)
  /\ pendingReads' = Without(pendingReads, scope)
  /\ edits' = [edits EXCEPT ![scope] = <<>>]
  /\ UNCHANGED scope

Command ==
  \/ \E s \in Scopes : iTarget(s)
  \/ \E v \in WriteValues : iWrite(v)
  \/ \E v \in WriteValues : \E f \in UNION {Fields[i] : i \in Instruments} : iWriteField(f, v)
  \/ \E v \in ReadValues : iRead(v)
  \/ \E v \in ReadValues : \E f \in UNION {Fields[i] : i \in Instruments} : iReadField(f, v)
  \/ iRunLoop
  \/ iApply
=============================================================================
