---------------------------- MODULE PdlOnNetwork ----------------------------
(***************************************************************************)
(* The interpreter's program played, operation by operation, through the   *)
(* network register (tap_ir_play.play under the network's instruction),    *)
(* while the interpreter may already be lowering later commands.  Each     *)
(* observed scan is compared with its expectation (pdl_verify.check_reads).*)
(***************************************************************************)
EXTENDS PdlInterpreter, SibNetwork

VARIABLES shift, po, verdict

vars == <<pdlVars, shift, po, verdict>>

Init ==
  /\ PdlInit
  /\ shift = ShiftZero /\ po = PoZero
  /\ verdict = "none"

\* Capture-DR, one shift per bit, Update-DR.
PlayShift ==
  /\ program # <<>> /\ program[1].kind = "shift"
  /\ LET op == program[1]
         result == Scanned([shift |-> shift, po |-> po], op.tdi)
         passed == \A c \in DOMAIN op.expect : result.out[c + 1] = op.expect[c]
     IN  /\ shift' = result.shift
         /\ po' = Update(result.shift, po)
         /\ verdict' = CASE op.access = NoAccess -> verdict
                         [] op.access # NoAccess /\ DOMAIN op.expect = {} -> "none"
                         [] OTHER -> IF passed THEN "pass" ELSE "fail"
  /\ program' = Tail(program)
  /\ UNCHANGED <<scope, pendingWrites, pendingReads, committedWrites, currentlyOpen, edits>>

\* Run-Test/Idle cycles reach no register.
PlayRuntest ==
  /\ program # <<>> /\ program[1].kind = "runtest"
  /\ program' = Tail(program)
  /\ UNCHANGED <<scope, pendingWrites, pendingReads, committedWrites, currentlyOpen,
                 edits, shift, po, verdict>>

Next ==
  \/ Command /\ UNCHANGED <<shift, po, verdict>>
  \/ PlayShift
  \/ PlayRuntest

Spec == Init /\ [][Next]_vars

----------------------------------------------------------------------------
File == INSTANCE InstrumentFile WITH
          content <- [i \in Writes |-> po[i]],
          queue <- Accesses

\* The scans an interpreter emits make the instruments behave as registers:
\* every access is performed in order, a write reaches its own bits of its own
\* instrument and nothing else, a value survives being closed, switched away
\* from and read, and a read is judged on what the instrument held
\* (PDLInterpreter.iApply; InstrumentFile states the promise).
ImplementsInstrumentFile == File!FileSpec

\* With nothing left to play, the slots the interpreter believes open are
\* exactly the ones the network has committed, in closed branches too
\* (PDLInterpreter._currently_open against sib_po and the muxes' po).
TrackedOpenIsPhysical ==
  program = <<>> => \A s \in Slots : po[s] = GetOr(currentlyOpen, s, 0)

\* ... and the values it would fall back on are the ones the instruments hold
\* (_committed_writes against inst_po).
TrackedWritesArePhysical ==
  program = <<>> =>
    \A i \in Writes : po[i] = GetOr(committedWrites, i, 0) % Pow2[Width[i]]

\* Every scan is as long as the chain it is played through, although it was
\* sized when it was lowered (layout_bit_length against _live_layout).
ScanFitsChain ==
  program # <<>> /\ program[1].kind = "shift" =>
    program[1].bits = Len(Layout(po)) /\ Len(program[1].tdi) = program[1].bits
=============================================================================
