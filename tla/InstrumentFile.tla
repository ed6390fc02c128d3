--------------------------- MODULE InstrumentFile ---------------------------
(***************************************************************************)
(* What PDL promises, with no scan chain in sight: instruments are         *)
(* registers.  Applied accesses are performed in order.  An access reads   *)
(* what the instrument holds (or senses), compares it with what was        *)
(* expected, then applies its edits; nothing else ever changes a register. *)
(***************************************************************************)
EXTENDS BitArithmetic, Sequences, SequencesExt

CONSTANTS Instruments, Writes, Width, CaptureValue

VARIABLES
  content,  \* WRITE instrument -> its value
  queue,    \* accesses applied and not yet performed
  verdict   \* of the last access performed: none (it read nothing), pass, fail

fileVars == <<content, queue, verdict>>

Edit == [low : Nat, high : Nat, value : Nat]
IsAccess(a) ==
  /\ a.inst \in Instruments
  /\ a.edits \in Seq(Edit)
  /\ a.expects \subseteq Edit

Holds(i) == IF i \in Writes THEN content[i] ELSE CaptureValue[i]

Matches(a) ==
  \A e \in a.expects : \A k \in e.low .. e.high :
    Bit(Holds(a.inst), k) = Bit(e.value, k - e.low)

Edited(value, e) ==
  LET span == Pow2[e.high - e.low + 1]
  IN  ((value \div (Pow2[e.low] * span)) * (Pow2[e.low] * span))
        + ((e.value % span) * Pow2[e.low])
        + (value % Pow2[e.low])

AfterEdits(value, changes) == FoldLeft(Edited, value, changes)

FileInit ==
  /\ content = [i \in Writes |-> 0]
  /\ queue = <<>>
  /\ verdict = "none"

Submit ==
  /\ queue' # <<>>
  /\ queue' = Append(queue, queue'[Len(queue')])
  /\ IsAccess(queue'[Len(queue')])
  /\ UNCHANGED <<content, verdict>>

Perform ==
  /\ queue # <<>>
  /\ queue' = Tail(queue)
  /\ LET a == Head(queue) IN
     /\ verdict' = CASE a.expects = {} -> "none"
                     [] a.expects # {} /\ Matches(a) -> "pass"
                     [] OTHER -> "fail"
     /\ content' = IF a.inst \in Writes
                     THEN [content EXCEPT ![a.inst] = AfterEdits(@, a.edits)]
                     ELSE content

FileNext == Submit \/ Perform

FileSpec == FileInit /\ [][FileNext]_fileVars
=============================================================================
