-------------------------- MODULE RegisterSequences --------------------------
(***************************************************************************)
(* register_reset_check, register_access_check and register_bit_bash on    *)
(* one register of a device that may have a defect.  Every co_await of a   *)
(* visitor is a transfer of the bus, and between two transfers the device  *)
(* may change its volatile fields.  A value is the set of its one bits; a  *)
(* transfer may fail.  Register models what a handle does in a transfer.   *)
(***************************************************************************)
EXTENDS RegisterBits

CONSTANTS
    Layouts,      \* the register's fields, in every way to be tried
    Phase,        \* (address >> 2) & 1: which of the two patterns comes first
    Errors        \* bound: transfers the bus answers with an error

\* What an instance gives the constants.
SequenceAssumption ==
    /\ Bits \subseteq Nat /\ IsFiniteSet(Bits)
    /\ \A l \in Layouts : LayoutOk(l)
    /\ Phase \in BOOLEAN /\ Errors \in Nat

VARIABLES
    fields,   \* the descriptor's fields
    dev,      \* the register in the device
    defect,   \* a bit that came out of reset wrong, ignores writes or reads inverted
    seq,      \* the visitor: its sequence, where it is suspended, what it keeps
    result,   \* RegisterSequenceResult
    failed,   \* a check of the sequence failed
    bus       \* whether there is a backdoor, transfers made, errors left, the register before, any error

vars == <<fields, dev, defect, seq, result, failed, bus>>

Kinds == {"reset", "access", "bash"}
Zero == [visited |-> 0, tested |-> 0, skipped |-> 0, bits |-> 0,
         reads |-> 0, writes |-> 0, peeks |-> 0, pokes |-> 0]

\* Mutant: a field with a read effect is left out, the others of its register are read.
StableReadMaskFieldwise(l) ==
    IF l = {} THEN Bits
    ELSE BitsOf({f \in l : Readable(f.access) /\ ~f.volatile /\ f.read = "none"})
\* Bits that read back as they are, when reading the register changes none of its fields.
StableReadMask(l) ==
    IF l = {} THEN Bits
    ELSE IF \E f \in l : Readable(f.access) /\ f.read # "none" THEN {}
    ELSE BitsOf({f \in l : Readable(f.access) /\ ~f.volatile})

\* Bits that can be written and read back, when no field has an effect or is written once.
StableReadWriteMask(l) ==
    IF l = {} THEN Bits
    ELSE IF \E f \in l : \/ Writable(f.access) /\ (f.access # "rw" \/ f.write # "none")
                         \/ Readable(f.access) /\ f.read # "none" THEN {}
    ELSE BitsOf({f \in l : f.access = "rw" /\ ~f.volatile})

AlternatingPattern(inverted) == {b \in Bits : ((b % 2 = 1) # Phase) # inverted}

\* Bits of mask on which two values differ.
Differ(left, right, mask) == Flip(left, right) \cap mask # {}

CompareMask == ResetMask \cap StableReadMask(fields)
TestMask == StableReadWriteMask(fields)
Seq(kind, path, at, original, bit) ==
    [kind |-> kind, path |-> path, at |-> at, original |-> original, bit |-> bit]

Volatile == BitsOf({f \in fields : f.volatile})
NoDefect == [kind |-> "none", bit |-> 0]

\* A register after reset; its defect, if any, is in one bit.
Init ==
    /\ fields \in Layouts
    /\ defect \in {NoDefect} \cup [kind : {"reset", "write", "read"}, bit : Bits]
    /\ \E other \in SUBSET (Bits \ ResetMask) :
          dev = Flip(Reset \cup other, IF defect.kind = "reset" THEN {defect.bit} ELSE {})
    /\ seq = Seq("reset", "front", "idle", {}, 0)
    /\ result = Zero
    /\ failed = FALSE
    /\ \E backdoor \in BOOLEAN : bus = [backdoor |-> backdoor, reads |-> 0, writes |-> 0, errors |-> Errors,
                                        before |-> dev, error |-> FALSE]

-----------------------------------------------------------------------------
(* The device *)

ReadableBits == IF fields = {} THEN Bits ELSE BitsOf({f \in fields : Readable(f.access)})
Inverted == IF defect.kind = "read" THEN {defect.bit} ELSE {}
\* What a frontdoor read returns and leaves, and what a frontdoor write leaves.
ReadData == Flip(dev, Inverted) \cap ReadableBits
AfterRead ==
    (dev \ BitsOf({f \in fields : Readable(f.access) /\ f.read = "rclr"}))
    \cup BitsOf({f \in fields : Readable(f.access) /\ f.read = "rset"})
AfterWrite(value) ==
    LET written(f) == ApplyWriteEffect(dev, value, f) \cap f.bits
        next == IF fields = {} THEN value
                ELSE (dev \ WritableMask(fields))
                     \cup UNION {written(f) : f \in {g \in fields : Writable(g.access)}}
        kept == IF defect.kind = "write" THEN {defect.bit} ELSE {} IN
    (next \ kept) \cup (dev \cap kept)

\* A volatile field changes by itself.
Hardware == \E v \in SUBSET Volatile :
    /\ seq.at \notin {"idle", "done", "refused"} /\ v # dev \cap Volatile
    /\ dev' = (dev \ Volatile) \cup v
    /\ UNCHANGED <<fields, defect, seq, result, failed, bus>>

\* A transfer: what the device is left with, and whether it was answered with an error.
ReadTransfer(error) ==
    /\ error => bus.errors > 0
    /\ bus' = [bus EXCEPT !.reads = @ + 1, !.error = @ \/ error,
                          !.errors = IF error THEN @ - 1 ELSE @]
    /\ dev' = IF error THEN dev ELSE AfterRead
WriteTransfer(value, error) ==
    /\ error => bus.errors > 0
    /\ bus' = [bus EXCEPT !.writes = @ + 1, !.error = @ \/ error,
                          !.errors = IF error THEN @ - 1 ELSE @]
    /\ dev' = IF error THEN dev ELSE AfterWrite(value)

-----------------------------------------------------------------------------
(* ResetCheckVisitor *)

Visited == [Zero EXCEPT !.visited = 1]
\* The visitor leaves the register: skipped, refused without a backdoor, or done.
Skip(kind) ==
    /\ seq' = Seq(kind, "front", "done", {}, 0)
    /\ result' = [Visited EXCEPT !.skipped = 1]
    /\ UNCHANGED <<fields, dev, defect, failed, bus>>
Refuse(kind, counted) ==
    /\ seq' = Seq(kind, "back", "refused", {}, 0)
    /\ result' = counted
    /\ UNCHANGED <<fields, dev, defect, failed, bus>>

ResetCheck == \E path \in {"front", "back"} :
    LET tested == [Visited EXCEPT !.tested = 1] IN
    /\ seq.at = "idle"
    /\ IF CompareMask = {} THEN Skip("reset")
       ELSE IF path = "back" /\ ~bus.backdoor THEN Refuse("reset", tested)
       ELSE IF path = "back"
       THEN /\ seq' = Seq("reset", path, "done", {}, 0)
            /\ result' = [tested EXCEPT !.peeks = 1]
            /\ failed' = Differ(dev, Reset, CompareMask)
            /\ UNCHANGED <<fields, dev, defect, bus>>
       ELSE /\ seq' = Seq("reset", path, "read", {}, 0)
            /\ result' = tested
            /\ UNCHANGED <<fields, dev, defect, failed, bus>>
ResetRead == \E error \in BOOLEAN :
    /\ seq.kind = "reset" /\ seq.at = "read"
    /\ ReadTransfer(error)
    /\ result' = [result EXCEPT !.reads = @ + 1]
    /\ failed' = (error \/ Differ(ReadData, Reset, CompareMask))
    /\ seq' = [seq EXCEPT !.at = "done"]
    /\ UNCHANGED <<fields, defect>>

-----------------------------------------------------------------------------
(* AccessCheckVisitor *)

\* Up to the frontdoor read of the deposit, or the first write when nothing can be read back.
AccessCheck ==
    LET tested == [Visited EXCEPT !.tested = 1, !.peeks = 1] IN
    /\ seq.at = "idle"
    /\ IF StableReadMask(fields) \cup TestMask = {} THEN Skip("access")
       ELSE IF ~bus.backdoor THEN Refuse("access", Visited)
       ELSE /\ StableReadMask(fields) # {}
            /\ seq' = Seq("access", "both", "read", dev, 0)
            /\ dev' = AlternatingPattern(FALSE)
            /\ result' = [tested EXCEPT !.pokes = 1]
            /\ UNCHANGED <<fields, defect, failed, bus>>
\* The end of the visit: the original value is deposited.
AccessRestored(value, counted) ==
    /\ dev' = value
    /\ seq' = [seq EXCEPT !.at = "done"]
    /\ result' = [counted EXCEPT !.pokes = @ + 1]
AccessRead == \E error \in BOOLEAN :
    LET counted == [result EXCEPT !.reads = @ + 1] IN
    /\ seq.kind = "access" /\ seq.at = "read"
    /\ failed' = (error \/ Differ(ReadData, AlternatingPattern(FALSE), StableReadMask(fields)))
    /\ error => bus.errors > 0
    /\ bus' = [bus EXCEPT !.reads = @ + 1, !.error = @ \/ error,
                          !.errors = IF error THEN @ - 1 ELSE @]
    /\ IF TestMask = {} THEN AccessRestored(seq.original, counted)
       ELSE /\ dev' = IF error THEN dev ELSE AfterRead
            /\ seq' = [seq EXCEPT !.at = "write"]
            /\ result' = counted
    /\ UNCHANGED <<fields, defect>>
AccessWrite == \E error \in BOOLEAN :
    LET counted == [result EXCEPT !.writes = @ + 1, !.peeks = @ + 1]
        pattern == AlternatingPattern(TRUE)
        actual == IF error THEN dev ELSE AfterWrite(pattern) IN
    /\ seq.kind = "access" /\ seq.at = "write"
    /\ error => bus.errors > 0
    /\ bus' = [bus EXCEPT !.writes = @ + 1, !.error = @ \/ error,
                          !.errors = IF error THEN @ - 1 ELSE @]
    /\ failed' = (failed \/ error \/ Differ(actual, pattern, TestMask))
    /\ AccessRestored(seq.original, counted)
    /\ UNCHANGED <<fields, defect>>

-----------------------------------------------------------------------------
(* BitBashVisitor *)

\* The bits still to be inverted after bit, and the next of them.
Left(bit) == {b \in TestMask : b > bit}
Lowest(bits) == CHOOSE b \in bits : \A c \in bits : b <= c
\* Where the loop goes with these bits left: the next one, or the restoring write.
Turn(left) ==
    IF left = {} THEN [seq EXCEPT !.at = "restore"]
    ELSE [seq EXCEPT !.at = "write", !.bit = Lowest(left)]
\* The original with one bit inverted.
Candidate == Flip(seq.original, {seq.bit})

\* The whole visit through the backdoor, which returns at once.
BashBackdoor ==
    /\ seq' = Seq("bash", "back", "done", dev, 0)
    /\ result' = [Visited EXCEPT !.tested = 1, !.bits = Cardinality(TestMask),
                                 !.peeks = 1 + Cardinality(TestMask),
                                 !.pokes = Cardinality(TestMask) + 1]
    /\ UNCHANGED <<fields, dev, defect, failed, bus>>
BitBash == \E path \in {"front", "back"} :
    /\ seq.at = "idle"
    /\ IF TestMask = {} THEN Skip("bash")
       ELSE IF path = "back" /\ ~bus.backdoor THEN Refuse("bash", Visited)
       ELSE IF path = "back" THEN BashBackdoor
       ELSE /\ seq' = Seq("bash", path, "original", {}, 0)
            /\ result' = Visited
            /\ UNCHANGED <<fields, dev, defect, failed, bus>>
\* A register that cannot be read is left alone.
BashOriginal == \E error \in BOOLEAN :
    /\ seq.kind = "bash" /\ seq.at = "original"
    /\ ReadTransfer(error)
    /\ failed' = error
    /\ result' = [result EXCEPT !.reads = @ + 1, !.tested = IF error THEN 0 ELSE 1]
    /\ seq' = IF error THEN [seq EXCEPT !.at = "done"]
              ELSE [Turn(TestMask) EXCEPT !.original = ReadData]
    /\ UNCHANGED <<fields, defect>>
BashWrite == \E error \in BOOLEAN :
    /\ seq.kind = "bash" /\ seq.at = "write"
    /\ WriteTransfer(Candidate, error)
    /\ failed' = (failed \/ error)
    /\ result' = [result EXCEPT !.writes = @ + 1]
    /\ seq' = IF error THEN Turn(Left(seq.bit)) ELSE [seq EXCEPT !.at = "read"]
    /\ UNCHANGED <<fields, defect>>
BashRead == \E error \in BOOLEAN :
    /\ seq.kind = "bash" /\ seq.at = "read"
    /\ ReadTransfer(error)
    /\ failed' = (failed \/ error \/ Differ(ReadData, Candidate, {seq.bit}))
    /\ result' = [result EXCEPT !.reads = @ + 1, !.bits = IF error THEN @ ELSE @ + 1]
    /\ seq' = Turn(Left(seq.bit))
    /\ UNCHANGED <<fields, defect>>
BashRestore == \E error \in BOOLEAN :
    /\ seq.kind = "bash" /\ seq.at = "restore"
    /\ WriteTransfer(seq.original, error)
    /\ failed' = (failed \/ error)
    /\ result' = [result EXCEPT !.writes = @ + 1]
    /\ seq' = [seq EXCEPT !.at = "done"]
    /\ UNCHANGED <<fields, defect>>

Next ==
    \/ ResetCheck \/ ResetRead
    \/ AccessCheck \/ AccessRead \/ AccessWrite
    \/ BitBash \/ BashOriginal \/ BashWrite \/ BashRead \/ BashRestore
    \/ Hardware

\* The bus answers every transfer.
Spec == Init /\ [][Next]_vars

-----------------------------------------------------------------------------
(* Properties *)

\* The visitor's state and the device's have their types, and no more is kept than one visit needs.
TypeOK ==
    /\ dev \subseteq Bits /\ defect.bit \in Bits \cup {0}
    /\ seq.kind \in Kinds /\ seq.path \in {"front", "back", "both"}
    /\ seq.at \in {"idle", "read", "write", "original", "restore", "done", "refused"}
    /\ seq.original \subseteq Bits
    /\ \A k \in DOMAIN result : result[k] \in 0..(3 + Cardinality(Bits))
    /\ result.bits <= Cardinality(TestMask)

Finished == seq.at = "done" /\ result.tested = 1
\* The defects a sequence is there to find.
Findable ==
    CASE seq.kind = "reset" -> /\ defect.bit \in CompareMask
                               /\ defect.kind \in {"reset"} \cup IF seq.path = "front" THEN {"read"} ELSE {}
      [] seq.kind = "access" -> \/ defect.kind = "read" /\ defect.bit \in StableReadMask(fields)
                                \/ defect.kind = "write" /\ defect.bit \in TestMask
      [] OTHER -> seq.path = "front" /\ defect.bit \in TestMask /\ defect.kind \in {"read", "write"}

\* A sequence of whose transfers none failed reports exactly the registers with a defect in a bit it
\* tests: a wrong reset value, a bit that ignores writes, a bit that reads inverted; never a
\* register that behaves as described, whatever its volatile fields do meanwhile.
DefectsFound == Finished /\ ~bus.error => (failed <=> Findable)

\* A failed transfer is never passed over in silence.
ErrorsReported == bus.error /\ seq.at = "done" => failed

\* After a sequence every field that does not change by itself is as it was, those with effects and
\* those written once included, unless the bus failed and the test was told; a sequence that is
\* refused or skips the register has touched nothing.
Restored ==
    /\ seq.at = "done" /\ defect.kind \in {"none", "reset"}
           => Flip(dev, bus.before) \subseteq Volatile \/ (bus.error /\ failed)
    /\ seq.at = "done" /\ seq.kind = "access" => Flip(dev, bus.before) \subseteq Volatile
    /\ seq.at = "refused" \/ result.skipped = 1 => dev = bus.before /\ bus.reads + bus.writes = 0

\* The counters count the transfers made and the bits compared; a register is tested, skipped, or
\* left because it could not be read, and a test that tested nothing says so.
Counted == seq.at = "done" =>
    /\ result.reads = bus.reads /\ result.writes = bus.writes
    /\ result.tested + result.skipped = 1 \/ (bus.error /\ failed)
    /\ seq.kind = "bash" /\ ~bus.error /\ result.tested = 1 => result.bits = Cardinality(TestMask)
=============================================================================
