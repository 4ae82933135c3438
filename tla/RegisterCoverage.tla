-------------------------- MODULE RegisterCoverage --------------------------
(***************************************************************************)
(* RegisterAccessCoverage: which registers, fields and memories of a block *)
(* the transactions of a bus have read and written.  A transaction is      *)
(* decoded by a table built once, one action per byte address, or, when    *)
(* the block spans more than TableLimit, by a scan of the map.  The module *)
(* models both, and counts beside them what the map itself says, bit by    *)
(* bit and without masks.                                                  *)
(***************************************************************************)
EXTENDS Integers, Sequences, FiniteSets, SequencesExt

CONSTANTS
    Registers,     \* registers_, by address: address, bytes, bytes of a transfer, big-endian, fields
    Memories,      \* memories_, by address: address, entries, bytes of an element, access
    TableLimit,    \* kActionTableLimit
    WordBits,      \* bits of a word of the bitmap of an IndexSet
    BitmapLimit,   \* kBitmapLimit
    Enables,       \* the byte enables tried
    Steps          \* bound: transactions and samples

End(m) == IF "entries" \in DOMAIN m THEN m.address + m.entries * m.element ELSE m.address + m.bytes
Blocks == {Registers[i] : i \in DOMAIN Registers} \cup {Memories[i] : i \in DOMAIN Memories}

\* What an instance gives the constants.
CoverageAssumption ==
    /\ \A i \in DOMAIN Registers : Registers[i].bytes % Registers[i].access = 0
    /\ \A a, b \in Blocks : a # b => End(a) <= b.address \/ End(b) <= a.address
    /\ WordBits \in Nat \ {0} /\ {TableLimit, BitmapLimit, Steps} \subseteq Nat

VARIABLES
    counts,     \* cells_: accesses of every counter
    indices,    \* the index sets of every memory
    tally,      \* samples_, failed_, unmapped_
    told,       \* what the map says of the transactions so far
    steps

vars == <<counts, indices, tally, told, steps>>

Operations == {"read", "write"}
RegisterCounters == {<<"register", i, 0>> : i \in DOMAIN Registers}
FieldCounters == UNION {{<<"field", i, k>> : k \in DOMAIN Registers[i].fields} : i \in DOMAIN Registers}
MemoryCounters == {<<"memory", m, 0>> : m \in DOMAIN Memories}
Counters == RegisterCounters \cup FieldCounters \cup MemoryCounters
Cells == Counters \X Operations \X {"front", "back"}

\* Counter::readable and writable: a register without fields is both.
Allows(fields, operation) == fields = <<>> \/ \E k \in DOMAIN fields : operation \in fields[k].access
Allowed(counter, operation) ==
    LET i == counter[2] IN
    CASE counter[1] = "register" -> Allows(Registers[i].fields, operation)
      [] counter[1] = "field" -> operation \in Registers[i].fields[counter[3]].access
      [] counter[1] = "memory" -> operation \in Memories[i].access

-----------------------------------------------------------------------------
(* The decode *)

\* The lowest bit of the register that a transfer carries.
BitLsb(r, transfer) ==
    8 * (IF r.big THEN r.bytes - (transfer + 1) * r.access ELSE transfer * r.access)

Least(a, b) == IF a <= b THEN a ELSE b
Most(a, b) == IF a <= b THEN b ELSE a
\* Mutant: the last byte of a field is the one after its last bit.
LanesWide(field, lsb, width) ==
    LET begin == Most(field.lsb, lsb)
        end == Least(field.lsb + field.width, lsb + width) IN
    IF begin >= end THEN {} ELSE ((begin - lsb) \div 8)..((end - lsb) \div 8)
\* field_touched: the byte lanes of a transfer that carry bits of the field.
Lanes(field, lsb, width) ==
    LET begin == Most(field.lsb, lsb)
        end == Least(field.lsb + field.width, lsb + width) IN
    IF begin >= end THEN {} ELSE ((begin - lsb) \div 8)..((end - 1 - lsb) \div 8)

\* The fields of a transfer with their lanes, in the order of the descriptor.
TransferFields(i, transfer) ==
    LET r == Registers[i]
        lanes(k) == Lanes(r.fields[k], BitLsb(r, transfer), 8 * r.access)
        all == [k \in DOMAIN r.fields |-> [counter |-> <<"field", i, k>>, lanes |-> lanes(k)]] IN
    SelectSeq(all, LAMBDA f : f.lanes # {})
Transfers(i) == 0..(Registers[i].bytes \div Registers[i].access - 1)

\* build_action_table: the fields of all transfers one after the other.
Span == IF Blocks = {} THEN 0
        ELSE LET low == CHOOSE a \in {b.address : b \in Blocks} : \A b \in Blocks : a <= b.address
                 high == CHOOSE e \in {End(b) : b \in Blocks} : \A b \in Blocks : e >= End(b) IN high - low
HasTable == Span > 0 /\ Span <= TableLimit
TransfersOf(i) == [n \in 1..Cardinality(Transfers(i)) |-> TransferFields(i, n - 1)]
FieldActions == FlattenSeq(FlattenSeq([i \in DOMAIN Registers |-> TransfersOf(i)]))
\* Where the fields of a transfer begin, kept in 8 bits.
FieldBegin ==
    [i \in DOMAIN Registers |->
        LET before == FlattenSeq(FlattenSeq([j \in 1..(i - 1) |-> TransfersOf(j)])) IN
        [transfer \in Transfers(i) |->
            LET own == FlattenSeq([n \in 1..transfer |-> TransferFields(i, n - 1)]) IN
            (Len(before) + Len(own)) % 256]]
FieldCount == [i \in DOMAIN Registers |->
                 [transfer \in Transfers(i) |-> Len(TransferFields(i, transfer))]]

\* The register transfer that starts at an address, and the memory element that covers it.
TransferAt(address) ==
    {<<i, t>> \in UNION {{<<i, t>> : t \in Transfers(i)} : i \in DOMAIN Registers} :
        Registers[i].address + t * Registers[i].access = address}
ElementAt(address) ==
    {<<m, (address - Memories[m].address) \div Memories[m].element>> :
        m \in {k \in DOMAIN Memories : Memories[k].address <= address /\ address < End(Memories[k])}}

\* The fields a register transaction counts, by the table and by the scan.
Touched(field, operation, enable) == operation = "read" \/ field.lanes \cap enable # {}
TableFields(i, transfer, operation, enable) ==
    LET own == {FieldActions[FieldBegin[i][transfer] + f] : f \in 1..FieldCount[i][transfer]} IN
    {f.counter : f \in {g \in own : Touched(g, operation, enable)}}
ScanFields(i, transfer, operation, enable) ==
    {f.counter : f \in {g \in ToSet(TransferFields(i, transfer)) : Touched(g, operation, enable)}}
RegisterHits(i, transfer, operation, enable) ==
    {<<"register", i, 0>>} \cup IF HasTable THEN TableFields(i, transfer, operation, enable)
                                ELSE ScanFields(i, transfer, operation, enable)

\* sample_counter for every counter that is hit.
Bumped(old, hits, operation, path) ==
    [cell \in DOMAIN old |->
        IF cell[1] \in hits /\ cell[2] = operation /\ cell[3] = path /\ Allowed(cell[1], operation)
        THEN old[cell] + 1 ELSE old[cell]]

\* IndexSet::insert: a bit of a word of the bitmap, or a member of the fallback set.
Inserted(set, m, index) ==
    LET bit == IF Memories[m].entries \in 1..BitmapLimit
               THEN <<index \div WordBits, index % WordBits>> ELSE <<0, index>> IN
    [words |-> set.words \cup {bit},
     unique |-> IF bit \in set.words THEN set.unique ELSE set.unique + 1]
Indexed(m, index, operation) ==
    [indices EXCEPT ![m][operation] = Inserted(@, m, index)]

-----------------------------------------------------------------------------
(* What the map says *)

\* The bits of a register in one byte lane of a transfer, and the fields an access reaches.
LaneBits(r, transfer, lane) ==
    LET low == BitLsb(r, transfer) \div 8 + lane IN (8 * low)..(8 * low + 7)
Reached(i, transfer, operation, enable) ==
    LET r == Registers[i]
        lanes == IF operation = "read" THEN 0..(r.access - 1) ELSE enable \cap 0..(r.access - 1)
        bits == UNION {LaneBits(r, transfer, lane) : lane \in lanes}
        of(k) == r.fields[k].lsb..(r.fields[k].lsb + r.fields[k].width - 1) IN
    {<<"field", i, k>> : k \in {j \in DOMAIN r.fields : of(j) \cap bits # {}}}
\* Adds to what is told the accesses of some counters and some elements.
Tell(hits, elements, operation, path, kind) ==
    told' = [told EXCEPT
        !.counts = [cell \in Cells |->
            IF /\ cell[1] \in hits /\ cell[2] = operation /\ cell[3] = path
               /\ Allowed(cell[1], operation) THEN @[cell] + 1 ELSE @[cell]],
        !.elements[operation] = @ \cup elements,
        ![kind] = @ + 1]

Init ==
    /\ counts = [cell \in Cells |-> 0]
    /\ indices = [m \in DOMAIN Memories |-> [o \in Operations |-> [words |-> {}, unique |-> 0]]]
    /\ tally = [samples |-> 0, failed |-> 0, unmapped |-> 0]
    /\ told = [counts |-> [cell \in Cells |-> 0], elements |-> [o \in Operations |-> {}],
               samples |-> 0, failed |-> 0, unmapped |-> 0]
    /\ steps = 0

Addresses == 0..(Most(Span, 1) + 1)
Operation == steps < Steps /\ steps' = steps + 1

\* A completed transaction with an error status.
ObserveFailed ==
    /\ Operation
    /\ tally' = [tally EXCEPT !.failed = @ + 1]
    /\ Tell({}, {}, "read", "front", "failed")
    /\ UNCHANGED <<counts, indices>>
\* A completed transaction that starts a transfer of a register.
ObserveRegister ==
    \E address \in Addresses, operation \in Operations, enable \in Enables :
        /\ Operation
        /\ \E at \in TransferAt(address) :
              /\ counts' = Bumped(counts, RegisterHits(at[1], at[2], operation, enable),
                                  operation, "front")
              /\ Tell({<<"register", at[1], 0>>} \cup Reached(at[1], at[2], operation, enable), {},
                      operation, "front", "samples")
        /\ tally' = [tally EXCEPT !.samples = @ + 1]
        /\ UNCHANGED indices
\* One that falls into a memory, at any byte of an element.
ObserveMemory ==
    \E address \in Addresses, operation \in Operations :
        /\ Operation
        /\ \E at \in ElementAt(address) :
              /\ counts' = Bumped(counts, {<<"memory", at[1], 0>>}, operation, "front")
              /\ indices' = Indexed(at[1], at[2], operation)
              /\ Tell({<<"memory", at[1], 0>>}, {at}, operation, "front", "samples")
        /\ tally' = [tally EXCEPT !.samples = @ + 1]
\* One between the registers, or inside a register but not at the start of a transfer.
ObserveUnmapped ==
    \E address \in Addresses :
        /\ Operation
        /\ TransferAt(address) = {} /\ ElementAt(address) = {}
        /\ tally' = [tally EXCEPT !.unmapped = @ + 1]
        /\ Tell({}, {}, "read", "front", "unmapped")
        /\ UNCHANGED <<counts, indices>>

\* sample_register counts the register and all its fields, sample_field one field.
SampleRegister == \E i \in DOMAIN Registers, operation \in Operations :
    LET hits == {<<"register", i, 0>>} \cup {<<"field", i, k>> : k \in DOMAIN Registers[i].fields} IN
    /\ Operation
    /\ counts' = Bumped(counts, hits, operation, "back")
    /\ tally' = [tally EXCEPT !.samples = @ + 1]
    /\ Tell(hits, {}, operation, "back", "samples")
    /\ UNCHANGED indices
SampleField == \E field \in FieldCounters, operation \in Operations :
    /\ Operation
    /\ counts' = Bumped(counts, {field}, operation, "back")
    /\ tally' = [tally EXCEPT !.samples = @ + 1]
    /\ Tell({field}, {}, operation, "back", "samples")
    /\ UNCHANGED indices
\* sample_memory refuses an index out of range before it counts anything.
SampleMemory == \E m \in DOMAIN Memories, operation \in Operations :
    \E index \in 0..(Memories[m].entries - 1) :
        /\ Operation
        /\ counts' = Bumped(counts, {<<"memory", m, 0>>}, operation, "back")
        /\ indices' = Indexed(m, index, operation)
        /\ tally' = [tally EXCEPT !.samples = @ + 1]
        /\ Tell({<<"memory", m, 0>>}, {<<m, index>>}, operation, "back", "samples")

Next ==
    \/ ObserveFailed \/ ObserveRegister \/ ObserveMemory \/ ObserveUnmapped
    \/ SampleRegister \/ SampleField \/ SampleMemory
Spec == Init /\ [][Next]_vars

-----------------------------------------------------------------------------
(* Properties *)

\* The counters, the index sets and the tallies have their types, and no access counts twice.
TypeOK ==
    /\ counts \in [Cells -> 0..steps]
    /\ \A m \in DOMAIN Memories, o \in Operations :
          indices[m][o].unique \in 0..Memories[m].entries
    /\ tally \in [{"samples", "failed", "unmapped"} -> 0..steps]

\* Every counter has the accesses that reach a bit of what it counts, through either decode: the
\* register of the transfer, and a field exactly if the transfer reads it or an enabled byte of the
\* write carries one of its bits.  Every transaction is counted as a sample, failed or unmapped.
CountsExact ==
    /\ counts = told.counts
    /\ \A kind \in DOMAIN tally : tally[kind] = told[kind]

\* unique_read_indices and unique_written_indices are the numbers of elements that were accessed,
\* whichever byte of them and by whichever path, in the bitmap and in the fallback set alike.
IndicesExact == \A m \in DOMAIN Memories, o \in Operations :
    indices[m][o].unique = Cardinality({e \in told.elements[o] : e[1] = m})
=============================================================================
