---------------------------- MODULE SparseMemory ----------------------------
(***************************************************************************)
(* SparseMemory: regions in a map ordered by base, each holding only the   *)
(* bytes that differ from its fill value; an access with or without a      *)
(* callback; words in the byte order of the region.  It implements         *)
(* FlatMemory.  A MemoryPredictor compares it with what a monitor of the   *)
(* design observes.                                                        *)
(***************************************************************************)
EXTENDS Integers, Sequences, SequencesExt, FiniteSetsExt

CONSTANTS
    Top,          \* the largest address, where the code has the largest 64-bit number
    Bytes,        \* the values of a byte; 0 among them
    Permissions, Orders, Fills,  \* those the regions of an instance have
    MaxRegions,   \* bound: regions
    Observations  \* bound: transactions given to the predictor

\* What an instance gives the constants.
SparseAssumption ==
    /\ Top \in Nat \ {0} /\ 0 \in Bytes
    /\ Permissions \subseteq {"none", "read", "write", "readwrite"}
    /\ Fills \subseteq Bytes
    /\ Orders \subseteq {"little", "big"}

VARIABLES
    regions,    \* regions_: a function on the bases
    callback,   \* a callback is attached
    access,     \* the operation under way, what was decided and what it answers
    predictor   \* reads_ + writes_, mismatches_, and what was really different

vars == <<regions, callback, access, predictor>>

Addresses == 0..Top
Word == 2   \* bytes of a word
None == [op |-> "none"]

Init ==
    /\ regions = [b \in {} |-> 0]
    /\ callback = FALSE
    /\ access = None
    /\ predictor = [seen |-> 0, mismatches |-> 0, wrong |-> 0]

Readable(r) == r.permission \in {"read", "readwrite"}
Writable(r) == r.permission \in {"write", "readwrite"}
End(b) == b + regions[b].size

\* The two neighbours add_region looks at: the first base not below, and the one before it.
Overlaps(base, size) ==
    LET next == {b \in DOMAIN regions : b >= base}
        previous == {b \in DOMAIN regions : b < base} IN
    \/ next # {} /\ Min(next) < base + size
    \/ previous # {} /\ End(Max(previous)) > base

NoRegion == -1

\* find_region: the region with the greatest base not above the address, if it holds all of the range.
FindRegion(a, n) ==
    LET below == {b \in DOMAIN regions : b <= a} IN
    IF n > Top - a \/ below = {} THEN NoRegion
    ELSE IF End(Max(below)) < a + n THEN NoRegion ELSE Max(below)

\* The byte at an offset.
Load(r, offset) == IF offset \in DOMAIN r.bytes THEN r.bytes[offset] ELSE r.fill
LoadRange(b, a, n) == [i \in 1..n |-> Load(regions[b], a - b + i - 1)]

\* store_byte over the enabled bytes of a range: the fill value is stored by erasing.
StoreRange(b, a, data, enable) ==
    LET r == regions[b]
        at(o) == o - (a - b) + 1
        stored(o) == at(o) \in DOMAIN data /\ enable[at(o)]
        kept == {o \in 0..r.size - 1 : IF stored(o) THEN data[at(o)] # r.fill ELSE o \in DOMAIN r.bytes} IN
    [regions EXCEPT ![b].bytes = [o \in kept |-> IF stored(o) THEN data[at(o)] ELSE r.bytes[o]]]

-----------------------------------------------------------------------------
\* add_region; names are left out.
AddRegion == \E base \in Addresses, size \in 0..Top, p \in Permissions, order \in Orders, fill \in Fills :
    LET refused == size = 0 \/ base > Top - size \/ Overlaps(base, size) IN
    /\ refused \/ Cardinality(DOMAIN regions) < MaxRegions
    /\ access' = [op |-> "map", status |-> IF refused THEN "refused" ELSE "okay"]
    /\ regions' = IF refused THEN regions
                  ELSE [b \in DOMAIN regions \cup {base} |->
                           IF b = base THEN [size |-> size, permission |-> p, order |-> order,
                                             fill |-> fill, bytes |-> [o \in {} |-> 0]]
                           ELSE regions[b]]
    /\ UNCHANGED <<callback, predictor>>

\* set_callback
SetCallback ==
    /\ callback' = ~callback
    /\ UNCHANGED <<regions, access, predictor>>

\* What before_access makes of an access: vetoed, or with other data and byte enables.
Before(data, enable) ==
    IF callback
    THEN {[vetoed |-> FALSE, data |-> Reverse(data), enable |-> [i \in DOMAIN data |-> TRUE]],
          [vetoed |-> TRUE, data |-> data, enable |-> enable]}
    ELSE {[vetoed |-> FALSE, data |-> data, enable |-> enable]}

\* Mutant: permissions are for reads.
StatusReads(op, b, vetoed) ==
    IF vetoed THEN "vetoed"
    ELSE IF b = NoRegion THEN "decode"
    ELSE IF op = "read" /\ ~Readable(regions[b]) THEN "slave"
    ELSE "okay"

\* What is decided between the two callbacks.
Status(op, b, vetoed) ==
    IF vetoed THEN "vetoed"
    ELSE IF b = NoRegion THEN "decode"
    ELSE IF (op = "read" /\ ~Readable(regions[b])) \/ (op = "write" /\ ~Writable(regions[b])) THEN "slave"
    ELSE "okay"

\* What after_access makes of the answer when the bytes are loaded or stored: another status, or
\* for a read other data.
After(op, status, data) ==
    [status : IF callback THEN {status, IF status = "okay" THEN "slave" ELSE "okay"} ELSE {status},
     data : IF callback /\ op = "read" THEN {data, Reverse(data)} ELSE {data}]

\* read_without_callback and read_into: the caller's buffer is filled only when the decision is okay.
Read(a, n, word) ==
    LET b == FindRegion(a, n) IN
    \E before \in Before([i \in 1..n |-> 0], [i \in 1..n |-> TRUE]) :
        LET decided == Status("read", b, before.vetoed)
            loaded == IF decided = "okay" THEN LoadRange(b, a, n) ELSE before.data IN
        \E after \in After("read", decided, loaded) :
            /\ access' = [op |-> "read", address |-> a, vetoed |-> before.vetoed, word |-> word, decided |-> decided,
                          loaded |-> loaded, status |-> after.status, data |-> after.data, observed |-> callback]
            /\ UNCHANGED <<regions, callback, predictor>>

\* write_without_callback and write_mutable: a status translated afterwards does not undo the store.
Write(a, data, enable, word) ==
    LET b == FindRegion(a, Len(data)) IN
    \E before \in Before(data, enable) :
        LET decided == Status("write", b, before.vetoed) IN
        \E after \in After("write", decided, before.data) :
            /\ access' = [op |-> "write", address |-> a, vetoed |-> before.vetoed, word |-> word, decided |-> decided,
                          status |-> after.status, data |-> after.data, enable |-> before.enable, observed |-> callback]
            /\ regions' = IF decided = "okay" THEN StoreRange(b, a, before.data, before.enable) ELSE regions
            /\ UNCHANGED <<callback, predictor>>

Payloads == UNION {[1..n -> Bytes] : n \in 1..Word}
ReadBytes == \E a \in Addresses, n \in 1..Word : Read(a, n, <<>>)
WriteBytes == \E a \in Addresses, data \in Payloads : \E enable \in [DOMAIN data -> BOOLEAN] :
    Write(a, data, enable, <<>>)

\* The byte order of a range, little when no region holds it; the bytes of a word in that
\* order, and the word they make; a word is written here least significant byte first.
ByteOrder(a) == LET b == FindRegion(a, Word) IN IF b = NoRegion THEN "little" ELSE regions[b].order
Packed(order, word) == IF order = "little" THEN word ELSE Reverse(word)

Unpacked(order, bytes) == IF order = "little" THEN bytes ELSE Reverse(bytes)

\* write_word: byte-enable bit i selects the lane at address + i whatever the order.
WriteWord == \E a \in Addresses, word \in [1..Word -> Bytes], enable \in [1..Word -> BOOLEAN] :
    Write(a, Packed(ByteOrder(a), word), enable, word)

\* read_word; it unpacks whatever the status.
ReadWord == \E a \in Addresses, word \in [1..Word -> Bytes] :
    /\ Read(a, Word, word)
    /\ word = Unpacked(ByteOrder(a), access'.data)

\* load, load_file and fill: outside of one region they throw and change nothing; no permission.
LoadBytes == \E a \in Addresses, data \in Payloads :
    LET b == FindRegion(a, Len(data)) IN
    /\ access' = [op |-> "load", address |-> a, data |-> data,
                  status |-> IF b = NoRegion THEN "throws" ELSE "okay"]
    /\ regions' = IF b = NoRegion THEN regions
                  ELSE StoreRange(b, a, data, [i \in DOMAIN data |-> TRUE])
    /\ UNCHANGED <<callback, predictor>>

\* inspect and dump_file.
Inspect == \E a \in Addresses, n \in 1..Word :
    LET b == FindRegion(a, n) IN
    /\ access' = [op |-> "inspect", address |-> a,
                  status |-> IF b = NoRegion THEN "throws" ELSE "okay",
                  data |-> IF b = NoRegion THEN [i \in 1..n |-> 0] ELSE LoadRange(b, a, n)]
    /\ UNCHANGED <<regions, callback, predictor>>

-----------------------------------------------------------------------------
(* The memory as one array of cells, and the design, which has the same regions and contents, by     *)
(* what a memory answers.                                                                             *)
Cell(a) ==
    LET holds == {b \in DOMAIN regions : b <= a /\ a < End(b)} IN
    IF holds = {} THEN [region |-> -1, read |-> FALSE, write |-> FALSE, byte |-> 0]
    ELSE LET b == CHOOSE x \in holds : TRUE IN
         [region |-> b, read |-> Readable(regions[b]), write |-> Writable(regions[b]),
          byte |-> Load(regions[b], a - b)]

Flat == INSTANCE FlatMemory WITH cell <- [a \in Addresses |-> Cell(a)]

\* Whether the design answers a word access as the memory would: the status, and for a read the
\* word, zero unless it is okay.
Right(op, a, status, word) ==
    LET decides == Flat!Decides(op, a, Word)
        byte(i) == IF regions[Cell(a).region].order = "little" THEN Cell(a + i - 1).byte
                   ELSE Cell(a + Word - i).byte IN
    /\ status = decides
    /\ op = "read" => \A i \in 1..Word : word[i] = (IF decides = "okay" THEN byte(i) ELSE 0)

(* MemoryPredictor, on a model without a callback.  The design may answer anything.                   *)

\* MemoryPredictor::write compares the whole transaction.
Compares(observed, expected) == observed = expected

Predict == \E a \in Addresses, op \in {"read", "write"}, data \in [1..Word -> Bytes],
              enable \in [1..Word -> BOOLEAN], status \in {"okay", "slave", "decode"} :
    LET b == FindRegion(a, Word)
        mine == Status(op, b, FALSE)
        loaded == IF mine = "okay" THEN LoadRange(b, a, Word) ELSE [i \in 1..Word |-> 0]
        stored == Packed(ByteOrder(a), data)
        expected == [status |-> mine,
                     data |-> IF op = "write" THEN data ELSE Unpacked(ByteOrder(a), loaded)]
        observed == [status |-> status, data |-> data] IN
    /\ ~callback /\ predictor.seen < Observations
    /\ op = "read" => enable = [i \in 1..Word |-> TRUE]
    /\ predictor' = [seen |-> predictor.seen + 1,
                     mismatches |-> predictor.mismatches + (IF Compares(observed, expected) THEN 0 ELSE 1),
                     wrong |-> predictor.wrong + (IF Right(op, a, status, data) THEN 0 ELSE 1)]
    /\ access' = [op |-> op, address |-> a, vetoed |-> FALSE, word |-> <<>>, decided |-> mine, status |-> mine,
                  loaded |-> loaded, data |-> IF op = "write" THEN stored ELSE loaded,
                  enable |-> enable, observed |-> FALSE]
    /\ regions' = IF op = "write" /\ mine = "okay" THEN StoreRange(b, a, stored, enable) ELSE regions
    /\ UNCHANGED callback

\* The caller has its answer.
Return ==
    /\ access # None
    /\ access' = None
    /\ UNCHANGED <<regions, callback, predictor>>

Next ==
    \/ Return
    \/ (access = None /\ (\/ AddRegion \/ SetCallback \/ ReadBytes \/ WriteBytes \/ ReadWord \/ WriteWord
                          \/ LoadBytes \/ Inspect \/ Predict))

Spec == Init /\ [][Next]_vars

-----------------------------------------------------------------------------
(* Properties *)

\* The regions have their types and stay within the addresses.
TypeOK ==
    /\ DOMAIN regions \subseteq Addresses
    /\ \A b \in DOMAIN regions :
           /\ regions[b].size \in 1..Top /\ End(b) <= Top
           /\ DOMAIN regions[b].bytes \subseteq 0..regions[b].size - 1
    /\ predictor.mismatches \in 0..predictor.seen

\* Regions never overlap, whatever the order in which they are added: two comparisons with the
\* neighbours are enough.
Disjoint == \A b, c \in DOMAIN regions : b < c => End(b) <= c

\* Only bytes that differ from the fill value take room.
Sparse == \A b \in DOMAIN regions : \A o \in DOMAIN regions[b].bytes : regions[b].bytes[o] # regions[b].fill

\* The sparse memory is the flat one: every access, by bytes or by words, decides what the array
\* says and changes what the array changes; without a callback the answer is what was decided, and
\* with one, whatever it answers leaves the bytes as the decision left them.
FlatSpec == Flat!Spec

\* A word written whole is the word a read returns next, in either byte order.
WordKept ==
    (/\ access.op = "write" /\ access.decided = "okay" /\ access.word # <<>>
     /\ \A i \in 1..Word : access.enable[i] /\ ~callback)
    => LET a == access.address IN
       Unpacked(ByteOrder(a), LoadRange(FindRegion(a, Word), a, Word)) = access.word

\* The predictor counts a mismatch for each transaction in which the design answered otherwise than
\* a memory would, and for no other, also after some of them.
MismatchesExact == predictor.mismatches = predictor.wrong
=============================================================================
