------------------------------ MODULE MemoryBus ------------------------------
(***************************************************************************)
(* What a register-memory handle works with: the storage, the bus windows   *)
(* through which it is reached, and the access in progress.  RegisterMemory *)
(* and WideRegisterMemory add the two handle classes.                       *)
(*                                                                         *)
(* The storage and the bus are outside the source.  An element is stored in *)
(* pieces of one transfer each; a piece holds 1 after the handle wrote it   *)
(* and 0 otherwise.  The address type of the master wraps at AddressMax.    *)
(***************************************************************************)
EXTENDS Integers, FiniteSets

CONSTANTS
  Entries,       \* descriptor.entries
  ElementBytes,  \* descriptor.width / 8
  Pieces,        \* transfers per element
  Windows,       \* path |-> the address of element 0; Own and the maps
  Own,           \* the handle's own master and address
  Backdoor,      \* AccessPath::Backdoor
  Access,        \* descriptor.access
  AddressMax,    \* the largest address_type
  Slice          \* a window of elements: [first, size]

Maps == DOMAIN Windows \ {Own}
PieceBytes == ElementBytes \div Pieces
\* What an instance gives the constants.
MemoryAssumption ==
  /\ Entries \in Nat \ {0} /\ Pieces \in Nat \ {0} /\ AddressMax \in Nat
  /\ ElementBytes \in Nat \ {0} /\ ElementBytes % Pieces = 0
  /\ Own \in DOMAIN Windows /\ Backdoor \notin DOMAIN Windows
  /\ Windows \in [DOMAIN Windows -> Nat]
  /\ Slice.first + Slice.size <= Entries

VARIABLES
  storage,  \* element |-> piece |-> 0 or 1
  op,       \* the access in progress, or the last one
  stray     \* a transfer reached an address that is not the memory's
vars == <<storage, op, stray>>

Elements == 0..(Entries - 1)
Forms == {"index", "offset", "absolute", "slice"}
Contents == [Elements -> [0..(Pieces - 1) -> {0, 1}]]
OpType == [at : {"idle", "bus", "done", "threw"}, kind : {"read", "write"},
           path : DOMAIN Windows \cup {Backdoor}, form : Forms, coordinate : Nat,
           first : Nat, count : Nat, sent : Nat, transfers : Nat,
           failed : Elements \cup {-1}, out : [Elements -> {-1, 0, 1}],
           was : Contents, calm : BOOLEAN]
\* out is the caller's buffer by element: -1 is what it held before; an
\* element of mixed pieces reads as 0.
Untouched == [i \in Elements |-> -1]
Init ==
  /\ storage \in [Elements -> {[t \in 0..(Pieces - 1) |-> v] : v \in {0, 1}}]
  /\ op = [at |-> "idle", kind |-> "read", path |-> Own, form |-> "index",
           coordinate |-> 0, first |-> 0, count |-> 0, sent |-> 0,
           transfers |-> 0, failed |-> -1, out |-> Untouched,
           was |-> storage, calm |-> TRUE]
  /\ stray = FALSE

\* The element and the piece of the next transfer.
Element == op.first + op.sent \div Pieces
Piece == op.sent % Pieces
Value(i) == IF \A t \in 0..(Pieces - 1) : storage[i][t] = 1 THEN 1 ELSE 0
Filled(n) == {op.first + k : k \in 0..(n - 1)}

\* What answers at address a: an element and one of its pieces.
Decode(a) ==
  {x \in Elements \X (0..(Pieces - 1)) : \E w \in DOMAIN Windows :
     a = Windows[w] + x[1] * ElementBytes + x[2] * PieceBytes}
\* The device stores a transfer; another address is another device's.
BusWrite(a) ==
  /\ stray' = (stray \/ Decode(a) = {})
  /\ storage' = [i \in Elements |-> [t \in 0..(Pieces - 1) |->
                  IF <<i, t>> \in Decode(a) THEN 1 ELSE storage[i][t]]]
BusRead(a) == stray' = (stray \/ Decode(a) = {}) /\ UNCHANGED storage
\* The design, or another master, changes an element meanwhile.
Elsewhere ==
  \E i \in Elements :
    /\ Value(i) = 1 /\ op.at = "bus"
    /\ storage' = [storage EXCEPT ![i] = [t \in 0..(Pieces - 1) |-> 0]]
    /\ op' = [op EXCEPT !.calm = FALSE]
    /\ UNCHANGED stray

-----------------------------------------------------------------------------
(* What every access promises                                               *)

\* The elements a coordinate names: by index, by bytes from the start, by
\* bus address, by index inside the slice (docs/memory-register-models.md).
Named(form, x, n) ==
  {k \in 0..(Entries - n) :
    CASE form = "index" -> k = x
      [] form = "offset" -> k * ElementBytes = x
      [] form = "absolute" -> Windows[Own] + k * ElementBytes = x
      [] form = "slice" -> k = Slice.first + x /\ x + n <= Slice.size}

TypeOK == storage \in Contents /\ op \in OpType /\ stray \in BOOLEAN

\* An access goes to the elements its coordinate names, whole and inside the
\* memory, in each of the four coordinate systems; what is misaligned or
\* outside is refused before anything is transferred.
LandsAsNamed ==
  op.at # "idle" => op.first \in Named(op.form, op.coordinate, op.count)

\* The elements that were carried out whole before an access failed or threw.
Carried ==
  IF op.at = "threw" THEN op.sent \div Pieces
  ELSE IF op.failed = -1 THEN op.count ELSE op.failed - op.first

\* A block access that is left alone stores, or fetches, exactly the elements
\* before the one it reports as failed, or at which it throws; the elements
\* behind it, and the caller's buffer from there on, are as they were.  Pieces
\* of the failed element may be stored, but not of one at which it throws.
PrefixExact ==
  op.at \in {"done", "threw"} /\ op.calm =>
    LET whole == Filled(Carried)
    IN IF op.kind = "write"
       THEN /\ \A i \in whole : Value(i) = 1
            /\ \A i \in Elements \ whole :
                 i # op.failed => storage[i] = op.was[i]
       ELSE /\ storage = op.was
            /\ op.out = [i \in Elements |->
                           IF i \in whole THEN Value(i) ELSE -1]

\* transfers_completed counts the transfers that were accepted, and stops at
\* the failed element (a backdoor access counts elements).
Accounted ==
  op.at = "done" =>
    IF op.path = Backdoor THEN op.transfers = op.count /\ op.failed = -1
    ELSE /\ op.failed = -1 => op.transfers = op.count * Pieces
         /\ op.failed # -1 => op.transfers \div Pieces = op.failed - op.first

\* No transfer leaves the memory: an address that does not fit the frontdoor
\* is refused, and does not reach some other device of the bus.
InsideMemory == ~stray

\* An access of the handle of narrow elements throws before its first transfer
\* or not at all: its exception never hides how much of a block was written.
\* (The wide handle looks up a map's address element by element, and can throw
\* with elements transferred that it then does not report.)
NoThrowMidBlock == op.at = "threw" => op.sent = 0
=============================================================================
