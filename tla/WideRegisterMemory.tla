------------------------- MODULE WideRegisterMemory -------------------------
(***************************************************************************)
(* WideRegisterMemoryHandle (register_model.hpp): an element of more than   *)
(* 64 bits takes several transfers of access_width bits.                    *)
(***************************************************************************)
EXTENDS MemoryBus
\* What an instance gives the constants.
SeveralPieces == Pieces > 1

InRange(i, n) ==
  i <= Entries /\ n <= Entries - i /\ (n # 0 => i # Entries)
IndexFromOffset(o, n) ==
  {i \in {o \div ElementBytes} : o % ElementBytes = 0 /\ InRange(i, n)}
IndexFromAbsolute(a, n) ==
  {i \in {(a - Windows[Own]) \div ElementBytes} :
     /\ a >= Windows[Own] /\ (a - Windows[Own]) % ElementBytes = 0
     /\ InRange(i, n)}
SliceScalar(x) == {i \in {Slice.first + x} : x < Slice.size}
SliceSpan(n) == {i \in {Slice.first} : n = Slice.size}
ElementAddress(i) == Windows[Own] + i * ElementBytes
FrontdoorAddress(path, i) ==
  IF path = Own THEN {ElementAddress(i)}
  ELSE {a \in {Windows[path] + i * ElementBytes} : a <= AddressMax}
\* The bus address of a piece, as address_type keeps it: a map has checked
\* where the element starts, and nothing checks the pieces behind it, or an
\* element reached without a map.
PieceAddress(path, i, t) ==
  {(a + t * PieceBytes) % (AddressMax + 1) : a \in FrontdoorAddress(path, i)}
MayRead == Access \in {"ro", "rw", "rw1"}
MayWrite == Access \in {"wo", "rw", "w1", "rw1"}
Started(kind, path, form, x, i, n) ==
  [op EXCEPT !.kind = kind, !.path = path, !.form = form, !.coordinate = x,
     !.first = i, !.count = n, !.sent = 0, !.transfers = 0, !.failed = -1,
     !.out = Untouched, !.was = storage, !.calm = TRUE, !.at = "done"]
Frontdoor(kind, path, form, x, i, n) ==
  /\ op' = [Started(kind, path, form, x, i, n) EXCEPT
              !.at = IF n = 0 THEN "done" ELSE "bus"]
  /\ UNCHANGED <<storage, stray>>
\* All the words of the elements cross at once.
Immediate(kind, form, x, i, n) ==
  /\ storage' = [k \in Elements |-> IF kind = "write" /\ k \in i..(i + n - 1)
                                    THEN [t \in 0..(Pieces - 1) |-> 1]
                                    ELSE storage[k]]
  /\ op' = [Started(kind, Backdoor, form, x, i, n) EXCEPT
              !.transfers = n,
              !.out = [k \in Elements |-> IF kind = "read" /\ k \in i..(i + n - 1)
                                          THEN Value(k) ELSE -1]]
  /\ UNCHANGED stray
Begin(kind, path, form, x, i, n) ==
  /\ op.at # "bus"
  /\ IF path = Backdoor THEN Immediate(kind, form, x, i, n)
     ELSE Frontdoor(kind, path, form, x, i, n)

Counts == 0..Entries
Paths == {Own, Backdoor} \cup Maps
Read == \E x \in 0..Entries, path \in Paths :
  MayRead /\ InRange(x, 1) /\ Begin("read", path, "index", x, x, 1)
Write == \E x \in 0..Entries, path \in Paths :
  MayWrite /\ InRange(x, 1) /\ Begin("write", path, "index", x, x, 1)
ReadInto == \E x \in 0..Entries, n \in Counts, path \in Paths :
  MayRead /\ InRange(x, n) /\ Begin("read", path, "index", x, x, n)
WriteSpan == \E x \in 0..Entries, n \in Counts, path \in Paths :
  MayWrite /\ InRange(x, n) /\ Begin("write", path, "index", x, x, n)
ByCoordinate ==
  \E x \in 0..(Windows[Own] + Entries * ElementBytes), n \in Counts,
     path \in {Own, Backdoor}, kind \in {"read", "write"} :
    /\ IF kind = "read" THEN MayRead ELSE MayWrite
    /\ \/ \E i \in IndexFromOffset(x, n) : Begin(kind, path, "offset", x, i, n)
       \/ \E i \in IndexFromAbsolute(x, n) : Begin(kind, path, "absolute", x, i, n)
BySlice ==
  \E x \in 0..Entries, n \in Counts, path \in Paths, kind \in {"read", "write"} :
    /\ IF kind = "read" THEN MayRead ELSE MayWrite
    /\ \E i \in (IF n = 1 THEN SliceScalar(x)
                 ELSE {k \in SliceSpan(n) : x = 0}) :
         Begin(kind, path, "slice", x, i, n)
PeekPoke == \E x \in 0..Entries, n \in Counts, kind \in {"read", "write"} :
  InRange(x, n) /\ op.at # "bus" /\ Immediate(kind, "index", x, x, n)

Sent == op.sent + 1
More == IF Sent = op.count * Pieces THEN "done" ELSE "bus"
\* One pass of the inner loop of frontdoor_write.
WriteTransfer ==
  /\ op.at = "bus" /\ op.kind = "write"
  /\ \E a \in PieceAddress(op.path, Element, Piece) : BusWrite(a)
  /\ op' = [op EXCEPT !.sent = Sent, !.transfers = @ + 1, !.at = More]
\* The pieces of an element are put together first; the caller's buffer gets
\* the element after its last piece.  (Torn data cannot be told from whole
\* data here: an element is changed under a read only when it is not calm.)
ReadTransfer ==
  /\ op.at = "bus" /\ op.kind = "read"
  /\ \E a \in PieceAddress(op.path, Element, Piece) : BusRead(a)
  /\ op' = [op EXCEPT !.sent = Sent, !.transfers = @ + 1, !.at = More,
              !.out[Element] = IF Piece = Pieces - 1 THEN Value(Element) ELSE @]
Refused ==
  /\ op.at = "bus" /\ FrontdoorAddress(op.path, Element) # {}
  /\ op' = [op EXCEPT !.failed = Element, !.at = "done"]
  /\ UNCHANGED <<storage, stray>>
\* The map has no address for the element: the exception leaves the loop,
\* and what was transferred is not reported.
Throws ==
  /\ op.at = "bus" /\ FrontdoorAddress(op.path, Element) = {}
  /\ op' = [op EXCEPT !.at = "threw"]
  /\ UNCHANGED <<storage, stray>>

Next == Read \/ Write \/ ReadInto \/ WriteSpan \/ ByCoordinate \/ BySlice
        \/ PeekPoke \/ WriteTransfer \/ ReadTransfer \/ Refused \/ Throws
        \/ Elsewhere
Spec == Init /\ [][Next]_vars
=============================================================================
