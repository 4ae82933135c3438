--------------------------- MODULE RegisterMemory ---------------------------
(***************************************************************************)
(* RegisterMemoryHandle (register_model.hpp): a memory whose elements fit   *)
(* one transfer.  Pieces is 1.                                              *)
(***************************************************************************)
EXTENDS MemoryBus
CONSTANT SplitAccess  \* the descriptor's access_width is not its width
\* What an instance gives the constants.
OnePiece == Pieces = 1 /\ SplitAccess \in BOOLEAN

\* A function that throws is a set here: {} when it throws.
InRange(i, n) ==
  i <= Entries /\ n <= Entries - i /\ (n # 0 => i # Entries)
IndexFromOffset(o, n) ==
  {i \in {o \div ElementBytes} : o % ElementBytes = 0 /\ InRange(i, n)}
IndexFromAbsolute(a, n) ==
  {i \in {(a - Windows[Own]) \div ElementBytes} :
     /\ a >= Windows[Own]
     /\ (a - Windows[Own]) % ElementBytes = 0
     /\ InRange(i, n)}
\* A scalar offset is checked against the slice; a span must be its size.
SliceScalar(x) == {i \in {Slice.first + x} : x < Slice.size}
SliceSpan(n) == {i \in {Slice.first} : n = Slice.size}

ElementAddress(i) == Windows[Own] + i * ElementBytes
FrontdoorAddress(path, i) ==
  IF path = Own THEN {ElementAddress(i)}
  ELSE {a \in {Windows[path] + i * ElementBytes} : a <= AddressMax}
\* The last element must be inside the address type: then all are.
FrontdoorSupported(path) ==
  /\ ~SplitAccess
  /\ \E a \in FrontdoorAddress(path, Entries - 1) : a <= AddressMax

MayRead == Access \in {"ro", "rw", "rw1"}
MayWrite == Access \in {"wo", "rw", "w1", "rw1"}
Started(kind, path, form, x, i, n) ==
  [op EXCEPT !.kind = kind, !.path = path, !.form = form, !.coordinate = x,
     !.first = i, !.count = n, !.sent = 0, !.transfers = 0, !.failed = -1,
     !.out = Untouched, !.was = storage, !.calm = TRUE, !.at = "done"]
\* A read or a write begins: through the handle's own master or a map it
\* becomes a coroutine, an empty span returns at once.
Frontdoor(kind, path, form, x, i, n) ==
  /\ op' = [Started(kind, path, form, x, i, n) EXCEPT
              !.at = IF n = 0 THEN "done"
                     ELSE IF FrontdoorSupported(path) THEN "bus" ELSE "threw"]
  /\ UNCHANGED <<storage, stray>>
\* Semantic access through the backdoor, and peek and poke, are immediate.
Immediate(kind, form, x, i, n) ==
  /\ storage' = [k \in Elements |-> IF kind = "write" /\ k \in i..(i + n - 1)
                                    THEN [t \in 0..0 |-> 1] ELSE storage[k]]
  /\ op' = [Started(kind, Backdoor, form, x, i, n) EXCEPT
              !.transfers = n,
              !.out = [k \in Elements |-> IF kind = "read" /\ k \in i..(i + n - 1)
                                          THEN Value(k) ELSE -1]]
  /\ UNCHANGED stray
Begin(kind, path, form, x, i, n) ==
  /\ op.at # "bus"
  /\ IF path = Backdoor THEN Immediate(kind, form, x, i, n)
     ELSE Frontdoor(kind, path, form, x, i, n)

Counts == 0..Entries
Paths == {Own, Backdoor} \cup Maps
Read == \E x \in 0..Entries, path \in Paths :
  MayRead /\ InRange(x, 1) /\ Begin("read", path, "index", x, x, 1)
Write == \E x \in 0..Entries, path \in Paths :
  MayWrite /\ InRange(x, 1) /\ Begin("write", path, "index", x, x, 1)
ReadInto == \E x \in 0..Entries, n \in Counts, path \in Paths :
  MayRead /\ InRange(x, n) /\ Begin("read", path, "index", x, x, n)
WriteSpan == \E x \in 0..Entries, n \in Counts, path \in Paths :
  MayWrite /\ InRange(x, n) /\ Begin("write", path, "index", x, x, n)
\* The byte coordinates: no map is taken with them.
ByOffset ==
  \E o \in 0..(Entries * ElementBytes), n \in Counts, path \in {Own, Backdoor} :
    \E i \in IndexFromOffset(o, n) :
      \/ MayRead /\ Begin("read", path, "offset", o, i, n)
      \/ MayWrite /\ Begin("write", path, "offset", o, i, n)
ByAbsolute ==
  \E a \in 0..(Windows[Own] + Entries * ElementBytes), n \in Counts,
     path \in {Own, Backdoor} :
    \E i \in IndexFromAbsolute(a, n) :
      \/ MayRead /\ Begin("read", path, "absolute", a, i, n)
      \/ MayWrite /\ Begin("write", path, "absolute", a, i, n)
BySlice ==
  \E x \in 0..Entries, n \in Counts, path \in Paths :
    \E i \in (IF n = 1 THEN SliceScalar(x)
              ELSE {k \in SliceSpan(n) : x = 0}) :
      \/ MayRead /\ Begin("read", path, "slice", x, i, n)
      \/ MayWrite /\ Begin("write", path, "slice", x, i, n)
\* peek and poke ask nobody for access.
PeekPoke == \E x \in 0..Entries, n \in Counts, kind \in {"read", "write"} :
  InRange(x, n) /\ op.at # "bus" /\ Immediate(kind, "index", x, x, n)

Cast(a) == a % (AddressMax + 1)
More == IF op.sent + 1 = op.count THEN "done" ELSE "bus"
\* One pass of the loop of frontdoor_write: the transfer is accepted.
WriteTransfer ==
  /\ op.at = "bus" /\ op.kind = "write"
  /\ \E a \in FrontdoorAddress(op.path, Element) : BusWrite(Cast(a))
  /\ op' = [op EXCEPT !.sent = @ + 1, !.transfers = @ + 1, !.at = More]
\* Mutant: the value is stored before the response is looked at.
ReadTransferEarly ==
  /\ op.at = "bus" /\ op.kind = "read"
  /\ \E a \in FrontdoorAddress(op.path, Element) : BusRead(Cast(a))
  /\ op' = [op EXCEPT !.sent = @ + 1, !.transfers = @ + 1, !.at = More,
              !.out = [i \in Elements |-> IF i \in {Element, Element + 1}
                                          THEN Value(i) ELSE op.out[i]]]
ReadTransfer ==
  /\ op.at = "bus" /\ op.kind = "read"
  /\ \E a \in FrontdoorAddress(op.path, Element) : BusRead(Cast(a))
  /\ op' = [op EXCEPT !.sent = @ + 1, !.transfers = @ + 1, !.at = More,
              !.out[Element] = Value(Element)]
Refused ==
  /\ op.at = "bus"
  /\ op' = IF FrontdoorAddress(op.path, Element) = {}
           THEN [op EXCEPT !.at = "threw"]
           ELSE [op EXCEPT !.failed = Element, !.at = "done"]
  /\ UNCHANGED <<storage, stray>>

Next == Read \/ Write \/ ReadInto \/ WriteSpan \/ ByOffset \/ ByAbsolute
        \/ BySlice \/ PeekPoke \/ WriteTransfer \/ ReadTransfer \/ Refused
        \/ Elsewhere
Spec == Init /\ [][Next]_vars
=============================================================================
