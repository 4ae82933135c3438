----------------------------- MODULE FlatMemory -----------------------------
(***************************************************************************)
(* What an expected memory promises: an array of cells, each unmapped or   *)
(* with a region, its permissions and a byte.  An access is decided as a   *)
(* whole, and has effect only if it is decided okay.                       *)
(***************************************************************************)
EXTENDS Integers, Sequences

CONSTANTS Top, Bytes   \* the addresses are 0..Top

VARIABLES
    cell,    \* the cells
    access   \* the operation under way: what it was asked and what it answers

Addresses == 0..Top
None == [op |-> "none"]
Unmapped == [region |-> -1, read |-> FALSE, write |-> FALSE, byte |-> 0]

Init ==
    /\ cell = [a \in Addresses |-> Unmapped]
    /\ access = None

\* The n bytes from a on are mapped, by one region.
Inside(a, n) == \E r \in Addresses : \A i \in 0..n - 1 : a + i <= Top /\ cell[a + i].region = r

Decides(op, a, n) ==
    IF ~Inside(a, n) THEN "decode"
    ELSE IF (op = "read" /\ ~cell[a].read) \/ (op = "write" /\ ~cell[a].write) THEN "slave" ELSE "okay"

\* A region is mapped only over cells that are all free.
Map == \E a \in Addresses, n \in 1..Top, r, w \in BOOLEAN, fill \in Bytes :
    LET covered == {x \in Addresses : a <= x /\ x < a + n}
        free == a + n <= Top /\ \A x \in covered : cell[x] = Unmapped IN
    /\ access' = [op |-> "map", status |-> IF free THEN "okay" ELSE "refused"]
    /\ cell' = IF free
               THEN [x \in Addresses |->
                        IF x \in covered THEN [region |-> a, read |-> r, write |-> w, byte |-> fill]
                        ELSE cell[x]]
               ELSE cell

\* An access of the bus, which a callback may veto or rewrite before; a write changes the enabled
\* bytes of an access that is decided okay, and nothing else.  The answer is the decision and the
\* bytes of the array, unless a callback observed the access and translated it afterwards.
Bus == \E op \in {"read", "write"}, a \in Addresses :
    LET okay == access'.decided = "okay" IN
    /\ access'.op = op /\ access'.address = a
    /\ access'.decided = IF access'.vetoed THEN "vetoed" ELSE Decides(op, a, Len(access'.data))
    /\ op = "read" /\ okay => \A i \in DOMAIN access'.data : access'.loaded[i] = cell[a + i - 1].byte
    /\ ~access'.observed => /\ access'.status = access'.decided
                            /\ op = "read" => access'.data = access'.loaded
    /\ cell' = [x \in Addresses |->
                   IF op = "write" /\ okay /\ x - a + 1 \in DOMAIN access'.data /\ access'.enable[x - a + 1]
                   THEN [cell[x] EXCEPT !.byte = access'.data[x - a + 1]] ELSE cell[x]]

\* load, fill and inspect are not subject to permissions.
Maintain == \E op \in {"load", "inspect"}, a \in Addresses :
    /\ access'.op = op /\ access'.address = a
    /\ access'.status = IF Inside(a, Len(access'.data)) THEN "okay" ELSE "throws"
    /\ op = "inspect" /\ access'.status = "okay" =>
           \A i \in DOMAIN access'.data : access'.data[i] = cell[a + i - 1].byte
    /\ cell' = [x \in Addresses |->
                   IF op = "load" /\ access'.status = "okay" /\ x - a + 1 \in DOMAIN access'.data
                   THEN [cell[x] EXCEPT !.byte = access'.data[x - a + 1]] ELSE cell[x]]

Return == access' = None /\ UNCHANGED cell

Next == Return \/ (access = None /\ (Map \/ Bus \/ Maintain))

Spec == Init /\ [][Next]_<<cell, access>>
=============================================================================
