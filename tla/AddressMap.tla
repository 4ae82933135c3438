----------------------------- MODULE AddressMap -----------------------------
(***************************************************************************)
(* RegisterAddressMap and RegisterPredictor (register_model.hpp): the bus   *)
(* views of a register model, and the passive predictor that turns the      *)
(* addresses a monitor sees back into registers.                            *)
(*                                                                         *)
(* A function of the code that throws is a set here: {result} when it       *)
(* returns, {} when it throws.  The code's checks against the maximum of    *)
(* uint64_t come before every sum, so sums are exact; the narrower          *)
(* address_type of the master ends at AddressMax.                           *)
(***************************************************************************)
EXTENDS Integers, SequencesExt

CONSTANTS
  Registers, Memories,  \* descriptors
  Maps, MapBase,        \* maps and their base addresses
  Address,              \* descriptor |-> its generated address
  Bytes,                \* register |-> bytes, memory |-> bytes of an element
  TransferBytes,        \* register |-> bytes of one transfer
  Entries,              \* memory |-> elements
  Offsets,              \* offsets route() is called with
  Plain, Custom,        \* no frontdoor object, and one of the user's
  AddressMax            \* the largest address_type

Descriptors == Registers \cup Memories
\* What an instance gives the constants.
AddressAssumption ==
  /\ Registers \cap Memories = {} /\ Plain # Custom /\ AddressMax \in Nat
  /\ Address \in [Descriptors -> Nat] /\ Bytes \in [Descriptors -> Nat \ {0}]
  /\ MapBase \in [Maps -> Nat] /\ Entries \in [Memories -> Nat]
  /\ \A r \in Registers : TransferBytes[r] \in 1..Bytes[r]
                          /\ Bytes[r] % TransferBytes[r] = 0
  /\ Offsets \subseteq Nat

VARIABLES
  routes,     \* map |-> the routes of its descriptors
  entries,    \* the predictor's address table
  predicted,  \* what the last observed transaction did to a handle
  aliases     \* aliases add_alias() has accepted: <<register, address>>
mapVars == <<routes, entries, predicted, aliases>>

RouteType == [offset : Offsets \cup {Address[d] : d \in Descriptors},
              frontdoor : {Plain, Custom}]
Entry(r, a) == [address |-> a, end |-> a + Bytes[r],
                transfer |-> TransferBytes[r], handle |-> r]
NoPrediction == [handle |-> "none"]

-----------------------------------------------------------------------------
(* The maps.  table is the routes_ of map m.                                *)

Offset(table, d) == IF d \in DOMAIN table THEN table[d].offset ELSE Address[d]
EffectiveRegister(m, table, r) ==
  {a \in {MapBase[m] + Offset(table, r)} : a <= AddressMax}
EffectiveElement(m, table, mem, i) ==
  {a \in {MapBase[m] + Offset(table, mem) + i * Bytes[mem]} :
     i < Entries[mem] /\ a <= AddressMax}

With(table, d, o, f) ==
  [x \in DOMAIN table \cup {d} |->
     IF x = d THEN [offset |-> o, frontdoor |-> f] ELSE table[x]]
\* route(): the route is installed, checked, and taken back if it is refused.
RouteRegister(m, r, o, f) ==
  LET table == With(routes[m], r, o, f) IN
  /\ EffectiveRegister(m, table, r) # {}
  /\ routes' = [routes EXCEPT ![m] = table]
  /\ UNCHANGED <<entries, predicted, aliases>>
RouteMemory(m, mem, o, f) ==
  LET table == With(routes[m], mem, o, f) IN
  /\ EffectiveElement(m, table, mem, 0) # {}
  /\ routes' = [routes EXCEPT ![m] = table]
  /\ UNCHANGED <<entries, predicted, aliases>>
Route == \E m \in Maps, o \in Offsets, f \in {Plain, Custom} :
  \/ \E r \in Registers : RouteRegister(m, r, o, f)
  \/ \E mem \in Memories : RouteMemory(m, mem, o, f)
\* frontdoor(): only the procedure changes, the offset stays.
FrontdoorRegister == \E m \in Maps, r \in Registers :
  RouteRegister(m, r, Offset(routes[m], r), Custom)
FrontdoorMemory == \E m \in Maps, mem \in Memories :
  RouteMemory(m, mem, Offset(routes[m], mem), Custom)
Frontdoor == FrontdoorRegister \/ FrontdoorMemory
\* The procedure that carries a transfer of d.
Via(m, d) == IF d \in DOMAIN routes[m] THEN routes[m][d].frontdoor ELSE Plain

-----------------------------------------------------------------------------
(* The predictor                                                            *)

Sorted(s) == SortSeq(s, LAMBDA x, y : x.address < y.address)
Overlapping(s) == \E i \in 2..Len(s) : s[i - 1].end > s[i].address
\* The table the constructor, or add_alias(), ends with: {} when it throws.
SortAndValidate(s) == {t \in {Sorted(s)} : ~Overlapping(t)}
OwnEntries == SetToSeq({Entry(r, Address[r]) : r \in Registers})
MapInit ==
  /\ routes = [m \in Maps |-> [d \in {} |-> Plain]]
  /\ entries \in SortAndValidate(OwnEntries)
  /\ predicted = NoPrediction
  /\ aliases = {}

\* Mutant: the predictor keeps the table a refused alias has spoiled.
AddAliasDirty(r, m) ==
  \E a \in EffectiveRegister(m, routes[m], r) :
    /\ Len(entries) < Cardinality(Registers) + 2
    /\ entries' = Sorted(Append(entries, Entry(r, a)))
    /\ aliases' = aliases \cup {x \in {<<r, a>>} : ~Overlapping(entries')}
    /\ UNCHANGED <<routes, predicted>>
\* add_alias(): no effect when the map or the check refuses it.
AddAlias(r, m) ==
  \E a \in EffectiveRegister(m, routes[m], r) :
    /\ entries' \in SortAndValidate(Append(entries, Entry(r, a)))
    /\ aliases' = aliases \cup {<<r, a>>}
    /\ UNCHANGED <<routes, predicted>>

\* std::lower_bound, and the entry before it: {} is nullptr.
Find(a) ==
  LET past == {i \in 1..Len(entries) : entries[i].address >= a}
      first == IF past = {} THEN Len(entries) + 1 ELSE Min(past)
  IN IF first <= Len(entries) /\ entries[first].address = a THEN {first}
     ELSE {i \in {first - 1} \ {0} :
             /\ a < entries[i].end
             /\ (a - entries[i].address) % entries[i].transfer = 0}

\* write(): a failed transaction, or one that reaches no entry, is counted
\* and changes no handle; another goes to the handle at the handle's address.
\* (The data and the byte enables are in Register and WideRegister.)
Observe(a) ==
  /\ predicted' = IF Find(a) = {} THEN NoPrediction
                  ELSE LET e == entries[CHOOSE i \in Find(a) : TRUE]
                       IN [handle |-> e.handle, seen |-> a,
                           address |-> Address[e.handle] + (a - e.address)]
  /\ UNCHANGED <<routes, entries, aliases>>
ObserveFailed == predicted' = NoPrediction
                 /\ UNCHANGED <<routes, entries, aliases>>

MapNext ==
  \/ Route \/ Frontdoor
  \/ \E r \in Registers, m \in Maps : AddAlias(r, m)
  \/ \E a \in 0..AddressMax : Observe(a)
  \/ ObserveFailed
MapSpec == MapInit /\ [][MapNext]_mapVars

-----------------------------------------------------------------------------

\* The routes and the table are well formed.
MapTypeOK ==
  /\ \A m \in Maps : routes[m] \in [DOMAIN routes[m] -> RouteType]
                     /\ DOMAIN routes[m] \subseteq Descriptors
  /\ \A i \in 1..Len(entries) :
       entries[i] \in {Entry(r, a) : r \in Registers, a \in 0..AddressMax}
  /\ aliases \subseteq Registers \X (0..AddressMax)

\* The binary search finds what a search of the whole table would find: the
\* one entry that has a transfer at the address, for every address.  It
\* depends on the table being sorted and disjoint after every alias, and
\* after every alias that was refused (add_alias, register_model.hpp:4939).
LookupExact ==
  \A a \in 0..AddressMax :
    Find(a) = {i \in 1..Len(entries) :
                 /\ a \in entries[i].address..(entries[i].end - 1)
                 /\ (a - entries[i].address) % entries[i].transfer = 0}

\* An alias that was accepted keeps every transfer of its register, whatever
\* is routed or added, or refused, after it.
AliasesKept ==
  \A x \in aliases, k \in 0..AddressMax :
    k % TransferBytes[x[1]] = 0 /\ k < Bytes[x[1]] =>
      \E i \in Find(x[2] + k) : entries[i].handle = x[1]

\* The address handed to a handle is one of its own transfer addresses:
\* require_transfer_address() never throws inside an analysis callback.
PredictionInside ==
  predicted # NoPrediction =>
    LET r == predicted.handle
        k == predicted.address - Address[r]
    IN k \in 0..(Bytes[r] - 1) /\ k % TransferBytes[r] = 0

\* A map never holds a route it cannot reach: a route that was refused is
\* gone, and the one it replaced is back (route(), register_model.hpp:400).
RoutesReachable ==
  \A m \in Maps, d \in Descriptors :
    d \in DOMAIN routes[m] =>
      IF d \in Registers THEN EffectiveRegister(m, routes[m], d) # {}
      ELSE EffectiveElement(m, routes[m], d, 0) # {}
=============================================================================
