----------------------------- MODULE QueueProofs -----------------------------
(***************************************************************************)
(* Queue.tla keeps its inductive invariant for every finite set of         *)
(* coroutines and every capacity, whoever is cancelled: a reservation is   *)
(* backed by an item or a slot, and neither of the queue's checks fires.   *)
(*                                                                         *)
(* Consumers and producers wait on two sides of the queue that obey the    *)
(* same rules: the first part of this module is about one side, a list     *)
(* with its reservations, the second about the member functions, which     *)
(* work on one side or on both.                                            *)
(***************************************************************************)
EXTENDS Queue, CoroutineProofs

QueueFields ==
  [gets : ListsOver(Coros), greserved : SUBSET Coros,
   puts : ListsOver(Coros), preserved : SUBSET Coros,
   items : 0..ItemBound, ritems : Nat, rslots : Nat]

\* The type of the fields in the form the proofs use.
LEMMA FieldsType ==
  (\E G, P \in SUBSET Coros : q \in QueueType(G, P)) <=> q \in QueueFields
<1>1. ASSUME NEW G \in SUBSET Coros, NEW P \in SUBSET Coros, q \in QueueType(G, P)
      PROVE  q \in QueueFields
  <2>1. /\ [G -> SUBSET Coros] \subseteq ListsOver(Coros)
        /\ [P -> SUBSET Coros] \subseteq ListsOver(Coros)
    BY DEF ListsOver
  <2> QED
    BY <1>1, <2>1 DEF QueueType, QueueFields
<1>2. ASSUME q \in QueueFields
      PROVE  \E G, P \in SUBSET Coros : q \in QueueType(G, P)
  <2>1. PICK G \in SUBSET Coros : q.gets \in [G -> SUBSET Coros]
    BY <1>2 DEF QueueFields, ListsOver
  <2>2. PICK P \in SUBSET Coros : q.puts \in [P -> SUBSET Coros]
    BY <1>2 DEF QueueFields, ListsOver
  <2>3. q \in QueueType(G, P)
    BY <1>2, <2>1, <2>2 DEF QueueFields, QueueType
  <2> QED
    BY <2>3
<1> QED
  BY <1>1, <1>2

-----------------------------------------------------------------------------
(* One side: a list w and the set r of its waiters with a reservation.     *)

IsSide(w, r) == w \in ListsOver(Coros) /\ r \in SUBSET Coros /\ Listed(w, r)

\* The waiters a member function may wake.
Open(w, r) == {c \in Waiters(w) \ r : status[c] = "parked"}

\* The side becomes (w2, r2) by steps of member functions: the list only shrinks,
\* a new reservation is for a parked waiter behind reserved ones, and a live
\* waiter keeps its reservation, unless it is in S.
Follows(w1, r1, w2, r2, S) ==
  /\ Waiters(w2) \subseteq Waiters(w1)
  /\ \A c \in Waiters(w2) : w2[c] \subseteq w1[c]
  /\ \A c \in r2 \ r1 :
       /\ c \in Waiters(w2) /\ status[c] = "parked"
       /\ \A d \in w2[c] : status[d] = "parked" => d \in r2
  /\ \A c \in r1 \ S : Live(c) => c \in r2
  /\ \A c \in Waiters(w1) \ S : Live(c) => c \in Waiters(w2)

LEMMA SideFacts ==
  ASSUME NEW w, NEW r, IsSide(w, r)
  PROVE  /\ Waiters(w) \subseteq Coros
         /\ IsFiniteSet(r)
         /\ Cardinality(r) \in Nat
         /\ Open(w, r) \in SUBSET Waiters(w)
         /\ IsFiniteSet(Open(w, r))
         /\ Follows(w, r, w, r, {})
<1>1. Waiters(w) \subseteq Coros
  BY ListType DEF IsSide
<1>2. IsFiniteSet(r) /\ Cardinality(r) \in Nat
  BY CorosAssumption, FS_Subset, FS_CardinalityType DEF IsSide
<1>3. Open(w, r) \in SUBSET Waiters(w)
  BY DEF Open
<1>4. IsFiniteSet(Open(w, r))
  BY <1>1, <1>3, CorosAssumption, FS_Subset
<1>5. Follows(w, r, w, r, {})
  BY DEF Follows
<1> QED
  BY <1>1, <1>2, <1>3, <1>4, <1>5

\* Steps in sequence.
LEMMA FollowsTransitive ==
  ASSUME NEW w1, NEW r1, NEW w2, NEW r2, NEW w3, NEW r3, NEW S,
         Follows(w1, r1, w2, r2, S), Follows(w2, r2, w3, r3, {}),
         IsSide(w2, r2), IsSide(w3, r3)
  PROVE  Follows(w1, r1, w3, r3, S)
<1>1. \A c : status[c] = "parked" => Live(c)
  BY DEF Live
<1>2. r2 \subseteq Waiters(w2) /\ r3 \subseteq Waiters(w3)
  BY DEF IsSide, Listed
<1>3. /\ Waiters(w3) \subseteq Waiters(w1)
      /\ \A c \in Waiters(w3) : w3[c] \subseteq w1[c]
      /\ \A c \in r1 \ S : Live(c) => c \in r3
      /\ \A c \in Waiters(w1) \ S : Live(c) => c \in Waiters(w3)
  BY DEF Follows
<1>4. ASSUME NEW c \in r3 \ r1
      PROVE  /\ c \in Waiters(w3) /\ status[c] = "parked"
             /\ \A d \in w3[c] : status[d] = "parked" => d \in r3
  <2>1. CASE c \in r2
    BY <1>1, <1>2, <1>4, <2>1 DEF Follows
  <2>2. CASE c \notin r2
    BY <1>4, <2>2 DEF Follows
  <2> QED
    BY <2>1, <2>2
<1> QED
  BY <1>3, <1>4 DEF Follows

\* Waiters that are not parked are erased, with their reservations.
LEMMA EraseSide ==
  ASSUME NEW w, NEW r, IsSide(w, r), NEW S,
         \A c \in S : c \in Coros => status[c] # "parked"
  PROVE  /\ IsSide(EraseAll(w, S), r \ S)
         /\ Waiters(EraseAll(w, S)) = Waiters(w) \ S
         /\ Follows(w, r, EraseAll(w, S), r \ S, S)
<1>1. /\ EraseAll(w, S) \in ListsOver(Coros)
      /\ Waiters(EraseAll(w, S)) = Waiters(w) \ S
      /\ IsWaitList(EraseAll(w, S))
  BY ListType, ListOrder DEF IsSide, Listed
<1>2. \A c \in Waiters(w) \ S : EraseAll(w, S)[c] = w[c] \ S
  BY DEF EraseAll, Waiters
<1>3. IsSide(EraseAll(w, S), r \ S)
  BY <1>1 DEF IsSide, Listed
<1>4. Follows(w, r, EraseAll(w, S), r \ S, S)
  BY <1>1, <1>2 DEF Follows
<1> QED
  BY <1>1, <1>3, <1>4

LEMMA EraseCount ==
  ASSUME NEW w, NEW r, IsSide(w, r), NEW S
  PROVE  /\ Cardinality(r \cap S) \in Nat
         /\ Cardinality(r \ S) = Cardinality(r) - Cardinality(r \cap S)
<1>1. IsFiniteSet(r)
  BY SideFacts
<1> QED
  BY <1>1, FS_Difference, FS_Intersection, FS_CardinalityType

\* When the erased waiters are dead, no live waiter is affected.
LEMMA EraseDead ==
  ASSUME NEW w, NEW r, IsSide(w, r)
  PROVE  LET S == {c \in Waiters(w) : ~Live(c)}
         IN  /\ IsSide(EraseAll(w, S), r \ S)
             /\ Follows(w, r, EraseAll(w, S), r \ S, {})
<1>1. SUFFICES ASSUME NEW S, S = {c \in Waiters(w) : ~Live(c)}
               PROVE  /\ IsSide(EraseAll(w, S), r \ S)
                      /\ Follows(w, r, EraseAll(w, S), r \ S, {})
  OBVIOUS
<1>2. \A c \in S : c \in Coros => status[c] # "parked"
  BY <1>1 DEF Live
<1>3. /\ IsSide(EraseAll(w, S), r \ S)
      /\ Follows(w, r, EraseAll(w, S), r \ S, S)
  BY <1>2, EraseSide
<1>4. Follows(w, r, EraseAll(w, S), r \ S, {})
  BY <1>1, <1>3 DEF Follows
<1> QED
  BY <1>3, <1>4

\* Parked waiters are reserved, the older ones first.
LEMMA ReserveSide ==
  ASSUME NEW w, NEW r, IsSide(w, r), NEW lucky \in SUBSET Open(w, r),
         \A c \in lucky : \A d \in w[c] \cap Open(w, r) : d \in lucky
  PROVE  /\ IsSide(w, r \cup lucky)
         /\ Follows(w, r, w, r \cup lucky, {})
<1>1. /\ Waiters(w) \subseteq Coros
      /\ lucky \subseteq Waiters(w)
      /\ \A c \in lucky : status[c] = "parked"
  BY SideFacts DEF Open
<1>2. IsSide(w, r \cup lucky)
  BY <1>1 DEF IsSide, Listed
<1>3. \A c \in lucky : \A d \in w[c] : d \in Waiters(w)
  BY <1>1 DEF IsSide, Listed, IsWaitList, Waiters
<1>4. Follows(w, r, w, r \cup lucky, {})
  BY <1>1, <1>3 DEF Follows, Open
<1> QED
  BY <1>2, <1>4

LEMMA ReserveCount ==
  ASSUME NEW w, NEW r, IsSide(w, r), NEW lucky \in SUBSET Open(w, r)
  PROVE  /\ Cardinality(lucky) \in Nat
         /\ Cardinality(r \cup lucky) = Cardinality(r) + Cardinality(lucky)
<1>1. IsFiniteSet(r) /\ IsFiniteSet(lucky)
  BY SideFacts, FS_Subset
<1>2. Cardinality(r) \in Nat /\ Cardinality(lucky) \in Nat
  BY <1>1, FS_CardinalityType
<1>3. Cardinality(r \cup lucky)
        = Cardinality(r) + Cardinality(lucky) - Cardinality(r \cap lucky)
  BY <1>1, FS_Union
<1>4. r \cap lucky = {}
  BY DEF Open
<1>5. Cardinality(r \cap lucky) = 0
  BY <1>4, FS_EmptySet
<1> QED
  BY <1>2, <1>3, <1>5

\* FirstOf chooses such waiters, and serves all that it can.
LEMMA FirstOpen ==
  ASSUME NEW w, NEW r, IsSide(w, r), NEW n \in Nat
  PROVE  LET lucky == FirstOf(w, Open(w, r), n)
         IN  /\ lucky \in SUBSET Open(w, r)
             /\ \A c \in lucky : \A d \in w[c] \cap Open(w, r) : d \in lucky
             /\ Cardinality(lucky) \in 0..n
             /\ Cardinality(lucky) < n => lucky = Open(w, r)
<1>1. IsWaitList(w)
  BY DEF IsSide, Listed
<1>2. Open(w, r) \in SUBSET DOMAIN w /\ IsFiniteSet(Open(w, r))
  BY SideFacts DEF Waiters
<1> QED
  BY <1>1, <1>2, FirstMembers

-----------------------------------------------------------------------------
(* The member functions.                                                   *)

QueueFollows(Q1, Q2, S) ==
  /\ Follows(Q1.gets, Q1.greserved, Q2.gets, Q2.greserved, S)
  /\ Follows(Q1.puts, Q1.preserved, Q2.puts, Q2.preserved, S)

LEMMA SidesOf ==
  ASSUME NEW Q \in QueueFields, Consistent(Q)
  PROVE  /\ IsSide(Q.gets, Q.greserved)
         /\ IsSide(Q.puts, Q.preserved)
         /\ QueueFollows(Q, Q, {})
<1>1. IsSide(Q.gets, Q.greserved) /\ IsSide(Q.puts, Q.preserved)
  BY DEF QueueFields, Consistent, IsSide
<1> QED
  BY <1>1, SideFacts DEF QueueFollows

\* What a member function leaves is consistent when both sides follow and the
\* counts are right.
LEMMA FollowerConsistent ==
  ASSUME NEW Q \in QueueFields, Consistent(Q), NEW R \in QueueFields, NEW S,
         QueueFollows(Q, R, S), \A c \in S : status[c] # "parked",
         IsSide(R.gets, R.greserved), IsSide(R.puts, R.preserved), Counted(R)
  PROVE  Consistent(R)
<1>1. /\ Waiters(R.gets) \subseteq Waiters(Q.gets)
      /\ Waiters(R.puts) \subseteq Waiters(Q.puts)
  BY DEF QueueFollows, Follows
<1>2. ASSUME NEW c \in Coros, status[c] = "parked"
      PROVE  c \in Waiters(R.gets) \cup Waiters(R.puts)
  <2>1. Live(c) /\ c \notin S
    BY <1>2 DEF Live
  <2>2. c \in Waiters(Q.gets) \cup Waiters(Q.puts)
    BY <1>2 DEF Consistent
  <2> QED
    BY <2>1, <2>2 DEF QueueFollows, Follows
<1> QED
  BY <1>1, <1>2 DEF Consistent, IsSide

LEMMA QueueFollowsTransitive ==
  ASSUME NEW Q1, NEW Q2 \in QueueFields, NEW Q3 \in QueueFields, NEW S,
         Consistent(Q2), Consistent(Q3),
         QueueFollows(Q1, Q2, S), QueueFollows(Q2, Q3, {})
  PROVE  QueueFollows(Q1, Q3, S)
  BY SidesOf, FollowsTransitive DEF QueueFollows

\* The fields after an erase, whatever is erased.
LEMMA EraseGetsFields ==
  ASSUME NEW Q \in QueueFields, NEW S,
         EraseAll(Q.gets, S) \in ListsOver(Coros),
         Q.ritems - Cardinality(Q.greserved \cap S) \in Nat
  PROVE  LET E == EraseGets(Q, S)
         IN  /\ E \in QueueFields
             /\ E.gets = EraseAll(Q.gets, S)
             /\ E.greserved = Q.greserved \ S
             /\ E.ritems = Q.ritems - Cardinality(Q.greserved \cap S)
             /\ E.puts = Q.puts /\ E.preserved = Q.preserved
             /\ E.items = Q.items /\ E.rslots = Q.rslots
<1> DEFINE w == EraseAll(Q.gets, S)
           r == Q.greserved \ S
           n == Q.ritems - Cardinality(Q.greserved \cap S)
<1>1. w \in ListsOver(Coros) /\ r \in SUBSET Coros /\ n \in Nat
  BY DEF QueueFields
<1>2. EraseGets(Q, S) = [Q EXCEPT !.gets = w, !.greserved = r, !.ritems = n]
  BY DEF EraseGets
<1> HIDE DEF w, r, n
<1>3. /\ EraseGets(Q, S) \in QueueFields
      /\ EraseGets(Q, S).gets = w
      /\ EraseGets(Q, S).greserved = r
      /\ EraseGets(Q, S).ritems = n
      /\ EraseGets(Q, S).puts = Q.puts
      /\ EraseGets(Q, S).preserved = Q.preserved
      /\ EraseGets(Q, S).items = Q.items
      /\ EraseGets(Q, S).rslots = Q.rslots
  BY <1>1, <1>2 DEF QueueFields
<1> QED
  BY <1>3 DEF w, r, n

LEMMA ErasePutsFields ==
  ASSUME NEW Q \in QueueFields, NEW S,
         EraseAll(Q.puts, S) \in ListsOver(Coros),
         Q.rslots - Cardinality(Q.preserved \cap S) \in Nat
  PROVE  LET E == ErasePuts(Q, S)
         IN  /\ E \in QueueFields
             /\ E.puts = EraseAll(Q.puts, S)
             /\ E.preserved = Q.preserved \ S
             /\ E.rslots = Q.rslots - Cardinality(Q.preserved \cap S)
             /\ E.gets = Q.gets /\ E.greserved = Q.greserved
             /\ E.items = Q.items /\ E.ritems = Q.ritems
<1> DEFINE w == EraseAll(Q.puts, S)
           r == Q.preserved \ S
           n == Q.rslots - Cardinality(Q.preserved \cap S)
<1>1. w \in ListsOver(Coros) /\ r \in SUBSET Coros /\ n \in Nat
  BY DEF QueueFields
<1>2. ErasePuts(Q, S) = [Q EXCEPT !.puts = w, !.preserved = r, !.rslots = n]
  BY DEF ErasePuts
<1> HIDE DEF w, r, n
<1>3. /\ ErasePuts(Q, S) \in QueueFields
      /\ ErasePuts(Q, S).puts = w
      /\ ErasePuts(Q, S).preserved = r
      /\ ErasePuts(Q, S).rslots = n
      /\ ErasePuts(Q, S).gets = Q.gets
      /\ ErasePuts(Q, S).greserved = Q.greserved
      /\ ErasePuts(Q, S).items = Q.items
      /\ ErasePuts(Q, S).ritems = Q.ritems
  BY <1>1, <1>2 DEF QueueFields
<1> QED
  BY <1>3 DEF w, r, n

\* cleanup gives up only the reservations of dead waiters, and moves no item.
LEMMA CleanupConsistent ==
  ASSUME SizeAssumption, NEW Q \in QueueFields, Consistent(Q)
  PROVE  LET C == Cleanup(Q)
         IN  /\ C \in QueueFields
             /\ Consistent(C)
             /\ QueueFollows(Q, C, {})
             /\ C.items = Q.items
             /\ C.greserved \subseteq Q.greserved /\ C.ritems <= Q.ritems
             /\ C.preserved \subseteq Q.preserved /\ C.rslots <= Q.rslots
             /\ (\A c \in Coros : status[c] # "cancelled")
                  => C.ritems = Q.ritems /\ C.rslots = Q.rslots
<1> DEFINE D == {c \in Waiters(Q.gets) : ~Live(c)}
           F == {c \in Waiters(Q.puts) : ~Live(c)}
           E == EraseGets(Q, D)
           C == ErasePuts(E, F)
<1>1. /\ IsSide(Q.gets, Q.greserved)
      /\ IsSide(Q.puts, Q.preserved)
  BY SidesOf
<1>2. /\ IsSide(EraseAll(Q.gets, D), Q.greserved \ D)
      /\ Follows(Q.gets, Q.greserved, EraseAll(Q.gets, D), Q.greserved \ D, {})
      /\ Cardinality(Q.greserved \cap D) \in Nat
      /\ Cardinality(Q.greserved \ D)
           = Cardinality(Q.greserved) - Cardinality(Q.greserved \cap D)
  BY <1>1, EraseDead, EraseCount
<1>3. /\ IsSide(EraseAll(Q.puts, F), Q.preserved \ F)
      /\ Follows(Q.puts, Q.preserved, EraseAll(Q.puts, F), Q.preserved \ F, {})
      /\ Cardinality(Q.preserved \cap F) \in Nat
      /\ Cardinality(Q.preserved \ F)
           = Cardinality(Q.preserved) - Cardinality(Q.preserved \cap F)
  BY <1>1, EraseDead, EraseCount
<1>4. (\A c \in Coros : status[c] # "cancelled")
        => Q.greserved \cap D = {} /\ Q.preserved \cap F = {}
  BY <1>1 DEF IsSide, Listed, Live
<1>5. Cleanup(Q) = C
  <2>1. E.puts = Q.puts
    BY DEF EraseGets, QueueFields
  <2> QED
    BY <2>1 DEF Cleanup
<1> HIDE DEF D, F
<1>6. /\ Q.ritems = Cardinality(Q.greserved)
      /\ Q.rslots = Cardinality(Q.preserved)
      /\ Q.ritems \in Nat /\ Q.rslots \in Nat /\ Q.items \in Nat
      /\ Q.ritems <= Q.items
      /\ MaxSize > 0 => Q.items + Q.rslots <= MaxSize
  BY DEF Consistent, Counted, QueueFields, SizeAssumption
<1>7. Cardinality(Q.greserved \ D) \in Nat /\ Cardinality(Q.preserved \ F) \in Nat
  BY <1>2, <1>3, SideFacts
<1>8. /\ E \in QueueFields
      /\ E.gets = EraseAll(Q.gets, D)
      /\ E.greserved = Q.greserved \ D
      /\ E.ritems = Q.ritems - Cardinality(Q.greserved \cap D)
      /\ E.puts = Q.puts /\ E.preserved = Q.preserved
      /\ E.items = Q.items /\ E.rslots = Q.rslots
  BY <1>2, <1>6, <1>7, EraseGetsFields DEF IsSide
<1> HIDE DEF E
<1>9. /\ C \in QueueFields
      /\ C.puts = EraseAll(Q.puts, F)
      /\ C.preserved = Q.preserved \ F
      /\ C.rslots = Q.rslots - Cardinality(Q.preserved \cap F)
      /\ C.gets = E.gets /\ C.greserved = E.greserved
      /\ C.items = E.items /\ C.ritems = E.ritems
  <2>1. /\ EraseAll(E.puts, F) \in ListsOver(Coros)
        /\ E.rslots - Cardinality(E.preserved \cap F) \in Nat
    BY <1>3, <1>6, <1>7, <1>8 DEF IsSide
  <2> QED
    BY <1>8, <2>1, ErasePutsFields
<1> HIDE DEF C
<1>10. QueueFollows(Q, C, {})
  BY <1>2, <1>3, <1>8, <1>9 DEF QueueFollows
<1>11. /\ C.items = Q.items
       /\ C.ritems = Cardinality(C.greserved) /\ C.ritems <= Q.ritems
       /\ C.rslots = Cardinality(C.preserved) /\ C.rslots <= Q.rslots
       /\ C.ritems \in Nat /\ C.rslots \in Nat
  BY <1>2, <1>3, <1>6, <1>7, <1>8, <1>9
<1>12. Counted(C)
  BY <1>6, <1>11 DEF Counted, SizeAssumption
<1>13. IsSide(C.gets, C.greserved) /\ IsSide(C.puts, C.preserved)
  BY <1>2, <1>3, <1>8, <1>9
<1>14. Consistent(C)
  <2>1. \A c \in {} : status[c] # "parked"
    OBVIOUS
  <2> QED
    BY <1>9, <1>10, <1>12, <1>13, <2>1, FollowerConsistent
<1>15. ASSUME \A c \in Coros : status[c] # "cancelled"
       PROVE  C.ritems = Q.ritems /\ C.rslots = Q.rslots
  <2>1. /\ Cardinality(Q.greserved \cap D) = 0
        /\ Cardinality(Q.preserved \cap F) = 0
    BY <1>4, <1>15, FS_EmptySet
  <2> QED
    BY <1>6, <1>8, <1>9, <2>1
<1>16. C.greserved \subseteq Q.greserved /\ C.preserved \subseteq Q.preserved
  BY <1>8, <1>9
<1> QED
  BY <1>5, <1>9, <1>10, <1>11, <1>14, <1>15, <1>16

\* No parked consumer without a reservation waits beside an unreserved item, no
\* such producer beside a free slot.
GetsServed(Q) ==
  Open(Q.gets, Q.greserved) # {} => ~HasUnreservedItem(Q)
PutsServed(Q) ==
  Open(Q.puts, Q.preserved) # {} => ~HasUnreservedSlot(Q)

\* wake_consumers reserves items for consumers until one of them runs out.
LEMMA WakeConsumersConsistent ==
  ASSUME SizeAssumption, NEW Q \in QueueFields, Consistent(Q)
  PROVE  LET R == WakeConsumers(Q)
         IN  /\ R \in QueueFields
             /\ Consistent(R)
             /\ QueueFollows(Q, R, {})
             /\ R.items = Q.items
             /\ R.rslots <= Q.rslots
             /\ GetsServed(R)
             /\ (\A c \in Coros : status[c] # "cancelled") => R.rslots = Q.rslots
<1> DEFINE C == Cleanup(Q)
           lucky == FirstOf(C.gets, Open(C.gets, C.greserved), C.items - C.ritems)
           reserved == C.greserved \cup lucky
           count == C.ritems + Cardinality(lucky)
           R == WakeConsumers(Q)
<1>1. /\ C \in QueueFields
      /\ Consistent(C)
      /\ QueueFollows(Q, C, {})
      /\ C.items = Q.items
      /\ C.rslots <= Q.rslots
      /\ (\A c \in Coros : status[c] # "cancelled") => C.rslots = Q.rslots
  BY CleanupConsistent
<1>2. R = [C EXCEPT !.greserved = reserved, !.ritems = count]
  BY DEF WakeConsumers, Open
<1> HIDE DEF C, R
<1>3. /\ IsSide(C.gets, C.greserved)
      /\ IsSide(C.puts, C.preserved)
  BY <1>1, SidesOf
<1>4. /\ C.ritems = Cardinality(C.greserved)
      /\ C.ritems \in Nat /\ C.rslots \in Nat /\ C.items \in Nat
      /\ C.ritems <= C.items
      /\ MaxSize > 0 => C.items + C.rslots <= MaxSize
      /\ C.rslots = Cardinality(C.preserved)
  BY <1>1 DEF Consistent, Counted, QueueFields, SizeAssumption
<1>5. C.items - C.ritems \in Nat
  BY <1>4
<1>6. /\ lucky \in SUBSET Open(C.gets, C.greserved)
      /\ \A c \in lucky : \A d \in C.gets[c] \cap Open(C.gets, C.greserved) : d \in lucky
      /\ Cardinality(lucky) \in 0..C.items - C.ritems
      /\ Cardinality(lucky) < C.items - C.ritems => lucky = Open(C.gets, C.greserved)
  BY <1>3, <1>5, FirstOpen
<1> HIDE DEF lucky
<1>7. /\ IsSide(C.gets, reserved)
      /\ Follows(C.gets, C.greserved, C.gets, reserved, {})
      /\ Cardinality(lucky) \in Nat
      /\ Cardinality(reserved) = Cardinality(C.greserved) + Cardinality(lucky)
  <2>1. /\ IsSide(C.gets, reserved)
        /\ Follows(C.gets, C.greserved, C.gets, reserved, {})
    BY <1>3, <1>6, ReserveSide
  <2>2. /\ Cardinality(lucky) \in Nat
        /\ Cardinality(reserved) = Cardinality(C.greserved) + Cardinality(lucky)
    BY <1>3, <1>6, ReserveCount
  <2> QED
    BY <2>1, <2>2
<1>8. count \in Nat /\ count <= C.items /\ count = Cardinality(reserved)
  BY <1>4, <1>6, <1>7
<1>9. count < C.items => Open(C.gets, reserved) = {}
  BY <1>4, <1>6 DEF Open
<1> HIDE DEF reserved, count
<1>10. /\ R \in QueueFields
       /\ R.gets = C.gets /\ R.greserved = reserved /\ R.ritems = count
       /\ R.puts = C.puts /\ R.preserved = C.preserved
       /\ R.items = C.items /\ R.rslots = C.rslots
  <2>1. reserved \in SUBSET Coros
    BY <1>7 DEF IsSide
  <2> QED
    BY <1>1, <1>2, <1>8, <2>1 DEF QueueFields
<1>11. QueueFollows(C, R, {})
  BY <1>3, <1>7, <1>10, SideFacts DEF QueueFollows
<1>12. Consistent(R)
  <2>1. IsSide(R.gets, R.greserved) /\ IsSide(R.puts, R.preserved)
    BY <1>3, <1>7, <1>10
  <2>2. Counted(R)
    BY <1>4, <1>8, <1>10 DEF Counted
  <2>3. \A c \in {} : status[c] # "parked"
    OBVIOUS
  <2> QED
    BY <1>1, <1>10, <1>11, <2>1, <2>2, <2>3, FollowerConsistent
<1>13. QueueFollows(Q, R, {})
  BY <1>1, <1>10, <1>11, <1>12, QueueFollowsTransitive
<1>14. GetsServed(R)
  BY <1>4, <1>8, <1>9, <1>10 DEF GetsServed, HasUnreservedItem
<1> QED
  BY <1>1, <1>10, <1>12, <1>13, <1>14 DEF R

\* wake_producers reserves slots for producers until one of them runs out.
LEMMA WakeProducersConsistent ==
  ASSUME SizeAssumption, NEW Q \in QueueFields, Consistent(Q)
  PROVE  LET R == WakeProducers(Q)
         IN  /\ R \in QueueFields
             /\ Consistent(R)
             /\ QueueFollows(Q, R, {})
             /\ R.items = Q.items
             /\ PutsServed(R)
             /\ (\A c \in Coros : status[c] # "cancelled") => R.ritems = Q.ritems
<1> DEFINE C == Cleanup(Q)
           lucky == IF MaxSize = 0 THEN Open(C.puts, C.preserved)
                    ELSE FirstOf(C.puts, Open(C.puts, C.preserved), FreeSlots(C))
           reserved == C.preserved \cup lucky
           count == C.rslots + Cardinality(lucky)
           R == WakeProducers(Q)
<1>1. /\ C \in QueueFields
      /\ Consistent(C)
      /\ QueueFollows(Q, C, {})
      /\ C.items = Q.items
      /\ (\A c \in Coros : status[c] # "cancelled") => C.ritems = Q.ritems
  BY CleanupConsistent
<1>2. R = [C EXCEPT !.preserved = reserved, !.rslots = count]
  BY DEF WakeProducers, Open
<1> HIDE DEF C, R
<1>3. /\ IsSide(C.gets, C.greserved)
      /\ IsSide(C.puts, C.preserved)
  BY <1>1, SidesOf
<1>4. /\ C.ritems = Cardinality(C.greserved)
      /\ C.ritems \in Nat /\ C.rslots \in Nat /\ C.items \in Nat
      /\ C.ritems <= C.items
      /\ MaxSize \in Nat
      /\ MaxSize > 0 => C.items + C.rslots <= MaxSize
      /\ C.rslots = Cardinality(C.preserved)
  BY <1>1 DEF Consistent, Counted, QueueFields, SizeAssumption
<1>5. MaxSize > 0 => FreeSlots(C) \in Nat
  BY <1>4 DEF FreeSlots
<1>6. /\ lucky \in SUBSET Open(C.puts, C.preserved)
      /\ \A c \in lucky : \A d \in C.puts[c] \cap Open(C.puts, C.preserved) : d \in lucky
  <2>1. CASE MaxSize = 0
    BY <2>1
  <2>2. CASE MaxSize > 0
    <3>1. lucky = FirstOf(C.puts, Open(C.puts, C.preserved), FreeSlots(C))
      BY <2>2
    <3> HIDE DEF lucky
    <3> QED
      BY <1>3, <1>5, <2>2, <3>1, FirstOpen
  <2> QED
    BY <1>4, <2>1, <2>2
<1>7. /\ MaxSize > 0 => /\ Cardinality(lucky) \in Nat
                        /\ Cardinality(lucky) <= FreeSlots(C)
                        /\ Cardinality(lucky) < FreeSlots(C)
                             => lucky = Open(C.puts, C.preserved)
      /\ MaxSize = 0 => lucky = Open(C.puts, C.preserved)
  <2>1. CASE MaxSize > 0
    <3>1. lucky = FirstOf(C.puts, Open(C.puts, C.preserved), FreeSlots(C))
      BY <2>1
    <3> HIDE DEF lucky
    <3>2. /\ Cardinality(lucky) \in 0..FreeSlots(C)
          /\ Cardinality(lucky) < FreeSlots(C) => lucky = Open(C.puts, C.preserved)
      BY <1>3, <1>5, <2>1, <3>1, FirstOpen
    <3> QED
      BY <1>5, <2>1, <3>2
  <2> QED
    BY <1>4, <2>1
<1> HIDE DEF lucky
<1>8. /\ IsSide(C.puts, reserved)
      /\ Follows(C.puts, C.preserved, C.puts, reserved, {})
      /\ Cardinality(lucky) \in Nat
      /\ Cardinality(reserved) = Cardinality(C.preserved) + Cardinality(lucky)
  <2>1. /\ IsSide(C.puts, reserved)
        /\ Follows(C.puts, C.preserved, C.puts, reserved, {})
    BY <1>3, <1>6, ReserveSide
  <2>2. /\ Cardinality(lucky) \in Nat
        /\ Cardinality(reserved) = Cardinality(C.preserved) + Cardinality(lucky)
    BY <1>3, <1>6, ReserveCount
  <2> QED
    BY <2>1, <2>2
<1>9. /\ count \in Nat /\ count = Cardinality(reserved)
      /\ MaxSize > 0 => C.items + count <= MaxSize
  BY <1>4, <1>7, <1>8 DEF FreeSlots
<1>10. (MaxSize = 0 \/ C.items + count < MaxSize) => Open(C.puts, reserved) = {}
  BY <1>4, <1>7, <1>8 DEF Open, FreeSlots
<1> HIDE DEF reserved, count
<1>11. /\ R \in QueueFields
       /\ R.puts = C.puts /\ R.preserved = reserved /\ R.rslots = count
       /\ R.gets = C.gets /\ R.greserved = C.greserved
       /\ R.items = C.items /\ R.ritems = C.ritems
  <2>1. reserved \in SUBSET Coros
    BY <1>8 DEF IsSide
  <2> QED
    BY <1>1, <1>2, <1>9, <2>1 DEF QueueFields
<1>12. QueueFollows(C, R, {})
  BY <1>3, <1>8, <1>11, SideFacts DEF QueueFollows
<1>13. Consistent(R)
  <2>1. IsSide(R.gets, R.greserved) /\ IsSide(R.puts, R.preserved)
    BY <1>3, <1>8, <1>11
  <2>2. Counted(R)
    BY <1>4, <1>9, <1>11 DEF Counted
  <2>3. \A c \in {} : status[c] # "parked"
    OBVIOUS
  <2> QED
    BY <1>1, <1>11, <1>12, <2>1, <2>2, <2>3, FollowerConsistent
<1>14. QueueFollows(Q, R, {})
  BY <1>1, <1>11, <1>12, <1>13, QueueFollowsTransitive
<1>15. PutsServed(R)
  BY <1>4, <1>9, <1>10, <1>11 DEF PutsServed, HasUnreservedSlot, FreeSlots
<1> QED
  BY <1>1, <1>11, <1>13, <1>14, <1>15 DEF R

\* The number of items changes, nothing else.
LEMMA ItemsFields ==
  ASSUME NEW Q \in QueueFields, NEW n \in 0..ItemBound
  PROVE  LET E == [Q EXCEPT !.items = n]
         IN  /\ E \in QueueFields
             /\ E.items = n
             /\ E.gets = Q.gets /\ E.greserved = Q.greserved /\ E.ritems = Q.ritems
             /\ E.puts = Q.puts /\ E.preserved = Q.preserved /\ E.rslots = Q.rslots
  BY DEF QueueFields

\* A consumer or a producer leaves the queue, which then holds n items.
LEMMA LeaveGets ==
  ASSUME SizeAssumption, NEW Q \in QueueFields, Consistent(Q), NEW c \in Coros,
         status[c] # "parked", NEW n \in 0..ItemBound, n <= Q.items,
         c \in Q.greserved => Q.ritems - 1 <= n,
         c \notin Q.greserved => Q.ritems <= n
  PROVE  LET E == EraseGets([Q EXCEPT !.items = n], {c})
         IN  /\ E \in QueueFields
             /\ Consistent(E)
             /\ QueueFollows(Q, E, {c})
             /\ c \notin Waiters(E.gets)
             /\ E.items = n
             /\ E.rslots = Q.rslots
<1> DEFINE M == [Q EXCEPT !.items = n]
           E == EraseGets(M, {c})
<1>1. /\ M \in QueueFields
      /\ M.items = n
      /\ M.gets = Q.gets /\ M.greserved = Q.greserved /\ M.ritems = Q.ritems
      /\ M.puts = Q.puts /\ M.preserved = Q.preserved /\ M.rslots = Q.rslots
  BY ItemsFields
<1> HIDE DEF M
<1>2. IsSide(Q.gets, Q.greserved) /\ IsSide(Q.puts, Q.preserved)
  BY SidesOf
<1>3. /\ IsSide(EraseAll(Q.gets, {c}), Q.greserved \ {c})
      /\ Waiters(EraseAll(Q.gets, {c})) = Waiters(Q.gets) \ {c}
      /\ Follows(Q.gets, Q.greserved, EraseAll(Q.gets, {c}), Q.greserved \ {c}, {c})
  BY <1>2, EraseSide
<1>4. Follows(Q.puts, Q.preserved, Q.puts, Q.preserved, {c})
  BY DEF Follows
<1>5. /\ Q.ritems = Cardinality(Q.greserved)
      /\ Q.rslots = Cardinality(Q.preserved)
      /\ Q.ritems \in Nat /\ Q.rslots \in Nat /\ Q.items \in Nat /\ n \in Nat
      /\ MaxSize \in Nat
      /\ MaxSize > 0 => Q.items + Q.rslots <= MaxSize
  BY DEF Consistent, Counted, QueueFields, SizeAssumption
<1>6. /\ Cardinality(Q.greserved \cap {c}) = IF c \in Q.greserved THEN 1 ELSE 0
      /\ Cardinality(Q.greserved \ {c})
           = Q.ritems - (IF c \in Q.greserved THEN 1 ELSE 0)
      /\ Cardinality(Q.greserved \ {c}) \in Nat
  <2>1. /\ Cardinality(Q.greserved \ {c})
             = Cardinality(Q.greserved) - Cardinality(Q.greserved \cap {c})
    BY <1>2, EraseCount
  <2>2. Cardinality(Q.greserved \cap {c}) = IF c \in Q.greserved THEN 1 ELSE 0
    BY SingletonCount
  <2>3. Cardinality(Q.greserved \ {c}) \in Nat
    BY <1>3, SideFacts
  <2> QED
    BY <1>5, <2>1, <2>2, <2>3
<1>7. /\ E \in QueueFields
      /\ E.gets = EraseAll(Q.gets, {c})
      /\ E.greserved = Q.greserved \ {c}
      /\ E.ritems = Cardinality(E.greserved)
      /\ E.ritems = Q.ritems - (IF c \in Q.greserved THEN 1 ELSE 0)
      /\ E.puts = Q.puts /\ E.preserved = Q.preserved
      /\ E.items = n /\ E.rslots = Q.rslots
  <2>1. /\ EraseAll(M.gets, {c}) \in ListsOver(Coros)
        /\ M.ritems - Cardinality(M.greserved \cap {c}) \in Nat
    BY <1>1, <1>3, <1>5, <1>6 DEF IsSide
  <2>2. /\ E \in QueueFields
        /\ E.gets = EraseAll(M.gets, {c})
        /\ E.greserved = M.greserved \ {c}
        /\ E.ritems = M.ritems - Cardinality(M.greserved \cap {c})
        /\ E.puts = M.puts /\ E.preserved = M.preserved
        /\ E.items = M.items /\ E.rslots = M.rslots
    BY <1>1, <2>1, EraseGetsFields
  <2> HIDE DEF E
  <2> QED
    BY <1>1, <1>5, <1>6, <2>2
<1> HIDE DEF E
<1>8. QueueFollows(Q, E, {c})
  BY <1>3, <1>4, <1>7 DEF QueueFollows
<1>9. Counted(E)
  BY <1>5, <1>7 DEF Counted
<1>10. Consistent(E)
  BY <1>2, <1>3, <1>7, <1>8, <1>9, FollowerConsistent
<1> QED
  BY <1>3, <1>7, <1>8, <1>10 DEF E, M

LEMMA LeavePuts ==
  ASSUME SizeAssumption, NEW Q \in QueueFields, Consistent(Q), NEW c \in Coros,
         status[c] # "parked", NEW n \in 0..ItemBound, Q.items <= n,
         c \in Q.preserved => n <= Q.items + 1,
         c \notin Q.preserved => n = Q.items
  PROVE  LET E == ErasePuts([Q EXCEPT !.items = n], {c})
         IN  /\ E \in QueueFields
             /\ Consistent(E)
             /\ QueueFollows(Q, E, {c})
             /\ c \notin Waiters(E.puts)
             /\ E.items = n
             /\ E.ritems = Q.ritems
             /\ E.rslots = Q.rslots - (IF c \in Q.preserved THEN 1 ELSE 0)
<1> DEFINE M == [Q EXCEPT !.items = n]
           E == ErasePuts(M, {c})
<1>1. /\ M \in QueueFields
      /\ M.items = n
      /\ M.gets = Q.gets /\ M.greserved = Q.greserved /\ M.ritems = Q.ritems
      /\ M.puts = Q.puts /\ M.preserved = Q.preserved /\ M.rslots = Q.rslots
  BY ItemsFields
<1> HIDE DEF M
<1>2. IsSide(Q.gets, Q.greserved) /\ IsSide(Q.puts, Q.preserved)
  BY SidesOf
<1>3. /\ IsSide(EraseAll(Q.puts, {c}), Q.preserved \ {c})
      /\ Waiters(EraseAll(Q.puts, {c})) = Waiters(Q.puts) \ {c}
      /\ Follows(Q.puts, Q.preserved, EraseAll(Q.puts, {c}), Q.preserved \ {c}, {c})
  BY <1>2, EraseSide
<1>4. Follows(Q.gets, Q.greserved, Q.gets, Q.greserved, {c})
  BY DEF Follows
<1>5. /\ Q.ritems = Cardinality(Q.greserved)
      /\ Q.rslots = Cardinality(Q.preserved)
      /\ Q.ritems \in Nat /\ Q.rslots \in Nat /\ Q.items \in Nat /\ n \in Nat
      /\ MaxSize \in Nat
      /\ Q.ritems <= Q.items
      /\ MaxSize > 0 => Q.items + Q.rslots <= MaxSize
  BY DEF Consistent, Counted, QueueFields, SizeAssumption
<1>6. /\ Cardinality(Q.preserved \cap {c}) = IF c \in Q.preserved THEN 1 ELSE 0
      /\ Cardinality(Q.preserved \ {c})
           = Q.rslots - (IF c \in Q.preserved THEN 1 ELSE 0)
      /\ Cardinality(Q.preserved \ {c}) \in Nat
  <2>1. /\ Cardinality(Q.preserved \ {c})
             = Cardinality(Q.preserved) - Cardinality(Q.preserved \cap {c})
    BY <1>2, EraseCount
  <2>2. Cardinality(Q.preserved \cap {c}) = IF c \in Q.preserved THEN 1 ELSE 0
    BY SingletonCount
  <2>3. Cardinality(Q.preserved \ {c}) \in Nat
    BY <1>3, SideFacts
  <2> QED
    BY <1>5, <2>1, <2>2, <2>3
<1>7. /\ E \in QueueFields
      /\ E.puts = EraseAll(Q.puts, {c})
      /\ E.preserved = Q.preserved \ {c}
      /\ E.rslots = Cardinality(E.preserved)
      /\ E.rslots = Q.rslots - (IF c \in Q.preserved THEN 1 ELSE 0)
      /\ E.gets = Q.gets /\ E.greserved = Q.greserved
      /\ E.items = n /\ E.ritems = Q.ritems
  <2>1. /\ EraseAll(M.puts, {c}) \in ListsOver(Coros)
        /\ M.rslots - Cardinality(M.preserved \cap {c}) \in Nat
    BY <1>1, <1>3, <1>5, <1>6 DEF IsSide
  <2>2. /\ E \in QueueFields
        /\ E.puts = EraseAll(M.puts, {c})
        /\ E.preserved = M.preserved \ {c}
        /\ E.rslots = M.rslots - Cardinality(M.preserved \cap {c})
        /\ E.gets = M.gets /\ E.greserved = M.greserved
        /\ E.items = M.items /\ E.ritems = M.ritems
    BY <1>1, <2>1, ErasePutsFields
  <2> HIDE DEF E
  <2> QED
    BY <1>1, <1>5, <1>6, <2>2
<1> HIDE DEF E
<1>8. QueueFollows(Q, E, {c})
  BY <1>3, <1>4, <1>7 DEF QueueFollows
<1>9. Counted(E)
  BY <1>5, <1>7 DEF Counted
<1>10. Consistent(E)
  BY <1>2, <1>3, <1>7, <1>8, <1>9, FollowerConsistent
<1> QED
  BY <1>3, <1>7, <1>8, <1>10 DEF E, M

\* Whoever was served stays served while no item and no slot comes free.
LEMMA GetsServedKept ==
  ASSUME NEW Q1 \in QueueFields, NEW Q2 \in QueueFields, NEW S,
         QueueFollows(Q1, Q2, S), \A c \in S : status[c] # "parked",
         GetsServed(Q1), Q2.items - Q2.ritems <= Q1.items - Q1.ritems
  PROVE  GetsServed(Q2)
<1>1. Open(Q2.gets, Q2.greserved) \subseteq Open(Q1.gets, Q1.greserved)
  BY DEF Open, QueueFollows, Follows, Live
<1>2. /\ Q1.items \in Int /\ Q1.ritems \in Int
      /\ Q2.items \in Int /\ Q2.ritems \in Int
  BY DEF QueueFields
<1> QED
  BY <1>1, <1>2 DEF GetsServed, HasUnreservedItem

LEMMA PutsServedKept ==
  ASSUME SizeAssumption,
         NEW Q1 \in QueueFields, NEW Q2 \in QueueFields, NEW S,
         QueueFollows(Q1, Q2, S), \A c \in S : status[c] # "parked",
         PutsServed(Q1), Q1.items + Q1.rslots <= Q2.items + Q2.rslots
  PROVE  PutsServed(Q2)
<1>1. Open(Q2.puts, Q2.preserved) \subseteq Open(Q1.puts, Q1.preserved)
  BY DEF Open, QueueFollows, Follows, Live
<1>2. /\ Q1.items \in Int /\ Q1.rslots \in Int
      /\ Q2.items \in Int /\ Q2.rslots \in Int
      /\ MaxSize \in Int
  BY DEF QueueFields, SizeAssumption
<1> QED
  BY <1>1, <1>2 DEF PutsServed, HasUnreservedSlot, FreeSlots

\* consume_get of a consumer whose item is reserved
LEMMA ConsumeConsistent ==
  ASSUME SizeAssumption, NEW Q \in QueueFields, Consistent(Q), NEW c \in Coros,
         c \in Q.greserved, status[c] # "parked"
  PROVE  LET R == ConsumeGet(Q, c)
         IN  /\ R \in QueueFields
             /\ Consistent(R)
             /\ QueueFollows(Q, R, {c})
             /\ c \notin Waiters(R.gets) \cup Waiters(R.puts)
             /\ Q.items > 0
             /\ (\A d \in Coros : status[d] # "cancelled")
                  => GetsServed(R) /\ PutsServed(R)
<1> DEFINE E == EraseGets([Q EXCEPT !.items = @ - 1], {c})
           C == Cleanup(E)
           W == WakeConsumers(C)
           R == WakeProducers(W)
<1>1. Q.items > 0 /\ Q.items - 1 \in 0..ItemBound /\ Q.items \in Nat
      /\ Q.ritems \in Nat /\ Q.ritems - 1 <= Q.items - 1
  <2>1. Cardinality(Q.greserved) # 0
    <3>1. IsFiniteSet(Q.greserved)
      BY SidesOf, SideFacts
    <3> QED
      BY <3>1, FS_EmptySet
  <2> QED
    BY <2>1 DEF QueueFields, Consistent, Counted, SizeAssumption
<1>2. E = EraseGets([Q EXCEPT !.items = Q.items - 1], {c})
  OBVIOUS
<1>3. ConsumeGet(Q, c) = R
  BY DEF ConsumeGet
<1>4. /\ E \in QueueFields
      /\ Consistent(E)
      /\ QueueFollows(Q, E, {c})
      /\ c \notin Waiters(E.gets)
  <2> DEFINE n == Q.items - 1
  <2>1. n \in 0..ItemBound /\ n <= Q.items /\ Q.ritems - 1 <= n
    BY <1>1
  <2>2. E = EraseGets([Q EXCEPT !.items = n], {c})
    BY <1>2
  <2> HIDE DEF n, E
  <2> QED
    BY <2>1, <2>2, LeaveGets
<1> HIDE DEF E
<1>5. /\ C \in QueueFields
      /\ Consistent(C)
      /\ QueueFollows(E, C, {})
  BY <1>4, CleanupConsistent
<1> HIDE DEF C
<1>6. /\ W \in QueueFields
      /\ Consistent(W)
      /\ QueueFollows(C, W, {})
      /\ GetsServed(W)
  BY <1>5, WakeConsumersConsistent
<1> HIDE DEF W
<1>7. /\ R \in QueueFields
      /\ Consistent(R)
      /\ QueueFollows(W, R, {})
      /\ R.items = W.items
      /\ PutsServed(R)
      /\ (\A d \in Coros : status[d] # "cancelled") => R.ritems = W.ritems
  BY <1>6, WakeProducersConsistent
<1> HIDE DEF R
<1>8. QueueFollows(Q, R, {c})
  <2>1. QueueFollows(Q, C, {c})
    BY <1>4, <1>5, QueueFollowsTransitive
  <2>2. QueueFollows(Q, W, {c})
    BY <1>5, <1>6, <2>1, QueueFollowsTransitive
  <2> QED
    BY <1>6, <1>7, <2>2, QueueFollowsTransitive
<1>9. c \notin Waiters(R.gets) \cup Waiters(R.puts)
  <2>1. c \notin Waiters(R.gets)
    BY <1>4, <1>5, <1>6, <1>7 DEF QueueFollows, Follows
  <2>2. c \notin Waiters(Q.puts)
    BY DEF Consistent, Listed
  <2> QED
    BY <1>8, <2>1, <2>2 DEF QueueFollows, Follows
<1>10. ASSUME \A d \in Coros : status[d] # "cancelled"
       PROVE  GetsServed(R)
  <2>1. R.items - R.ritems <= W.items - W.ritems
    BY <1>6, <1>7, <1>10 DEF QueueFields
  <2>2. \A d \in {} : status[d] # "parked"
    OBVIOUS
  <2> QED
    BY <1>6, <1>7, <2>1, <2>2, GetsServedKept
<1> QED
  BY <1>1, <1>3, <1>7, <1>8, <1>9, <1>10

\* produce of a producer whose slot is reserved
LEMMA ProduceConsistent ==
  ASSUME SizeAssumption, NEW Q \in QueueFields, Consistent(Q), NEW c \in Coros,
         c \in Q.preserved, status[c] # "parked", MaxSize > 0
  PROVE  LET R == Produce(Q, c)
         IN  /\ R \in QueueFields
             /\ Consistent(R)
             /\ QueueFollows(Q, R, {c})
             /\ c \notin Waiters(R.gets) \cup Waiters(R.puts)
             /\ (\A d \in Coros : status[d] # "cancelled") /\ PutsServed(Q)
                  => GetsServed(R) /\ PutsServed(R)
<1> DEFINE n == Q.items + 1
           E == ErasePuts([Q EXCEPT !.items = @ + 1], {c})
           C == Cleanup(E)
           R == WakeConsumers(C)
<1>1. n \in 0..ItemBound /\ Q.items <= n /\ n <= Q.items + 1
  <2>1. Cardinality(Q.preserved) # 0
    <3>1. IsFiniteSet(Q.preserved)
      BY SidesOf, SideFacts
    <3> QED
      BY <3>1, FS_EmptySet
  <2> QED
    BY <2>1 DEF QueueFields, Consistent, Counted, SizeAssumption
<1>2. E = ErasePuts([Q EXCEPT !.items = n], {c})
  OBVIOUS
<1>3. Produce(Q, c) = R
  BY DEF Produce
<1> HIDE DEF E
<1>4. /\ E \in QueueFields
      /\ Consistent(E)
      /\ QueueFollows(Q, E, {c})
      /\ c \notin Waiters(E.puts)
      /\ E.items + E.rslots = Q.items + Q.rslots
  <2>1. /\ E \in QueueFields
        /\ Consistent(E)
        /\ QueueFollows(Q, E, {c})
        /\ c \notin Waiters(E.puts)
        /\ E.items = n
        /\ E.rslots = Q.rslots - (IF c \in Q.preserved THEN 1 ELSE 0)
    <3> HIDE DEF n
    <3> QED
      BY <1>1, <1>2, LeavePuts
  <2> QED
    BY <2>1 DEF QueueFields
<1>5. /\ C \in QueueFields
      /\ Consistent(C)
      /\ QueueFollows(E, C, {})
      /\ C.items = E.items
      /\ (\A d \in Coros : status[d] # "cancelled") => C.rslots = E.rslots
  BY <1>4, CleanupConsistent
<1> HIDE DEF C
<1>6. /\ R \in QueueFields
      /\ Consistent(R)
      /\ QueueFollows(C, R, {})
      /\ R.items = C.items
      /\ GetsServed(R)
      /\ (\A d \in Coros : status[d] # "cancelled") => R.rslots = C.rslots
  BY <1>5, WakeConsumersConsistent
<1> HIDE DEF R
<1>7. QueueFollows(Q, R, {c})
  <2>1. QueueFollows(Q, C, {c})
    BY <1>4, <1>5, QueueFollowsTransitive
  <2> QED
    BY <1>5, <1>6, <2>1, QueueFollowsTransitive
<1>8. c \notin Waiters(R.gets) \cup Waiters(R.puts)
  <2>1. c \notin Waiters(R.puts)
    BY <1>4, <1>5, <1>6 DEF QueueFollows, Follows
  <2>2. c \notin Waiters(Q.gets)
    BY DEF Consistent, Listed
  <2> QED
    BY <1>7, <2>1, <2>2 DEF QueueFollows, Follows
<1>9. ASSUME \A d \in Coros : status[d] # "cancelled", PutsServed(Q)
      PROVE  PutsServed(R)
  <2>1. Q.items + Q.rslots <= R.items + R.rslots
    BY <1>4, <1>5, <1>6, <1>9 DEF QueueFields
  <2>2. \A d \in {c} : status[d] # "parked"
    OBVIOUS
  <2> QED
    BY <1>6, <1>7, <1>9, <2>1, <2>2, PutsServedKept
<1> QED
  BY <1>3, <1>6, <1>7, <1>8, <1>9

\* abandon_get and abandon_put of a waiter that is not parked any more
LEMMA AbandonConsistent ==
  ASSUME SizeAssumption, NEW Q \in QueueFields, Consistent(Q), NEW c \in Coros,
         status[c] # "parked"
  PROVE  /\ /\ AbandonGet(Q, c) \in QueueFields
            /\ Consistent(AbandonGet(Q, c))
            /\ QueueFollows(Q, AbandonGet(Q, c), {c})
            /\ c \notin Waiters(AbandonGet(Q, c).gets)
         /\ /\ AbandonPut(Q, c) \in QueueFields
            /\ Consistent(AbandonPut(Q, c))
            /\ QueueFollows(Q, AbandonPut(Q, c), {c})
            /\ c \notin Waiters(AbandonPut(Q, c).puts)
<1>1. QueueFollows(Q, Q, {c})
  BY SidesOf DEF QueueFollows, Follows
<1>2. Q.items \in 0..ItemBound /\ Q.items \in Nat /\ Q.ritems <= Q.items
      /\ Q.ritems \in Nat
  BY DEF QueueFields, Consistent, Counted, SizeAssumption
<1>3. Q = [Q EXCEPT !.items = Q.items]
  BY DEF QueueFields
<1>4. /\ AbandonGet(Q, c) \in QueueFields
      /\ Consistent(AbandonGet(Q, c))
      /\ QueueFollows(Q, AbandonGet(Q, c), {c})
      /\ c \notin Waiters(AbandonGet(Q, c).gets)
  <2>1. CASE c \notin Waiters(Q.gets)
    BY <1>1, <2>1 DEF AbandonGet
  <2>2. CASE c \in Waiters(Q.gets)
    <3> DEFINE E == EraseGets(Q, {c})
               C == Cleanup(E)
               R == WakeConsumers(C)
    <3>1. AbandonGet(Q, c) = R
      BY <2>2 DEF AbandonGet
    <3>2. /\ E \in QueueFields
          /\ Consistent(E)
          /\ QueueFollows(Q, E, {c})
          /\ c \notin Waiters(E.gets)
      <4>1. E = EraseGets([Q EXCEPT !.items = Q.items], {c})
        BY <1>3
      <4>2. Q.items <= Q.items /\ Q.ritems - 1 <= Q.items
        BY <1>2
      <4> HIDE DEF E
      <4> QED
        BY <1>2, <4>1, <4>2, LeaveGets
    <3> HIDE DEF E
    <3>3. /\ C \in QueueFields
          /\ Consistent(C)
          /\ QueueFollows(E, C, {})
      BY <3>2, CleanupConsistent
    <3> HIDE DEF C
    <3>4. /\ R \in QueueFields
          /\ Consistent(R)
          /\ QueueFollows(C, R, {})
      BY <3>3, WakeConsumersConsistent
    <3> HIDE DEF R
    <3>5. QueueFollows(Q, R, {c})
      <4>1. QueueFollows(Q, C, {c})
        BY <3>2, <3>3, QueueFollowsTransitive
      <4> QED
        BY <3>3, <3>4, <4>1, QueueFollowsTransitive
    <3>6. c \notin Waiters(R.gets)
      BY <3>2, <3>3, <3>4 DEF QueueFollows, Follows
    <3> QED
      BY <3>1, <3>4, <3>5, <3>6
  <2> QED
    BY <2>1, <2>2
<1>5. /\ AbandonPut(Q, c) \in QueueFields
      /\ Consistent(AbandonPut(Q, c))
      /\ QueueFollows(Q, AbandonPut(Q, c), {c})
      /\ c \notin Waiters(AbandonPut(Q, c).puts)
  <2>1. CASE c \notin Waiters(Q.puts)
    BY <1>1, <2>1 DEF AbandonPut
  <2>2. CASE c \in Waiters(Q.puts)
    <3> DEFINE E == ErasePuts(Q, {c})
               C == Cleanup(E)
               R == WakeProducers(C)
    <3>1. AbandonPut(Q, c) = R
      BY <2>2 DEF AbandonPut
    <3>2. /\ E \in QueueFields
          /\ Consistent(E)
          /\ QueueFollows(Q, E, {c})
          /\ c \notin Waiters(E.puts)
      <4>1. E = ErasePuts([Q EXCEPT !.items = Q.items], {c})
        BY <1>3
      <4>2. Q.items <= Q.items /\ Q.items <= Q.items + 1
        BY <1>2
      <4> HIDE DEF E
      <4> QED
        BY <1>2, <4>1, <4>2, LeavePuts
    <3> HIDE DEF E
    <3>3. /\ C \in QueueFields
          /\ Consistent(C)
          /\ QueueFollows(E, C, {})
      BY <3>2, CleanupConsistent
    <3> HIDE DEF C
    <3>4. /\ R \in QueueFields
          /\ Consistent(R)
          /\ QueueFollows(C, R, {})
      BY <3>3, WakeProducersConsistent
    <3> HIDE DEF R
    <3>5. QueueFollows(Q, R, {c})
      <4>1. QueueFollows(Q, C, {c})
        BY <3>2, <3>3, QueueFollowsTransitive
      <4> QED
        BY <3>3, <3>4, <4>1, QueueFollowsTransitive
    <3>6. c \notin Waiters(R.puts)
      BY <3>2, <3>3, <3>4 DEF QueueFollows, Follows
    <3> QED
      BY <3>1, <3>4, <3>5, <3>6
  <2> QED
    BY <2>1, <2>2
<1> QED
  BY <1>4, <1>5

-----------------------------------------------------------------------------
(* The actions.                                                            *)

\* Items and slots go to the oldest waiters: the step in OldestFirst.
InTurn ==
  /\ \A c \in q'.greserved \ q.greserved :
       \A d \in q'.gets[c] : status[d] = "parked" => d \in q'.greserved
  /\ \A c \in q'.preserved \ q.preserved :
       \A d \in q'.puts[c] : status[d] = "parked" => d \in q'.preserved

\* What the steps that use the queue without parking have in common: the fields
\* become R, whom R newly reserves is woken, the members of S end their waits.
\* Without cancellation everybody who can be served is.
IsOperation(R, S, st) ==
  /\ R \in QueueFields /\ Consistent(R) /\ QueueFollows(q, R, S)
  /\ (Waiters(R.gets) \cup Waiters(R.puts)) \cap S = {}
  /\ st \in [Coros -> Statuses]
  /\ \A d \in Coros :
       \/ st[d] = status[d]
       \/ d \notin ((getting \cup putting) \ S) /\ st[d] # "parked"
  /\ status' = Wake(st, Woken(R))
  /\ q' = R /\ getting' = getting \ S /\ putting' = putting \ S
  /\ UNCHANGED <<pending, aborted>>
  /\ CalmInv => /\ GetsServed(R) /\ PutsServed(R)
                /\ \A d \in Coros : st[d] # "cancelled"

LEMMA StateFacts ==
  ASSUME IInv
  PROVE  /\ SchedTypeOK
         /\ status \in [Coros -> Statuses]
         /\ pc \in Places
         /\ outer \in {"none", "roots", "children"}
         /\ q \in QueueFields
         /\ Consistent(q)
         /\ Waiters(q.gets) \subseteq Coros
         /\ Waiters(q.puts) \subseteq Coros
         /\ getting \subseteq Coros /\ putting \subseteq Coros
         /\ q.greserved \subseteq Waiters(q.gets)
         /\ q.preserved \subseteq Waiters(q.puts)
         /\ QueueFollows(q, q, {})
         /\ CalmInv => /\ GetsServed(q) /\ PutsServed(q)
                       /\ \A d \in Coros : status[d] # "cancelled"
<1>1. q \in QueueFields /\ Consistent(q)
  BY FieldsType DEF IInv, TypeOK
<1>2. /\ Waiters(q.gets) \subseteq getting /\ getting \subseteq Coros
      /\ Waiters(q.puts) \subseteq putting /\ putting \subseteq Coros
      /\ q.greserved \subseteq Waiters(q.gets)
      /\ q.preserved \subseteq Waiters(q.puts)
  BY <1>1 DEF IInv, AwaiterInv, TypeOK, Consistent, Listed
<1>3. CalmInv => /\ GetsServed(q) /\ PutsServed(q)
                 /\ \A d \in Coros : status[d] # "cancelled"
  BY <1>2 DEF CalmInv, GetsServed, PutsServed, Open
<1> QED
  BY <1>1, <1>2, <1>3, SidesOf DEF IInv, TypeOK, SchedTypeOK

\* The wakes of an operation are coroutines, and their order is a sequence.
LEMMA WakeOrderType ==
  ASSUME NEW R \in QueueFields
  PROVE  WakeOrder(R) \in Seq(Coros) /\ Woken(R) \subseteq Coros
<1> DEFINE G == R.greserved \ q.greserved
           P == R.preserved \ q.preserved
<1>1. G \subseteq Coros /\ P \subseteq Coros
  BY DEF QueueFields
<1>2. IsFiniteSet(G) /\ IsFiniteSet(P)
  BY <1>1, CorosAssumption, FS_Subset
<1> HIDE DEF G, P
<1>3. InOrder(R.gets, G) \in Seq(G) /\ InOrder(R.puts, P) \in Seq(P)
  BY <1>2, InOrderType
<1>4. InOrder(R.gets, G) \in Seq(Coros) /\ InOrder(R.puts, P) \in Seq(Coros)
  BY <1>1, <1>3
<1>5. InOrder(R.gets, G) \o InOrder(R.puts, P) \in Seq(Coros)
  BY <1>4, SeqType
<1> QED
  BY <1>1, <1>5 DEF WakeOrder, Woken, G, P

LEMMA OperationKeepsIInv ==
  ASSUME IInv, NEW R, NEW S, NEW st, IsOperation(R, S, st), SchedTypeOK'
  PROVE  IInv' /\ InTurn /\ (CalmInv => CalmInv')
<1>1. TypeOK'
  <2>1. PICK G \in SUBSET Coros : R.gets \in [G -> SUBSET Coros]
    BY DEF IsOperation, QueueFields, ListsOver
  <2>2. PICK P \in SUBSET Coros : R.puts \in [P -> SUBSET Coros]
    BY DEF IsOperation, QueueFields, ListsOver
  <2>3. q' \in QueueType(G, P)
    BY <2>1, <2>2 DEF IsOperation, QueueFields, QueueType
  <2> QED
    BY <2>3 DEF IInv, TypeOK, IsOperation
<1>2. /\ Waiters(R.gets) \subseteq getting \ S
      /\ Waiters(R.puts) \subseteq putting \ S
      /\ getting \subseteq Coros /\ putting \subseteq Coros
      /\ R.greserved \subseteq Waiters(R.gets)
      /\ R.preserved \subseteq Waiters(R.puts)
  <2>1. /\ Waiters(R.gets) \subseteq Waiters(q.gets)
        /\ Waiters(R.puts) \subseteq Waiters(q.puts)
    BY DEF IsOperation, QueueFollows, Follows
  <2> QED
    BY <2>1 DEF IsOperation, IInv, AwaiterInv, TypeOK, Consistent, Listed
<1>3. \A d \in Coros : status'[d] = IF d \in Woken(R) THEN "ready" ELSE st[d]
  BY DEF IsOperation, Wake
<1>4. \A d \in Coros : st[d] = "parked" => status[d] = "parked"
  BY DEF IsOperation
<1>5. ASSUME NEW d \in R.greserved \cup R.preserved
      PROVE  d \in Coros /\ status'[d] # "parked"
  <2>1. d \in Coros
    BY <1>2
  <2>2. CASE d \in Woken(R)
    BY <1>3, <2>1, <2>2
  <2>3. CASE d \notin Woken(R)
    <3>1. d \in q.greserved \cup q.preserved
      BY <2>3 DEF Woken
    <3>2. status[d] # "parked"
      BY <3>1 DEF IInv, AwaiterInv
    <3> QED
      BY <1>3, <1>4, <2>1, <2>3, <3>2
  <2> QED
    BY <2>2, <2>3
<1>6. ASSUME NEW d \in (getting \cup putting) \ S
      PROVE  /\ d \in Coros
             /\ status'[d] \in {"parked", "ready", "cancelled"}
             /\ status'[d] = "ready" => d \in R.greserved \cup R.preserved
  <2>1. d \in Coros /\ st[d] = status[d]
    BY <1>2 DEF IsOperation
  <2>2. status[d] \in {"parked", "ready", "cancelled"}
    BY DEF IInv, AwaiterInv
  <2>3. status[d] = "ready" => d \in R.greserved \cup R.preserved
    BY DEF IInv, AwaiterInv, IsOperation, QueueFollows, Follows, Live
  <2> QED
    BY <1>3, <2>1, <2>2, <2>3 DEF Woken
<1>7. AwaiterInv'
  BY <1>2, <1>5, <1>6 DEF AwaiterInv, IInv, IsOperation
<1>8. Consistent(q)'
  <2>1. \A d \in Coros : status'[d] = "parked" => status[d] = "parked"
    BY <1>3, <1>4
  <2>2. \A d \in Waiters(R.gets) :
          /\ status'[d] \in {"parked", "ready", "cancelled"}
          /\ status'[d] = "ready" => d \in R.greserved
    BY <1>2, <1>6 DEF IsOperation, Consistent
  <2>3. \A d \in Waiters(R.puts) :
          /\ status'[d] \in {"parked", "ready", "cancelled"}
          /\ status'[d] = "ready" => d \in R.preserved
    BY <1>2, <1>6 DEF IsOperation, Consistent
  <2>4. \A d \in Coros : status'[d] = "parked"
          => d \in Waiters(R.gets) \cup Waiters(R.puts)
    BY <2>1 DEF IsOperation, Consistent
  <2> QED
    BY <2>2, <2>3, <2>4 DEF IsOperation, Consistent, Listed, Counted
<1>9. InTurn
  BY DEF InTurn, IsOperation, QueueFollows, Follows
<1>10. ASSUME CalmInv
       PROVE  CalmInv'
  <2>1. pending' = <<>>
    BY <1>10 DEF CalmInv, IsOperation
  <2>2. ASSUME NEW d \in Coros
        PROVE  status'[d] # "cancelled"
    BY <1>3, <1>10 DEF IsOperation
  <2>3. ASSUME NEW d \in Coros, status'[d] = "parked"
        PROVE  /\ d \in getting' => ~HasUnreservedItem(q')
               /\ d \in putting' => ~HasUnreservedSlot(q')
    <3>1. status[d] = "parked" /\ d \notin R.greserved \cup R.preserved
      BY <1>3, <1>4, <1>5, <2>3
    <3>2. d \in Waiters(R.gets) \cup Waiters(R.puts)
      BY <3>1 DEF IsOperation, Consistent
    <3>3. d \in getting' => d \in Open(R.gets, R.greserved)
      BY <1>2, <3>1, <3>2 DEF Open, IsOperation, IInv, AwaiterInv
    <3>4. d \in putting' => d \in Open(R.puts, R.preserved)
      BY <1>2, <3>1, <3>2 DEF Open, IsOperation, IInv, AwaiterInv
    <3> QED
      BY <1>10, <3>3, <3>4 DEF IsOperation, GetsServed, PutsServed
  <2>4. (HasUnreservedItem(q))' = HasUnreservedItem(q')
        /\ (HasUnreservedSlot(q))' = HasUnreservedSlot(q')
    BY DEF HasUnreservedItem, HasUnreservedSlot, FreeSlots
  <2> QED
    BY <2>1, <2>2, <2>3, <2>4 DEF CalmInv
<1>11. aborted' = FALSE
  BY DEF IsOperation, IInv, TypeOK
<1> QED
  BY <1>1, <1>7, <1>8, <1>9, <1>10, <1>11 DEF IInv

\* An operation of a running coroutine, or of the code outside
LEMMA OperateStep ==
  ASSUME IInv, NEW R \in QueueFields, Consistent(R), QueueFollows(q, R, {}),
         Operate(R), CalmInv => GetsServed(R) /\ PutsServed(R)
  PROVE  IInv' /\ InTurn /\ (CalmInv => CalmInv')
<1>1. SchedTypeOK'
  <2>1. WakeOrder(R) \in Seq(Coros)
    BY WakeOrderType
  <2>2. pc' \in Places /\ outer' \in {"none", "roots", "children"}
    BY StateFacts DEF Operate, Flush, Places
  <2> QED
    BY <2>1, <2>2, StateFacts, WakeType DEF Operate
<1>2. getting' = getting \ {} /\ putting' = putting \ {}
  BY DEF Operate
<1>3. IsOperation(R, {}, status)
  BY <1>2, StateFacts DEF IsOperation, Operate
<1> QED
  BY <1>1, <1>3, OperationKeepsIInv

LEMMA PollKeepsIInv ==
  ASSUME SizeAssumption, IInv, Poll
  PROVE  IInv' /\ InTurn /\ (CalmInv => CalmInv')
<1> DEFINE R == Cleanup(q)
<1>1. /\ R \in QueueFields
      /\ Consistent(R)
      /\ QueueFollows(q, R, {})
      /\ R.items = q.items
      /\ (\A c \in Coros : status[c] # "cancelled")
           => R.ritems = q.ritems /\ R.rslots = q.rslots
  BY StateFacts, CleanupConsistent
<1>2. Operate(R)
  BY DEF Poll
<1> HIDE DEF R
<1>3. ASSUME CalmInv
      PROVE  GetsServed(R) /\ PutsServed(R)
  <2>1. R.items = q.items /\ R.ritems = q.ritems /\ R.rslots = q.rslots
    BY <1>1, <1>3, StateFacts
  <2>2. \A d \in {} : status[d] # "parked"
    OBVIOUS
  <2>3. q.items \in Nat /\ q.ritems \in Nat /\ q.rslots \in Nat
    BY StateFacts DEF QueueFields, SizeAssumption
  <2>4. /\ R.items - R.ritems <= q.items - q.ritems
        /\ q.items + q.rslots <= R.items + R.rslots
    BY <2>1, <2>3
  <2> QED
    BY <1>1, <1>3, <2>2, <2>4, StateFacts, GetsServedKept, PutsServedKept
<1> QED
  BY <1>1, <1>2, <1>3, OperateStep

\* The fields with another number of items that the counts allow
LEMMA ItemsConsistent ==
  ASSUME NEW Q \in QueueFields, Consistent(Q), NEW n \in 0..ItemBound,
         Q.ritems <= n, MaxSize > 0 => n + Q.rslots <= MaxSize
  PROVE  LET M == [Q EXCEPT !.items = n]
         IN  /\ M \in QueueFields
             /\ Consistent(M)
             /\ QueueFollows(Q, M, {})
             /\ M.items = n /\ M.ritems = Q.ritems /\ M.rslots = Q.rslots
<1> DEFINE M == [Q EXCEPT !.items = n]
<1>1. /\ M \in QueueFields
      /\ M.items = n
      /\ M.gets = Q.gets /\ M.greserved = Q.greserved /\ M.ritems = Q.ritems
      /\ M.puts = Q.puts /\ M.preserved = Q.preserved /\ M.rslots = Q.rslots
  BY ItemsFields
<1> HIDE DEF M
<1>2. QueueFollows(Q, M, {})
  BY <1>1, SidesOf DEF QueueFollows
<1>3. Consistent(M)
  BY <1>1 DEF Consistent, Counted
<1> QED
  BY <1>1, <1>2, <1>3 DEF M

\* put_nowait, put() that finds a slot
LEMMA PutNowKeepsIInv ==
  ASSUME SizeAssumption, IInv, PutNow
  PROVE  IInv' /\ InTurn /\ (CalmInv => CalmInv')
<1> DEFINE Q == Cleanup(q)
           M == [Q EXCEPT !.items = Q.items + 1]
           R == WakeConsumers(M)
<1>1. /\ Q \in QueueFields
      /\ Consistent(Q)
      /\ QueueFollows(q, Q, {})
      /\ Q.items = q.items
      /\ (\A c \in Coros : status[c] # "cancelled")
           => Q.ritems = q.ritems /\ Q.rslots = q.rslots
  BY StateFacts, CleanupConsistent
<1>2. HasUnreservedSlot(Q) /\ Q.items < ItemBound /\ Operate(R)
  BY DEF PutNow
<1> HIDE DEF Q
<1>3. Q.items \in Nat /\ Q.ritems \in Nat /\ Q.rslots \in Nat
  BY <1>1 DEF QueueFields, SizeAssumption
<1>4. /\ M \in QueueFields
      /\ Consistent(M)
      /\ QueueFollows(Q, M, {})
      /\ M.items = Q.items + 1 /\ M.rslots = Q.rslots
  <2> DEFINE n == Q.items + 1
  <2>1. /\ n \in 0..ItemBound /\ Q.ritems <= n
        /\ MaxSize > 0 => n + Q.rslots <= MaxSize
    BY <1>1, <1>2, <1>3
       DEF SizeAssumption, HasUnreservedSlot, FreeSlots, Consistent, Counted
  <2>2. M = [Q EXCEPT !.items = n]
    OBVIOUS
  <2> HIDE DEF n, M
  <2>3. /\ M \in QueueFields
        /\ Consistent(M)
        /\ QueueFollows(Q, M, {})
        /\ M.items = n /\ M.rslots = Q.rslots
    BY <1>1, <2>1, <2>2, ItemsConsistent
  <2> QED
    BY <2>3 DEF n
<1> HIDE DEF M
<1>5. /\ R \in QueueFields
      /\ Consistent(R)
      /\ QueueFollows(M, R, {})
      /\ R.items = M.items
      /\ GetsServed(R)
      /\ (\A c \in Coros : status[c] # "cancelled") => R.rslots = M.rslots
  BY <1>4, WakeConsumersConsistent
<1> HIDE DEF R
<1>6. QueueFollows(q, R, {})
  <2>1. QueueFollows(q, M, {})
    BY <1>1, <1>4, QueueFollowsTransitive
  <2> QED
    BY <1>4, <1>5, <2>1, QueueFollowsTransitive
<1>7. ASSUME CalmInv
      PROVE  PutsServed(R)
  <2>1. R.items = q.items + 1 /\ R.rslots = q.rslots
    BY <1>1, <1>4, <1>5, <1>7, StateFacts
  <2>2. \A d \in {} : status[d] # "parked"
    OBVIOUS
  <2>3. q.items + q.rslots <= R.items + R.rslots
    BY <2>1, StateFacts DEF QueueFields, SizeAssumption
  <2> QED
    BY <1>5, <1>6, <1>7, <2>2, <2>3, StateFacts, PutsServedKept
<1> QED
  BY <1>2, <1>5, <1>6, <1>7, OperateStep

\* get_nowait, get() that finds an item
LEMMA GetNowKeepsIInv ==
  ASSUME SizeAssumption, IInv, GetNow
  PROVE  IInv' /\ InTurn /\ (CalmInv => CalmInv')
<1> DEFINE Q == Cleanup(q)
           M == [Q EXCEPT !.items = Q.items - 1]
           R == WakeProducers(M)
<1>1. /\ Q \in QueueFields
      /\ Consistent(Q)
      /\ QueueFollows(q, Q, {})
      /\ Q.items = q.items
      /\ (\A c \in Coros : status[c] # "cancelled")
           => Q.ritems = q.ritems /\ Q.rslots = q.rslots
  BY StateFacts, CleanupConsistent
<1>2. HasUnreservedItem(Q) /\ Operate(R)
  BY DEF GetNow
<1> HIDE DEF Q
<1>3. Q.items \in 0..ItemBound /\ Q.ritems \in Nat /\ Q.rslots \in Nat
  BY <1>1 DEF QueueFields
<1>4. /\ M \in QueueFields
      /\ Consistent(M)
      /\ QueueFollows(Q, M, {})
      /\ M.items = Q.items - 1 /\ M.ritems = Q.ritems
  <2> DEFINE n == Q.items - 1
  <2>1. /\ n \in 0..ItemBound /\ Q.ritems <= n
        /\ MaxSize > 0 => n + Q.rslots <= MaxSize
    BY <1>1, <1>2, <1>3 DEF SizeAssumption, HasUnreservedItem, Consistent, Counted
  <2>2. M = [Q EXCEPT !.items = n]
    OBVIOUS
  <2> HIDE DEF n, M
  <2>3. /\ M \in QueueFields
        /\ Consistent(M)
        /\ QueueFollows(Q, M, {})
        /\ M.items = n /\ M.ritems = Q.ritems
    BY <1>1, <2>1, <2>2, ItemsConsistent
  <2> QED
    BY <2>3 DEF n
<1> HIDE DEF M
<1>5. /\ R \in QueueFields
      /\ Consistent(R)
      /\ QueueFollows(M, R, {})
      /\ R.items = M.items
      /\ PutsServed(R)
      /\ (\A c \in Coros : status[c] # "cancelled") => R.ritems = M.ritems
  BY <1>4, WakeProducersConsistent
<1> HIDE DEF R
<1>6. QueueFollows(q, R, {})
  <2>1. QueueFollows(q, M, {})
    BY <1>1, <1>4, QueueFollowsTransitive
  <2> QED
    BY <1>4, <1>5, <2>1, QueueFollowsTransitive
<1>7. ASSUME CalmInv
      PROVE  GetsServed(R)
  <2>1. R.items = q.items - 1 /\ R.ritems = q.ritems
    BY <1>1, <1>4, <1>5, <1>7, StateFacts
  <2>2. \A d \in {} : status[d] # "parked"
    OBVIOUS
  <2>3. R.items - R.ritems <= q.items - q.ritems
    BY <2>1, StateFacts DEF QueueFields
  <2> QED
    BY <1>5, <1>6, <1>7, <2>2, <2>3, StateFacts, GetsServedKept
<1> QED
  BY <1>2, <1>5, <1>6, <1>7, OperateStep

\* A coroutine resumes; one that waited takes its item or its slot.
LEMMA ResumeKeepsIInv ==
  ASSUME SizeAssumption, IInv, NEW c \in Coros, ResumeCoro(c)
  PROVE  IInv' /\ InTurn /\ (CalmInv => CalmInv')
<1> DEFINE st == [status EXCEPT ![c] = "running"]
<1>1. /\ status[c] = "ready"
      /\ st \in [Coros -> Statuses]
      /\ <<>> \in Seq(Coros)
      /\ \A d \in Coros : \/ st[d] = status[d]
                          \/ d = c /\ st[d] = "running"
  BY StateFacts DEF ResumeCoro, Resume, Statuses
<1>2. status[c] # "parked"
  BY <1>1
<1> HIDE DEF st
<1>3. ASSUME NEW R \in QueueFields, NEW S, Consistent(R), QueueFollows(q, R, S),
             (Waiters(R.gets) \cup Waiters(R.puts)) \cap S = {},
             c \notin (getting \cup putting) \ S,
             Resume(c, Woken(R), WakeOrder(R)),
             q' = R, getting' = getting \ S, putting' = putting \ S,
             aborted' = aborted, CalmInv => GetsServed(R) /\ PutsServed(R)
      PROVE  IInv' /\ InTurn /\ (CalmInv => CalmInv')
  <2>1. SchedTypeOK' /\ status' = Wake(st, Woken(R)) /\ pending' = pending
    BY <1>3, StateFacts, WakeOrderType, ResumeType DEF Resume, st
  <2>2. \A d \in Coros : \/ st[d] = status[d]
                         \/ d \notin ((getting \cup putting) \ S) /\ st[d] # "parked"
    BY <1>1, <1>3
  <2>3. CalmInv => \A d \in Coros : st[d] # "cancelled"
    BY <1>1, StateFacts
  <2>4. IsOperation(R, S, st)
    BY <1>1, <1>3, <2>1, <2>2, <2>3 DEF IsOperation
  <2> QED
    BY <2>1, <2>4, OperationKeepsIInv
<1>4. CASE c \notin getting \cup putting
  <2>1. Resume(c, {}, <<>>) /\ UNCHANGED queueVars
    BY <1>4 DEF ResumeCoro
  <2>2. /\ SchedTypeOK' /\ status' = Wake(st, {}) /\ pending' = pending
    BY <1>1, <2>1, StateFacts, ResumeType DEF Resume, st
  <2>3. Woken(q) = {}
    BY DEF Woken
  <2>4. /\ q' = q /\ aborted' = aborted
        /\ getting' = getting \ {} /\ putting' = putting \ {}
    BY <2>1 DEF queueVars
  <2>5. IsOperation(q, {}, st)
    BY <1>1, <1>4, <2>2, <2>3, <2>4, StateFacts DEF IsOperation
  <2> QED
    BY <2>2, <2>5, OperationKeepsIInv
<1>5. CASE c \in getting
  <2> DEFINE R == ConsumeGet(q, c)
  <2>1. c \in q.greserved /\ c \notin putting
    BY <1>1, <1>5, StateFacts DEF IInv, AwaiterInv
  <2>2. /\ Resume(c, Woken(R), WakeOrder(R))
        /\ q' = R
        /\ aborted' = (aborted \/ ResumedWithoutItem(q, c))
        /\ getting' = getting \ {c} /\ putting' = putting
    BY <1>5, <2>1 DEF ResumeCoro
  <2>3. /\ R \in QueueFields
        /\ Consistent(R)
        /\ QueueFollows(q, R, {c})
        /\ c \notin Waiters(R.gets) \cup Waiters(R.puts)
        /\ q.items > 0
        /\ CalmInv => GetsServed(R) /\ PutsServed(R)
    BY <1>2, <2>1, StateFacts, ConsumeConsistent
  <2> HIDE DEF R
  <2>4. aborted' = aborted
    <3>1. q.items # 0
      BY <2>3, StateFacts DEF QueueFields, SizeAssumption
    <3>2. ~ResumedWithoutItem(q, c)
      BY <2>1, <3>1 DEF ResumedWithoutItem
    <3> QED
      BY <2>2, <3>2 DEF IInv, TypeOK
  <2>5. /\ putting' = putting \ {c}
        /\ (Waiters(R.gets) \cup Waiters(R.puts)) \cap {c} = {}
        /\ c \notin (getting \cup putting) \ {c}
    BY <2>1, <2>2, <2>3
  <2> QED
    BY <1>3, <2>2, <2>3, <2>4, <2>5
<1>6. CASE c \in putting
  <2> DEFINE R == Produce(q, c)
  <2>1. c \in q.preserved /\ c \notin getting
    BY <1>1, <1>6, StateFacts DEF IInv, AwaiterInv
  <2>2. /\ Resume(c, Woken(R), WakeOrder(R))
        /\ q' = R
        /\ aborted' = (aborted \/ ResumedWithoutCapacity(q, c))
        /\ getting' = getting /\ putting' = putting \ {c}
    BY <1>6, <2>1 DEF ResumeCoro
  <2>3. /\ R \in QueueFields
        /\ Consistent(R)
        /\ QueueFollows(q, R, {c})
        /\ c \notin Waiters(R.gets) \cup Waiters(R.puts)
        /\ CalmInv => GetsServed(R) /\ PutsServed(R)
    <3>1. MaxSize > 0
      BY <1>6 DEF IInv, AwaiterInv, SizeAssumption
    <3> QED
      BY <1>2, <2>1, <3>1, StateFacts, ProduceConsistent
  <2> HIDE DEF R
  <2>4. aborted' = aborted
    BY <2>1, <2>2 DEF IInv, TypeOK, ResumedWithoutCapacity
  <2>5. /\ getting' = getting \ {c}
        /\ (Waiters(R.gets) \cup Waiters(R.puts)) \cap {c} = {}
        /\ c \notin (getting \cup putting) \ {c}
    BY <2>1, <2>2, <2>3
  <2> QED
    BY <1>3, <2>2, <2>3, <2>4, <2>5
<1> QED
  BY <1>4, <1>5, <1>6

\* A coroutine ends; it was not waiting.
LEMMA FinishKeepsIInv ==
  ASSUME IInv, NEW c \in Coros, FinishCoro(c)
  PROVE  IInv' /\ InTurn /\ (CalmInv => CalmInv')
<1>1. Finish(c) /\ UNCHANGED queueVars
  BY DEF FinishCoro
<1>2. /\ SchedTypeOK'
      /\ status[c] = "running"
      /\ \A d \in Coros : \/ status'[d] = status[d]
                          \/ d = c /\ status'[d] = "done"
      /\ pending' = pending
  BY <1>1, StateFacts, FinishStep DEF Finish
<1> DEFINE st == [status EXCEPT ![c] = "done"]
<1>3. st \in [Coros -> Statuses] /\ status' = st
  BY <1>1, StateFacts DEF Finish, Statuses
<1> HIDE DEF st
<1>4. Woken(q) = {} /\ status' = Wake(st, {})
  BY <1>3 DEF Woken, Wake
<1>5. c \notin getting \cup putting
  BY <1>2 DEF IInv, AwaiterInv
<1>6. /\ q' = q /\ aborted' = aborted
      /\ getting' = getting \ {} /\ putting' = putting \ {}
  BY <1>1 DEF queueVars
<1>7. IsOperation(q, {}, st)
  BY <1>2, <1>3, <1>4, <1>5, <1>6, StateFacts DEF IsOperation
<1> QED
  BY <1>2, <1>7, OperationKeepsIInv

\* A frame is destroyed; a wait that was still in it gives up what was reserved.
LEMMA DestroyKeepsIInv ==
  ASSUME SizeAssumption, IInv, NEW c \in Coros, DestroyCoro(c)
  PROVE  IInv' /\ InTurn /\ (CalmInv => CalmInv')
<1> DEFINE st == [status EXCEPT ![c] = "gone"]
<1>1. /\ Done(c)
      /\ st \in [Coros -> Statuses]
      /\ <<>> \in Seq(Coros)
      /\ \A d \in Coros : \/ st[d] = status[d]
                          \/ d = c /\ st[d] = "gone"
  BY StateFacts
     DEF DestroyCoro, Destroy, CollectRoot, ReclaimRoot, ReclaimChild, Statuses
<1>2. status[c] # "parked"
  BY <1>1 DEF Done
<1> HIDE DEF st
<1>3. CalmInv => \A d \in Coros : st[d] # "cancelled"
  BY <1>1, StateFacts
<1>4. CASE c \notin getting \cup putting
  <2>1. Destroy(c, {}, <<>>) /\ UNCHANGED queueVars
    BY <1>4 DEF DestroyCoro
  <2>2. SchedTypeOK' /\ status' = Wake(st, {}) /\ pending' = pending
    BY <1>1, <2>1, StateFacts, DestroyStep
       DEF Destroy, CollectRoot, ReclaimRoot, ReclaimChild, st
  <2>3. Woken(q) = {}
    BY DEF Woken
  <2>4. /\ q' = q /\ aborted' = aborted
        /\ getting' = getting \ {} /\ putting' = putting \ {}
    BY <2>1 DEF queueVars
  <2>5. IsOperation(q, {}, st)
    BY <1>1, <1>3, <1>4, <2>2, <2>3, <2>4, StateFacts DEF IsOperation
  <2> QED
    BY <2>2, <2>5, OperationKeepsIInv
<1>5. CASE c \in getting \cup putting
  <2> DEFINE R == IF c \in getting THEN AbandonGet(q, c) ELSE AbandonPut(q, c)
  <2>1. /\ Destroy(c, Woken(R), WakeOrder(R))
        /\ q' = R
        /\ getting' = getting \ {c} /\ putting' = putting \ {c}
        /\ aborted' = aborted
    BY <1>5 DEF DestroyCoro
  <2>2. /\ R \in QueueFields
        /\ Consistent(R)
        /\ QueueFollows(q, R, {c})
    BY <1>2, StateFacts, AbandonConsistent
  <2>3. c \notin Waiters(R.gets) \cup Waiters(R.puts)
    <3>1. CASE c \in getting
      <4>1. c \notin Waiters(q.puts) /\ c \notin Waiters(R.gets)
        BY <1>2, <3>1, StateFacts, AbandonConsistent DEF IInv, AwaiterInv
      <4> HIDE DEF R
      <4> QED
        BY <2>2, <4>1 DEF QueueFollows, Follows
    <3>2. CASE c \notin getting
      <4>1. c \notin Waiters(q.gets) /\ c \notin Waiters(R.puts)
        BY <1>2, <3>2, StateFacts, AbandonConsistent DEF IInv, AwaiterInv
      <4> HIDE DEF R
      <4> QED
        BY <2>2, <4>1 DEF QueueFollows, Follows
    <3> QED
      BY <3>1, <3>2
  <2> HIDE DEF R
  <2>4. SchedTypeOK' /\ status' = Wake(st, Woken(R)) /\ pending' = pending
    BY <2>1, <2>2, StateFacts, WakeOrderType, DestroyStep
       DEF Destroy, CollectRoot, ReclaimRoot, ReclaimChild, st
  <2>5. ~CalmInv
    <3>1. status[c] = "cancelled"
      BY <1>1, <1>5 DEF Done, IInv, AwaiterInv
    <3> QED
      BY <3>1 DEF CalmInv
  <2>6. /\ (Waiters(R.gets) \cup Waiters(R.puts)) \cap {c} = {}
        /\ \A d \in Coros :
             \/ st[d] = status[d]
             \/ d \notin ((getting \cup putting) \ {c}) /\ st[d] # "parked"
    BY <1>1, <2>3
  <2>7. IsOperation(R, {c}, st)
    BY <1>1, <2>1, <2>2, <2>4, <2>5, <2>6 DEF IsOperation
  <2> QED
    BY <2>4, <2>7, OperationKeepsIInv
<1> QED
  BY <1>4, <1>5

\* get() or put() suspends, with no item or no slot for it.
LEMMA SuspendKeepsIInv ==
  ASSUME SizeAssumption, IInv, NEW c \in Coros, SuspendGet(c) \/ SuspendPut(c)
  PROVE  IInv' /\ InTurn /\ (CalmInv => CalmInv')
<1> DEFINE Q == Cleanup(q)
<1>1. /\ Q \in QueueFields
      /\ Consistent(Q)
      /\ QueueFollows(q, Q, {})
      /\ Q.greserved \subseteq q.greserved /\ Q.preserved \subseteq q.preserved
      /\ Q.items = q.items
      /\ (\A d \in Coros : status[d] # "cancelled")
           => Q.ritems = q.ritems /\ Q.rslots = q.rslots
  BY StateFacts, CleanupConsistent
<1>2. /\ Park(c)
      /\ \/ /\ ~HasUnreservedItem(Q)
            /\ q' = [Q EXCEPT !.gets = PushBack(Q.gets, c)]
            /\ getting' = getting \cup {c} /\ putting' = putting
         \/ /\ ~HasUnreservedSlot(Q)
            /\ q' = [Q EXCEPT !.puts = PushBack(Q.puts, c)]
            /\ putting' = putting \cup {c} /\ getting' = getting
  BY DEF SuspendGet, SuspendPut
<1> HIDE DEF Q
<1>3. /\ status[c] = "running"
      /\ status' = [status EXCEPT ![c] = "parked"]
      /\ pending' = pending /\ aborted' = aborted
      /\ SchedTypeOK'
  BY <1>2, StateFacts DEF Park, Running, SchedTypeOK, Statuses, Places
<1>4. \A d \in Coros : status'[d] = IF d = c THEN "parked" ELSE status[d]
  BY <1>3, StateFacts
<1>5. /\ c \notin getting \cup putting
      /\ c \notin Waiters(Q.gets) \cup Waiters(Q.puts)
      /\ Waiters(Q.gets) \subseteq getting
      /\ Waiters(Q.puts) \subseteq putting
  BY <1>1, <1>3 DEF IInv, AwaiterInv, QueueFollows, Follows
<1>6. /\ Q.gets \in ListsOver(Coros) /\ Q.puts \in ListsOver(Coros)
      /\ IsWaitList(Q.gets) /\ IsWaitList(Q.puts)
      /\ Q.greserved \subseteq Waiters(Q.gets)
      /\ Q.preserved \subseteq Waiters(Q.puts)
  BY <1>1 DEF QueueFields, Consistent, Listed
<1>7. /\ PushBack(Q.gets, c) \in ListsOver(Coros)
      /\ Waiters(PushBack(Q.gets, c)) = Waiters(Q.gets) \cup {c}
      /\ IsWaitList(PushBack(Q.gets, c))
      /\ PushBack(Q.puts, c) \in ListsOver(Coros)
      /\ Waiters(PushBack(Q.puts, c)) = Waiters(Q.puts) \cup {c}
      /\ IsWaitList(PushBack(Q.puts, c))
  BY <1>5, <1>6, ListType, ListOrder
<1>8. /\ q' \in QueueFields
      /\ q'.items = Q.items /\ q'.ritems = Q.ritems /\ q'.rslots = Q.rslots
      /\ q'.greserved = Q.greserved /\ q'.preserved = Q.preserved
      /\ \/ q'.gets = PushBack(Q.gets, c) /\ q'.puts = Q.puts
         \/ q'.puts = PushBack(Q.puts, c) /\ q'.gets = Q.gets
      /\ q'.gets = PushBack(Q.gets, c) <=> c \in getting'
      /\ q'.puts = PushBack(Q.puts, c) <=> c \in putting'
  <2>1. Q.gets # PushBack(Q.gets, c) /\ Q.puts # PushBack(Q.puts, c)
    BY <1>5, <1>7
  <2> DEFINE g == PushBack(Q.gets, c)
             p == PushBack(Q.puts, c)
  <2>2. g \in ListsOver(Coros) /\ p \in ListsOver(Coros)
    BY <1>7
  <2>3. g # Q.gets /\ p # Q.puts
    BY <2>1
  <2> HIDE DEF g, p
  <2>4. CASE /\ q' = [Q EXCEPT !.gets = g]
             /\ getting' = getting \cup {c} /\ putting' = putting
    BY <1>1, <1>5, <2>2, <2>3, <2>4 DEF QueueFields, g, p
  <2>5. CASE /\ q' = [Q EXCEPT !.puts = p]
             /\ putting' = putting \cup {c} /\ getting' = getting
    BY <1>1, <1>5, <2>2, <2>3, <2>5 DEF QueueFields, g, p
  <2> QED
    BY <1>2, <2>4, <2>5 DEF g, p
<1>9. TypeOK'
  <2>1. PICK G \in SUBSET Coros : q'.gets \in [G -> SUBSET Coros]
    BY <1>8 DEF QueueFields, ListsOver
  <2>2. PICK P \in SUBSET Coros : q'.puts \in [P -> SUBSET Coros]
    BY <1>8 DEF QueueFields, ListsOver
  <2>3. q' \in QueueType(G, P)
    BY <1>8, <2>1, <2>2 DEF QueueFields, QueueType
  <2>4. getting' \subseteq Coros /\ putting' \subseteq Coros
    BY <1>2, StateFacts
  <2>5. aborted' \in BOOLEAN
    BY <1>3 DEF IInv, TypeOK
  <2> QED
    BY <1>3, <2>3, <2>4, <2>5 DEF TypeOK
<1>10. Listed(q.gets, q.greserved)'
  <2>1. IsWaitList(q'.gets) /\ Waiters(q'.gets) \subseteq Waiters(Q.gets) \cup {c}
    BY <1>6, <1>7, <1>8
  <2>2. q'.greserved \subseteq Waiters(q'.gets)
    BY <1>6, <1>7, <1>8
  <2>3. \A d \in Waiters(q'.gets) :
          /\ status'[d] \in {"parked", "ready", "cancelled"}
          /\ status'[d] = "ready" => d \in q'.greserved
    BY <1>1, <1>4, <1>5, <1>8, <2>1, StateFacts DEF Consistent, Listed
  <2> QED
    BY <2>1, <2>2, <2>3 DEF Listed
<1>11. Listed(q.puts, q.preserved)'
  <2>1. IsWaitList(q'.puts) /\ Waiters(q'.puts) \subseteq Waiters(Q.puts) \cup {c}
    BY <1>6, <1>7, <1>8
  <2>2. q'.preserved \subseteq Waiters(q'.puts)
    BY <1>6, <1>7, <1>8
  <2>3. \A d \in Waiters(q'.puts) :
          /\ status'[d] \in {"parked", "ready", "cancelled"}
          /\ status'[d] = "ready" => d \in q'.preserved
    BY <1>1, <1>4, <1>5, <1>8, <2>1, StateFacts DEF Consistent, Listed
  <2> QED
    BY <2>1, <2>2, <2>3 DEF Listed
<1>12. Consistent(q)'
  <2>1. Waiters(q'.gets) \cap Waiters(q'.puts) = {}
    BY <1>1, <1>5, <1>7, <1>8 DEF Consistent
  <2>2. \A d \in Coros : status'[d] = "parked"
          => d \in Waiters(q'.gets) \cup Waiters(q'.puts)
    BY <1>1, <1>4, <1>7, <1>8 DEF Consistent
  <2>3. Counted(q)'
    BY <1>1, <1>8 DEF Consistent, Counted
  <2> QED
    BY <1>10, <1>11, <2>1, <2>2, <2>3 DEF Consistent
<1>13. AwaiterInv'
  <2>1. /\ Waiters(q'.gets) \subseteq getting'
        /\ Waiters(q'.puts) \subseteq putting'
        /\ getting' \cap putting' = {}
    BY <1>2, <1>5, <1>7, <1>8 DEF IInv, AwaiterInv
  <2>2. \A d \in q'.greserved \cup q'.preserved : status'[d] # "parked"
    BY <1>1, <1>4, <1>5, <1>6, <1>8, StateFacts DEF IInv, AwaiterInv
  <2>3. \A d \in getting' \cup putting' :
          status'[d] \in {"parked", "ready", "cancelled"}
    BY <1>2, <1>4, StateFacts DEF IInv, AwaiterInv
  <2>4. ASSUME NEW d \in getting' \cup putting', status'[d] = "ready"
        PROVE  d \in q'.greserved \cup q'.preserved
    <3>1. d \in getting \cup putting /\ d \in Coros /\ status[d] = "ready"
      BY <1>2, <1>4, <2>4, StateFacts
    <3>2. d \in q.greserved \cup q.preserved /\ Live(d)
      BY <3>1 DEF IInv, AwaiterInv, Live
    <3> QED
      BY <1>1, <1>8, <3>2 DEF QueueFollows, Follows
  <2>5. MaxSize = 0 => putting' = {}
    BY <1>2 DEF IInv, AwaiterInv, HasUnreservedSlot
  <2> QED
    BY <2>1, <2>2, <2>3, <2>4, <2>5 DEF AwaiterInv
<1>14. InTurn
  BY <1>1, <1>8 DEF InTurn
<1>15. ASSUME CalmInv
       PROVE  CalmInv'
  <2>1. /\ \A d \in Coros : status'[d] # "cancelled"
        /\ pending' = <<>>
    BY <1>3, <1>4, <1>15, StateFacts DEF CalmInv
  <2>2. /\ q'.items = q.items /\ q'.ritems = q.ritems /\ q'.rslots = q.rslots
        /\ Q.items = q.items /\ Q.ritems = q.ritems /\ Q.rslots = q.rslots
    BY <1>1, <1>8, <1>15, StateFacts
  <2>3. /\ HasUnreservedItem(q)' <=> HasUnreservedItem(q)
        /\ HasUnreservedSlot(q)' <=> HasUnreservedSlot(q)
        /\ HasUnreservedItem(Q) <=> HasUnreservedItem(q)
        /\ HasUnreservedSlot(Q) <=> HasUnreservedSlot(q)
    BY <2>2 DEF HasUnreservedItem, HasUnreservedSlot, FreeSlots
  <2>4. ASSUME NEW d \in Coros, status'[d] = "parked"
        PROVE  /\ d \in getting' => ~HasUnreservedItem(q)
               /\ d \in putting' => ~HasUnreservedSlot(q)
    BY <1>2, <1>4, <1>5, <1>15, <2>3, <2>4 DEF CalmInv
  <2> QED
    BY <2>1, <2>3, <2>4 DEF CalmInv
<1>16. aborted' = FALSE
  BY <1>3 DEF IInv, TypeOK
<1> QED
  BY <1>9, <1>12, <1>13, <1>14, <1>15, <1>16 DEF IInv

\* Steps that do not touch the queue
LEMMA OtherKeepsIInv ==
  ASSUME IInv, Housekeeping \/ Elsewhere, UNCHANGED queueVars
  PROVE  IInv' /\ InTurn
<1>1. /\ SchedTypeOK'
      /\ \A c \in Coros :
           \/ status'[c] = status[c]
           \/ Live(c) /\ status'[c] = "cancelled"
           \/ /\ status[c] \in {"gone", "sleeping", "running"}
              /\ status'[c] \in {"ready", "sleeping"}
  BY StateFacts, SchedulerStep
<1>2. UNCHANGED <<q, getting, putting, aborted>>
  BY DEF queueVars
<1>3. TypeOK'
  BY <1>1, <1>2 DEF IInv, TypeOK
<1>4. \A c \in getting \cup putting : \/ status'[c] = status[c]
                                      \/ status'[c] = "cancelled"
  BY <1>1, StateFacts DEF IInv, AwaiterInv
<1>5. Consistent(q)'
  <2>1. Listed(q.gets, q.greserved)' /\ Listed(q.puts, q.preserved)'
    BY <1>2, <1>4 DEF IInv, AwaiterInv, Consistent, Listed
  <2>2. \A c \in Coros : status'[c] = "parked"
          => c \in Waiters(q.gets) \cup Waiters(q.puts)
    BY <1>1 DEF IInv, Consistent
  <2>3. Counted(q)' /\ Waiters(q'.gets) \cap Waiters(q'.puts) = {}
    BY <1>2 DEF IInv, Consistent, Counted
  <2> QED
    BY <1>2, <2>1, <2>2, <2>3 DEF Consistent
<1>6. AwaiterInv'
  <2>1. \A c \in q.greserved \cup q.preserved : status'[c] # "parked"
    BY <1>1, StateFacts DEF IInv, AwaiterInv
  <2> QED
    BY <1>2, <1>4, <2>1 DEF IInv, AwaiterInv
<1>7. InTurn
  BY <1>2 DEF InTurn
<1> QED
  BY <1>2, <1>3, <1>5, <1>6, <1>7 DEF IInv

LEMMA OtherKeepsCalm ==
  ASSUME Cancellable = {}, IInv, CalmInv, Housekeeping \/ Elsewhere,
         UNCHANGED queueVars
  PROVE  CalmInv'
<1>1. /\ pending' = <<>>
      /\ \A c \in Coros : status'[c] = "cancelled" => status[c] = "cancelled"
  BY StateFacts, UncancelledStep DEF CalmInv
<1>2. \A c \in Coros : status'[c] = "parked" => status[c] = "parked"
  BY StateFacts, SchedulerStep
<1>3. /\ UNCHANGED <<q, getting, putting>>
      /\ HasUnreservedItem(q)' <=> HasUnreservedItem(q)
      /\ HasUnreservedSlot(q)' <=> HasUnreservedSlot(q)
  BY DEF queueVars, HasUnreservedItem, HasUnreservedSlot, FreeSlots
<1> QED
  BY <1>1, <1>2, <1>3 DEF CalmInv

LEMMA InitIInv ==
  ASSUME SizeAssumption, Init
  PROVE  IInv /\ CalmInv
<1>1. SchedTypeOK /\ status = [c \in Coros |-> "gone"] /\ pending = <<>>
  BY DEF Init, SchedInit, SchedTypeOK, Statuses, Places
<1>2. /\ q = [gets |-> EmptyList, greserved |-> {}, puts |-> EmptyList,
              preserved |-> {}, items |-> 0, ritems |-> 0, rslots |-> 0]
      /\ getting = {} /\ putting = {} /\ aborted = FALSE
  BY DEF Init
<1>3. EmptyList \in [{} -> SUBSET Coros] /\ Waiters(EmptyList) = {}
      /\ IsWaitList(EmptyList)
  BY DEF EmptyList, Waiters, IsWaitList
<1>4. TypeOK
  <2>1. 0 \in 0..ItemBound
    BY DEF SizeAssumption
  <2>2. q \in QueueType({}, {})
    BY <1>2, <1>3, <2>1 DEF QueueType
  <2> QED
    BY <1>1, <1>2, <2>2 DEF TypeOK
<1>5. Consistent(q)
  <2>1. Cardinality({}) = 0
    BY FS_EmptySet
  <2> QED
    BY <1>1, <1>2, <1>3, <2>1 DEF Consistent, Listed, Counted, SizeAssumption
<1>6. AwaiterInv
  BY <1>2, <1>3 DEF AwaiterInv
<1>7. CalmInv
  BY <1>1, <1>2 DEF CalmInv
<1> QED
  BY <1>2, <1>4, <1>5, <1>6, <1>7 DEF IInv

LEMMA NextKeepsIInv ==
  ASSUME SizeAssumption, IInv, [Next]_vars
  PROVE  /\ IInv'
         /\ [InTurn]_vars
         /\ Cancellable = {} /\ CalmInv => CalmInv'
<1>1. CASE \E c \in Coros : SuspendGet(c) \/ SuspendPut(c) \/ ResumeCoro(c)
                              \/ FinishCoro(c) \/ DestroyCoro(c)
  BY <1>1, SuspendKeepsIInv, ResumeKeepsIInv, FinishKeepsIInv, DestroyKeepsIInv
<1>2. CASE Poll
  BY <1>2, PollKeepsIInv
<1>3. CASE PutNow
  BY <1>3, PutNowKeepsIInv
<1>4. CASE GetNow
  BY <1>4, GetNowKeepsIInv
<1>5. CASE (Housekeeping \/ Elsewhere) /\ UNCHANGED queueVars
  BY <1>5, OtherKeepsIInv, OtherKeepsCalm
<1>6. CASE UNCHANGED vars
  BY <1>6
     DEF vars, schedVars, queueVars, IInv, TypeOK, SchedTypeOK, QueueType,
         Consistent, Listed, Counted, AwaiterInv, CalmInv, Live,
         HasUnreservedItem, HasUnreservedSlot, FreeSlots
<1> QED
  BY <1>1, <1>2, <1>3, <1>4, <1>5, <1>6 DEF Next

-----------------------------------------------------------------------------
(* The theorems.                                                           *)

\* The inductive invariant: the types, the lists and counts that agree with the
\* statuses of the coroutines, and no abort.
THEOREM QueueInvariant ==
  ASSUME SizeAssumption
  PROVE  Spec => []IInv
<1>1. Init => IInv
  BY InitIInv
<1>2. IInv /\ [Next]_vars => IInv'
  BY NextKeepsIInv
<1> QED
  BY <1>1, <1>2, PTL DEF Spec

\* Every reservation is backed by an item or a slot and every count is exact,
\* whoever was cancelled; consume_get and produce never abort.
THEOREM QueueReservationsBacked ==
  ASSUME SizeAssumption
  PROVE  Spec => []ReservationsBacked
<1>1. IInv => ReservationsBacked
  BY DEF ReservationsBacked, IInv, Consistent, Backed, NoAbort
<1> QED
  BY <1>1, QueueInvariant, PTL

\* wake_consumers and wake_producers reserve for the oldest parked waiters.
THEOREM QueueOldestFirst ==
  ASSUME SizeAssumption
  PROVE  Spec => OldestFirst
<1>1. ASSUME IInv, [Next]_vars
      PROVE  [InTurn]_vars
  BY <1>1, NextKeepsIInv
<1>2. Spec => []IInv
  BY QueueInvariant
<1> QED
  BY <1>1, <1>2, PTL DEF Spec, OldestFirst, InTurn

\* Where nobody is cancelled, no consumer is left parked beside an item that
\* nobody reserved and no producer beside a free slot, at any moment.
THEOREM QueueNobodyForgotten ==
  ASSUME SizeAssumption, Cancellable = {}
  PROVE  Spec => []NobodyForgotten
<1>1. Init => IInv /\ CalmInv
  BY InitIInv
<1>2. (IInv /\ CalmInv) /\ [Next]_vars => (IInv /\ CalmInv)'
  BY NextKeepsIInv
<1>3. IInv /\ CalmInv => NobodyForgotten
  BY DEF NobodyForgotten, CalmInv, NoneStranded
<1> QED
  BY <1>1, <1>2, <1>3, PTL DEF Spec

-----------------------------------------------------------------------------
(* Event, the primitive whose waiters reserve nothing, on the same          *)
(* scheduler.                                                              *)

VARIABLES set, waiters, bound

Ev == INSTANCE Event

\* Event::cleanup, and what Event keeps (Ev!NobodyForgotten).
Tidy(w) == EraseAll(w, {c \in Waiters(w) : status[c] # "parked"})

EventTypes ==
  SchedTypeOK /\ set \in BOOLEAN /\ waiters \in ListsOver(Coros) /\ bound \in BOOLEAN

EventListed ==
  /\ IsWaitList(waiters)
  /\ \A c \in Coros : status[c] = "parked" => c \in Waiters(waiters)
  /\ Waiters(waiters) # {} => bound

EventKept ==
  EventTypes /\ EventListed /\ (set => \A c \in Coros : status[c] # "parked")

\* Event's instance of the lists and of the scheduler is this module's.
LEMMA EventWords ==
  /\ \A w : Ev!Waiters(w) = Waiters(w) /\ Ev!Cleaned(w) = Tidy(w)
  /\ \A w, c : Ev!PushBack(w, c) = PushBack(w, c)
  /\ \A w, S : Ev!InOrder(w, S) = InOrder(w, S)
  /\ \A st, S : Ev!Wake(st, S) = Wake(st, S)
  /\ Ev!EmptyList = EmptyList
<1>1. \A w : Ev!Waiters(w) = Waiters(w) /\ Ev!Cleaned(w) = Tidy(w)
  BY DEF Ev!Waiters, Waiters, Ev!Cleaned, Tidy, Ev!EraseAll, EraseAll, Ev!Alive
<1>2. \A S : Ev!Cardinality(S) = Cardinality(S)
  BY DEF Ev!Cardinality, Cardinality
<1>3. \A w, S : Ev!InOrder(w, S) = InOrder(w, S)
  <2> SUFFICES ASSUME NEW w, NEW S
               PROVE  Ev!InOrder(w, S) = InOrder(w, S)
    OBVIOUS
  <2>1. \A c : Ev!Rank(w, S, c) = Rank(w, S, c)
    BY <1>2 DEF Ev!Rank, Rank
  <2> QED
    BY <1>2, <2>1 DEF Ev!InOrder, InOrder
<1> QED
  BY <1>1, <1>3 DEF Ev!PushBack, PushBack, Ev!Wake, Wake, Ev!EmptyList, EmptyList

LEMMA EventSchedules ==
  /\ \A c : Ev!Resume(c, {}, <<>>) => Resume(c, {}, <<>>)
  /\ \A c : Ev!Finish(c) => Finish(c)
  /\ \A c : Ev!Destroy(c, {}, <<>>) => Destroy(c, {}, <<>>)
  /\ Ev!Housekeeping => Housekeeping
  /\ Ev!Elsewhere => Elsewhere
<1> USE DEF Ev!Live, Live, Ev!Done, Done, Ev!Running, Running, Ev!Wake, Wake, Ev!Flush, Flush,
            Ev!CancelState, CancelState
<1>1. \A c : Ev!Resume(c, {}, <<>>) => Resume(c, {}, <<>>)
  BY DEF Ev!Resume, Resume
<1>2. \A c : Ev!Finish(c) => Finish(c)
  BY DEF Ev!Finish, Finish
<1>3. \A c : Ev!Destroy(c, {}, <<>>) => Destroy(c, {}, <<>>)
  BY DEF Ev!Destroy, Destroy, Ev!CollectRoot, CollectRoot, Ev!ReclaimRoot, ReclaimRoot,
         Ev!ReclaimChild, ReclaimChild, Ev!Reclaimed, Reclaimed
<1>4. Ev!Housekeeping => Housekeeping
  BY DEF Ev!Housekeeping, Housekeeping, Ev!SkipStale, SkipStale, Ev!ApplyPending, ApplyPending,
         Ev!AppliedAll, AppliedAll, Ev!CollectedRoots, CollectedRoots, Ev!DrainEnd, DrainEnd,
         Ev!ReclaimedAll, ReclaimedAll
<1>5. Ev!Elsewhere => Elsewhere
  BY DEF Ev!Elsewhere, Elsewhere, Ev!Spawn, Spawn, Ev!Trigger, Trigger, Ev!Sleep, Sleep,
         Ev!RequestCancel, RequestCancel, Ev!CancelFromOutside, CancelFromOutside,
         Ev!CancelAwaited, CancelAwaited, Ev!PassBoundary, PassBoundary
<1> QED
  BY <1>1, <1>2, <1>3, <1>4, <1>5

LEMMA EventInvariantIs ==
  (Ev!NobodyForgotten <=> EventKept) /\ (Ev!NobodyForgotten' <=> EventKept')
<1> USE DEF Ev!NobodyForgotten, EventKept, Ev!TypeOK, EventTypes, Ev!Listed, EventListed,
            Ev!SchedTypeOK, SchedTypeOK, Ev!Statuses, Statuses, Ev!Places, Places,
            Ev!ListsOver, ListsOver, Ev!IsWaitList, IsWaitList, Ev!Waiters, Waiters
<1>1. Ev!NobodyForgotten <=> EventKept
  OBVIOUS
<1>2. Ev!NobodyForgotten' <=> EventKept'
  OBVIOUS
<1> QED
  BY <1>1, <1>2

Parked == {c \in Coros : status[c] = "parked"}

LEMMA CleanedFacts ==
  ASSUME EventKept
  PROVE  /\ Tidy(waiters) \in ListsOver(Coros)
         /\ IsWaitList(Tidy(waiters))
         /\ Waiters(Tidy(waiters)) = Parked
         /\ InOrder(Tidy(waiters), Parked) \in Seq(Coros)
<1>1. Waiters(waiters) \subseteq Coros
  BY ListType DEF EventKept, EventTypes
<1>2. /\ Tidy(waiters) \in ListsOver(Coros)
      /\ IsWaitList(Tidy(waiters))
      /\ Waiters(Tidy(waiters))
           = Waiters(waiters) \ {c \in Waiters(waiters) : status[c] # "parked"}
  BY ListType, ListOrder DEF EventKept, EventTypes, EventListed, Tidy
<1>3. Waiters(Tidy(waiters)) = Parked
  BY <1>1, <1>2 DEF EventKept, EventListed, Parked
<1>4. InOrder(Tidy(waiters), Parked) \in Seq(Coros)
  <2>1. Parked \subseteq Coros /\ IsFiniteSet(Parked)
    BY CorosAssumption, FS_Subset DEF Parked
  <2>2. InOrder(Tidy(waiters), Parked) \in Seq(Parked)
    BY <2>1, InOrderType
  <2> QED
    BY <2>1, <2>2
<1> QED
  BY <1>2, <1>3, <1>4

\* The latch as the proofs use it.
LEMMA LatchSteps ==
  /\ (\E c \in Coros : /\ ~set /\ c \notin Parked
                       /\ Parked' = Parked \cup {c} /\ set' = set) => Ev!Promise!Next
  /\ (\E c \in Parked : Parked' = Parked \ {c} /\ set' = set) => Ev!Promise!Next
  /\ set' = TRUE /\ Parked' = {} => Ev!Promise!Next
  /\ set' = FALSE /\ Parked' = Parked => Ev!Promise!Next
  /\ set' = set /\ Parked' = Parked => UNCHANGED Ev!Promise!vars
  BY DEF Parked, Ev!Promise!Next, Ev!Promise!Wait, Ev!Promise!Leave,
         Ev!Promise!Set, Ev!Promise!Clear, Ev!Promise!vars

\* A coroutine begins to wait.
LEMMA EventSuspendStep ==
  ASSUME EventKept, NEW c \in Coros, Ev!Suspend(c)
  PROVE  EventKept' /\ [Ev!Promise!Next]_(Ev!Promise!vars)
<1> DEFINE W == Tidy(waiters)
<1>1. /\ W \in ListsOver(Coros) /\ IsWaitList(W) /\ Waiters(W) = Parked
  BY CleanedFacts
<1>2. /\ ~set /\ set' = set /\ bound' = TRUE
      /\ waiters' = PushBack(W, c)
      /\ status[c] = "running"
      /\ status' = [status EXCEPT ![c] = "parked"]
      /\ pc' = "apply"
      /\ UNCHANGED <<ready, pending, roots, children, outer>>
  BY EventWords DEF Ev!Suspend, Ev!Running
<1> HIDE DEF W
<1>3. c \notin Parked /\ Parked' = Parked \cup {c}
  BY <1>2 DEF EventKept, EventTypes, SchedTypeOK, Parked
<1>4. /\ waiters' \in ListsOver(Coros)
      /\ IsWaitList(waiters')
      /\ Waiters(waiters') = Parked'
  BY <1>1, <1>2, <1>3, ListType, ListOrder
<1>5. EventTypes'
  BY <1>2, <1>4 DEF EventKept, EventTypes, SchedTypeOK, Statuses, Places
<1>6. EventListed'
  BY <1>2, <1>4 DEF EventListed, Parked
<1> QED
  BY <1>2, <1>3, <1>5, <1>6, LatchSteps DEF EventKept

\* Event::set()
LEMMA EventSetStep ==
  ASSUME EventKept, Ev!Set
  PROVE  EventKept' /\ [Ev!Promise!Next]_(Ev!Promise!vars)
<1> DEFINE order == InOrder(Tidy(waiters), Parked)
<1>1. Waiters(Tidy(waiters)) = Parked /\ order \in Seq(Coros)
  BY CleanedFacts
<1>2. /\ set' = TRUE /\ waiters' = EmptyList /\ bound' = FALSE
      /\ status' = Wake(status, Parked)
      /\ ready' = ready \o order
      /\ pc' \in {pc, "drain"}
      /\ UNCHANGED <<pending, roots, children, outer>>
  BY <1>1, EventWords DEF Ev!Set, Ev!Flush
<1> HIDE DEF order
<1>3. SchedTypeOK'
  <2>1. status \in [Coros -> Statuses] /\ pc' \in Places
        /\ outer' \in {"none", "roots", "children"}
    BY <1>2 DEF EventKept, EventTypes, SchedTypeOK, Places
  <2> QED
    BY <1>1, <1>2, <2>1, WakeType DEF EventKept, EventTypes
<1>4. \A c \in Coros : status'[c] # "parked"
  BY <1>2 DEF Wake, Parked
<1>5. EmptyList \in [{} -> SUBSET Coros] /\ Waiters(EmptyList) = {}
      /\ IsWaitList(EmptyList)
  BY DEF EmptyList, Waiters, IsWaitList
<1>6. EventTypes' /\ EventListed'
  BY <1>2, <1>3, <1>4, <1>5 DEF EventTypes, EventListed, ListsOver
<1> QED
  BY <1>2, <1>4, <1>6, LatchSteps DEF EventKept, Parked

\* Event::clear()
LEMMA EventClearStep ==
  ASSUME EventKept, Ev!Clear
  PROVE  EventKept' /\ [Ev!Promise!Next]_(Ev!Promise!vars)
<1>1. /\ set' = FALSE
      /\ waiters' = Tidy(waiters)
      /\ bound' = (bound /\ Waiters(waiters') # {})
      /\ UNCHANGED schedVars
  BY EventWords DEF Ev!Clear, Ev!schedVars, schedVars
<1>2. /\ waiters' \in ListsOver(Coros)
      /\ IsWaitList(waiters')
      /\ Waiters(waiters') = Parked
  BY <1>1, CleanedFacts
<1>3. Parked' = Parked
  BY <1>1 DEF schedVars, Parked
<1>4. bound' \in BOOLEAN
  BY <1>1
<1>5. EventTypes'
  BY <1>1, <1>2, <1>4 DEF EventKept, EventTypes, SchedTypeOK, schedVars
<1>6. EventListed'
  <2>1. Waiters(waiters') # {} => bound
    BY <1>2 DEF EventKept, EventListed, Parked
  <2> QED
    BY <1>1, <1>2, <1>3, <2>1 DEF EventListed, Parked
<1> QED
  BY <1>1, <1>3, <1>5, <1>6, LatchSteps DEF EventKept

\* The steps of the scheduler: who leaves its wait leaves it alone.
LEMMA EventOtherStep ==
  ASSUME EventKept, UNCHANGED <<set, waiters, bound>>,
         \/ \E c \in Coros :
              Resume(c, {}, <<>>) \/ Finish(c) \/ Destroy(c, {}, <<>>)
         \/ Housekeeping \/ Elsewhere
  PROVE  EventKept' /\ [Ev!Promise!Next]_(Ev!Promise!vars)
<1>1. /\ SchedTypeOK /\ set' = set /\ waiters' = waiters /\ bound' = bound
      /\ <<>> \in Seq(Coros)
  BY DEF EventKept, EventTypes
<1>2. SchedTypeOK' /\ (Parked' = Parked \/ \E c \in Parked : Parked' = Parked \ {c})
  <2>1. CASE Housekeeping \/ Elsewhere
    BY <1>1, <2>1, SchedulerStep, OneLeaves DEF Parked
  <2>2. ASSUME NEW c \in Coros, Resume(c, {}, <<>>)
        PROVE  SchedTypeOK' /\ Parked' = Parked
    <3>1. SchedTypeOK'
      BY <1>1, <2>2, ResumeType
    <3>2. Parked' = Parked
      BY <1>1, <2>2 DEF Resume, Wake, Parked, SchedTypeOK
    <3> QED
      BY <3>1, <3>2
  <2>3. ASSUME NEW c \in Coros, Finish(c)
        PROVE  SchedTypeOK' /\ Parked' = Parked
    BY <1>1, <2>3, FinishStep DEF Parked
  <2>4. ASSUME NEW c \in Coros, Destroy(c, {}, <<>>)
        PROVE  SchedTypeOK' /\ Parked' = Parked
    <3>1. /\ SchedTypeOK'
          /\ Done(c)
          /\ status' = Wake([status EXCEPT ![c] = "gone"], {})
      BY <1>1, <2>4, DestroyStep
    <3>2. Parked' = Parked
      BY <1>1, <3>1 DEF Done, Wake, Parked, SchedTypeOK
    <3> QED
      BY <3>1, <3>2
  <2> QED
    BY <2>1, <2>2, <2>3, <2>4
<1>3. EventKept'
  BY <1>1, <1>2 DEF EventKept, EventTypes, EventListed, Parked
<1> QED
  BY <1>1, <1>2, <1>3, LatchSteps

LEMMA EventNextStep ==
  ASSUME EventKept, [Ev!Next]_(Ev!vars)
  PROVE  EventKept' /\ [Ev!Promise!Next]_(Ev!Promise!vars)
<1>1. CASE UNCHANGED Ev!vars
  <2>1. UNCHANGED <<status, ready, pending, roots, children, pc, outer, set, waiters, bound>>
    BY <1>1 DEF Ev!vars, Ev!schedVars, Ev!eventVars
  <2>2. EventKept' /\ set' = set /\ Parked' = Parked
    BY <2>1 DEF EventKept, EventTypes, SchedTypeOK, EventListed, Parked
  <2> QED
    BY <2>2, LatchSteps
<1>2. CASE Ev!Set
  BY <1>2, EventSetStep
<1>3. CASE Ev!Clear
  BY <1>3, EventClearStep
<1>4. ASSUME NEW c \in Coros, Ev!Suspend(c)
      PROVE  EventKept' /\ [Ev!Promise!Next]_(Ev!Promise!vars)
  BY <1>4, EventSuspendStep
<1>5. CASE /\ \/ \E c \in Coros : Ev!Resume(c, {}, <<>>) \/ Ev!Finish(c) \/ Ev!Destroy(c, {}, <<>>)
              \/ Ev!Housekeeping \/ Ev!Elsewhere
           /\ UNCHANGED Ev!eventVars
  <2>1. UNCHANGED <<set, waiters, bound>>
    BY <1>5 DEF Ev!eventVars
  <2>2. \/ \E c \in Coros : Resume(c, {}, <<>>) \/ Finish(c) \/ Destroy(c, {}, <<>>)
        \/ Housekeeping \/ Elsewhere
    BY <1>5, EventSchedules
  <2> QED
    BY <2>1, <2>2, EventOtherStep
<1> QED
  BY <1>1, <1>2, <1>3, <1>4, <1>5 DEF Ev!Next

LEMMA EventInitStep ==
  ASSUME Ev!Init
  PROVE  EventKept /\ Ev!Promise!Init
<1>1. EmptyList \in [{} -> SUBSET Coros] /\ Waiters(EmptyList) = {}
      /\ IsWaitList(EmptyList)
  BY DEF EmptyList, Waiters, IsWaitList
<1>2. SchedInit /\ set = FALSE /\ waiters = EmptyList /\ bound = FALSE
  BY EventWords DEF Ev!Init, Ev!SchedInit, SchedInit
<1>3. EventTypes
  <2>1. SchedTypeOK
    BY <1>2 DEF SchedInit, SchedTypeOK, Statuses, Places
  <2>2. EmptyList \in ListsOver(Coros)
    BY <1>1 DEF ListsOver
  <2> QED
    BY <1>2, <2>1, <2>2 DEF EventTypes
<1> QED
  BY <1>1, <1>2, <1>3 DEF SchedInit, EventKept, EventListed, Ev!Promise!Init

\* Event::set() finds every coroutine that waits: it is in the list, which
\* belongs to a scheduler, and nobody waits for an event that is set.
THEOREM EventNobodyForgotten == Ev!Spec => []Ev!NobodyForgotten
<1>1. Ev!Init => Ev!NobodyForgotten
  BY EventInitStep, EventInvariantIs
<1>2. Ev!NobodyForgotten /\ [Ev!Next]_(Ev!vars) => Ev!NobodyForgotten'
  BY EventNextStep, EventInvariantIs
<1> QED
  BY <1>1, <1>2, PTL DEF Ev!Spec

\* Event is a Latch: set() releases everybody who waits in one step, a cancelled
\* coroutine leaves alone, and nothing else ends or begins a wait.
THEOREM EventIsLatch == Ev!Spec => Ev!IsLatch
<1>1. Ev!Init => Ev!Promise!Init
  BY EventInitStep
<1>2. Ev!NobodyForgotten /\ [Ev!Next]_(Ev!vars) => [Ev!Promise!Next]_(Ev!Promise!vars)
  BY EventNextStep, EventInvariantIs
<1> QED
  BY <1>1, <1>2, EventNobodyForgotten, PTL DEF Ev!Spec, Ev!IsLatch, Ev!Promise!Spec
=============================================================================
