--------------------------- MODULE SemaphoreProofs ---------------------------
(***************************************************************************)
(* Semaphore.tla keeps its inductive invariant for every finite set of     *)
(* coroutines, whoever is cancelled: no permit is lost or duplicated, none *)
(* is banked beside a parked waiter, finish_acquire never aborts.          *)
(*                                                                         *)
(* The argument follows the permits: dispatch(n) adds n to the total of    *)
(* banked and reserved permits, erase takes the reserved ones of the       *)
(* erased waiters away, so cleanup and abandon, which dispatch what they   *)
(* erased, keep the total.                                                 *)
(***************************************************************************)
EXTENDS Semaphore, CoroutineProofs

SemFields ==
  [waiters : ListsOver(Coros), reserved : SUBSET Coros, permits : Nat]

\* The permits in the semaphore, banked or reserved.
Total(M) == M.permits + Cardinality(M.reserved)

\* M2 comes from M1 by a member function: the list only shrinks, a new
\* reservation is for a parked waiter, and a reserved waiter that was woken
\* already keeps its reservation, unless it is in S.
Follows(M1, M2, S) ==
  /\ Waiters(M2.waiters) \subseteq Waiters(M1.waiters)
  /\ \A c \in Waiters(M2.waiters) : M2.waiters[c] \subseteq M1.waiters[c]
  /\ \A c \in M2.reserved \ M1.reserved : c \in Coros /\ status[c] = "parked"
  /\ \A c \in M1.reserved \ S : status[c] = "ready" => c \in M2.reserved

\* Every waiter with a permit in M2 but not in M1 has only waiters with permits,
\* or waiters that are gone, in front of it.
InTurn(M1, M2) ==
  \A c \in M2.reserved \ M1.reserved :
    \A d \in M2.waiters[c] : status[d] = "parked" => d \in M2.reserved

\* The type of the fields in the form the proofs use.
LEMMA FieldsType ==
  (\E W \in SUBSET Coros : sem \in SemType(W)) <=> sem \in SemFields
<1>1. ASSUME NEW W \in SUBSET Coros, sem \in SemType(W)
      PROVE  sem \in SemFields
  <2>1. [W -> SUBSET Coros] \subseteq ListsOver(Coros)
    BY DEF ListsOver
  <2> QED
    BY <1>1, <2>1 DEF SemType, SemFields
<1>2. ASSUME sem \in SemFields
      PROVE  \E W \in SUBSET Coros : sem \in SemType(W)
  <2>1. PICK W \in SUBSET Coros : sem.waiters \in [W -> SUBSET Coros]
    BY <1>2 DEF SemFields, ListsOver
  <2>2. sem \in SemType(W)
    BY <1>2, <2>1 DEF SemFields, SemType
  <2> QED
    BY <2>2
<1> QED
  BY <1>1, <1>2

\* The sets of coroutines are finite, and so the totals are numbers.
LEMMA TotalType ==
  ASSUME NEW M \in SemFields
  PROVE  /\ IsFiniteSet(M.reserved)
         /\ Cardinality(M.reserved) \in Nat
         /\ Total(M) \in Nat
<1>1. M.reserved \in SUBSET Coros /\ M.permits \in Nat
  BY DEF SemFields
<1>2. IsFiniteSet(M.reserved) /\ Cardinality(M.reserved) \in Nat
  BY <1>1, CorosAssumption, FS_Subset, FS_CardinalityType
<1> QED
  BY <1>1, <1>2 DEF Total

\* Erasing waiters that are not parked.
LEMMA EraseConsistent ==
  ASSUME NEW M \in SemFields, Consistent(M), NEW S,
         \A c \in S : c \in Coros => status[c] # "parked"
  PROVE  LET E == Erase(M, S)
         IN  /\ E \in SemFields
             /\ Consistent(E)
             /\ Waiters(E.waiters) = Waiters(M.waiters) \ S
             /\ E.reserved = M.reserved \ S
             /\ E.permits = M.permits
             /\ \A c \in Waiters(E.waiters) : E.waiters[c] = M.waiters[c] \ S
             /\ Total(E) = Total(M) - Cardinality(S \cap M.reserved)
<1> DEFINE E == Erase(M, S)
<1>1. M.waiters \in ListsOver(Coros) /\ IsWaitList(M.waiters)
  BY DEF SemFields, Consistent
<1>2. /\ EraseAll(M.waiters, S) \in ListsOver(Coros)
      /\ Waiters(EraseAll(M.waiters, S)) = Waiters(M.waiters) \ S
      /\ IsWaitList(EraseAll(M.waiters, S))
  BY <1>1, ListType, ListOrder
<1>3. \A c \in Waiters(M.waiters) \ S :
        EraseAll(M.waiters, S)[c] = M.waiters[c] \ S
  BY DEF EraseAll, Waiters
<1>4. /\ E \in SemFields
      /\ E.waiters = EraseAll(M.waiters, S)
      /\ E.reserved = M.reserved \ S
      /\ E.permits = M.permits
  BY <1>2 DEF Erase, SemFields
<1>5. Cardinality(M.reserved \ S)
        = Cardinality(M.reserved) - Cardinality(S \cap M.reserved)
  <2>1. IsFiniteSet(M.reserved)
    BY TotalType
  <2>2. Cardinality(M.reserved \ S)
          = Cardinality(M.reserved) - Cardinality(M.reserved \cap S)
    BY <2>1, FS_Difference
  <2>3. M.reserved \cap S = S \cap M.reserved
    OBVIOUS
  <2> QED
    BY <2>2, <2>3
<1> HIDE DEF E
<1>6. Consistent(E)
  BY <1>2, <1>4 DEF Consistent
<1>7. Total(E) = Total(M) - Cardinality(S \cap M.reserved)
  <2>1. /\ Cardinality(M.reserved) \in Nat
        /\ Cardinality(S \cap M.reserved) \in Nat
        /\ M.permits \in Nat
    <3>1. IsFiniteSet(M.reserved) /\ Cardinality(M.reserved) \in Nat
      BY TotalType
    <3>2. IsFiniteSet(S \cap M.reserved)
      BY <3>1, FS_Intersection
    <3> QED
      BY <3>1, <3>2, FS_CardinalityType DEF SemFields
  <2> QED
    BY <1>4, <1>5, <2>1 DEF Total
<1> QED
  BY <1>2, <1>3, <1>4, <1>6, <1>7 DEF E

\* dispatch(n) of n permits
LEMMA DispatchConsistent ==
  ASSUME NEW M \in SemFields, Consistent(M), NEW n \in Nat
  PROVE  LET R == Dispatch(M, n)
         IN  /\ R \in SemFields
             /\ Consistent(R)
             /\ Total(R) = Total(M) + n
             /\ Follows(M, R, {})
             /\ M.reserved \subseteq R.reserved
             /\ InTurn(M, R)
<1> DEFINE open == Waiters(M.waiters) \ M.reserved
           wakeable == {c \in open : status[c] = "parked"}
           lucky == FirstOf(M.waiters, wakeable, n)
           banked == n - Cardinality(lucky)
           failed == IF banked > 0 THEN open \ wakeable
                     ELSE {c \in open \ wakeable :
                             \E d \in lucky : c \in M.waiters[d]}
           E == Erase(M, failed)
           R == Dispatch(M, n)
<1>1. /\ M.waiters \in ListsOver(Coros)
      /\ IsWaitList(M.waiters)
      /\ Waiters(M.waiters) \subseteq Coros
      /\ M.reserved \in SUBSET Coros
      /\ M.permits \in Nat
  BY ListType DEF SemFields, Consistent
<1>2. wakeable \in SUBSET DOMAIN M.waiters /\ IsFiniteSet(wakeable)
  <2>1. wakeable \in SUBSET Coros
    BY <1>1
  <2> QED
    BY <2>1, CorosAssumption, FS_Subset DEF Waiters
<1>3. /\ lucky \subseteq wakeable
      /\ IsFiniteSet(lucky)
      /\ Cardinality(lucky) \in 0..n
      /\ Cardinality(lucky) < n => lucky = wakeable
      /\ \A c \in lucky : \A d \in M.waiters[c] \cap wakeable : d \in lucky
  <2> HIDE DEF wakeable
  <2> QED
    BY <1>1, <1>2, FirstMembers
<1>4. /\ banked \in Nat
      /\ banked > 0 => lucky = wakeable
      /\ banked + Cardinality(lucky) = n
      /\ Cardinality(lucky) \in Nat
  <2> HIDE DEF lucky, wakeable
  <2> QED
    BY <1>3
<1>5. failed \subseteq open \ wakeable
  OBVIOUS
<1>6. /\ E \in SemFields
      /\ Consistent(E)
      /\ Waiters(E.waiters) = Waiters(M.waiters) \ failed
      /\ E.reserved = M.reserved \ failed
      /\ E.permits = M.permits
      /\ \A c \in Waiters(E.waiters) : E.waiters[c] = M.waiters[c] \ failed
  <2>1. \A c \in failed : c \in Coros => status[c] # "parked"
    BY <1>5
  <2> HIDE DEF failed
  <2> QED
    BY <2>1, EraseConsistent
<1>7. R = [E EXCEPT !.reserved = M.reserved \cup lucky,
                    !.permits = M.permits + banked]
  BY DEF Dispatch
<1>8. lucky \subseteq Coros /\ lucky \cap M.reserved = {}
  BY <1>1, <1>3
<1>9. \A c \in Coros : status[c] = "parked" => c \in M.reserved \cup wakeable
  BY DEF Consistent
<1>10. \A c \in lucky : status[c] = "parked" /\ c \in Waiters(M.waiters)
  BY <1>3
<1>11. \A c \in lucky : c \notin failed
  BY <1>3, <1>5
<1>12. M.reserved \cap failed = {} /\ \A c \in failed : status[c] # "parked"
  BY <1>5
<1>13. M.permits > 0 => wakeable = {}
  BY DEF Consistent
<1> HIDE DEF open, wakeable, lucky, banked, failed, E, R
<1>14. /\ R \in SemFields
       /\ R.waiters = E.waiters
       /\ R.reserved = M.reserved \cup lucky
       /\ R.permits = M.permits + banked
  <2>1. M.reserved \cup lucky \in SUBSET Coros /\ M.permits + banked \in Nat
    BY <1>1, <1>4, <1>8
  <2> DEFINE reserved == M.reserved \cup lucky
             permits == M.permits + banked
  <2> HIDE DEF reserved, permits
  <2>2. R = [E EXCEPT !.reserved = reserved, !.permits = permits]
    BY <1>7 DEF reserved, permits
  <2>3. reserved \in SUBSET Coros /\ permits \in Nat
    BY <2>1 DEF reserved, permits
  <2>4. /\ R \in SemFields
        /\ R.waiters = E.waiters
        /\ R.reserved = reserved
        /\ R.permits = permits
    BY <1>6, <2>2, <2>3 DEF SemFields
  <2> QED
    BY <2>4 DEF reserved, permits
<1>15. Consistent(R)
  <2>1. /\ IsWaitList(R.waiters)
        /\ R.reserved \subseteq Waiters(R.waiters)
        /\ \A c \in Coros : status[c] = "parked" => c \in Waiters(R.waiters)
    BY <1>6, <1>10, <1>11, <1>12, <1>14 DEF Consistent
  <2>2. \A c \in Waiters(R.waiters) :
          /\ status[c] \in {"parked", "ready", "cancelled"}
          /\ status[c] = "ready" => c \in R.reserved
    BY <1>6, <1>14 DEF Consistent
  <2>3. ASSUME NEW c \in Waiters(R.waiters), status[c] = "parked", R.permits > 0
        PROVE  c \in R.reserved
    <3>1. c \in Coros
      BY <1>1, <1>6, <1>14
    <3>2. c \in M.reserved \cup wakeable
      BY <1>9, <2>3, <3>1
    <3>3. M.permits > 0 \/ banked > 0
      BY <1>1, <1>4, <1>14, <2>3
    <3> QED
      BY <1>4, <1>13, <1>14, <3>2, <3>3
  <2> QED
    BY <2>1, <2>2, <2>3 DEF Consistent
<1>16. Total(R) = Total(M) + n
  <2>1. IsFiniteSet(M.reserved) /\ Cardinality(M.reserved) \in Nat
    BY TotalType
  <2>2. Cardinality(M.reserved \cup lucky)
          = Cardinality(M.reserved) + Cardinality(lucky)
    <3>1. Cardinality(M.reserved \cup lucky)
            = Cardinality(M.reserved) + Cardinality(lucky)
                - Cardinality(M.reserved \cap lucky)
      BY <1>3, <2>1, FS_Union
    <3>2. M.reserved \cap lucky = {}
      BY <1>8
    <3>3. Cardinality(M.reserved \cap lucky) = 0
      BY <3>2, FS_EmptySet
    <3> QED
      BY <1>4, <2>1, <3>1, <3>3
  <2> QED
    BY <1>1, <1>4, <1>14, <2>1, <2>2 DEF Total
<1>17. Follows(M, R, {}) /\ M.reserved \subseteq R.reserved
  BY <1>6, <1>8, <1>10, <1>14 DEF Follows
<1>18. InTurn(M, R)
  <2> SUFFICES ASSUME NEW c \in R.reserved \ M.reserved,
                      NEW d \in R.waiters[c], status[d] = "parked"
               PROVE  d \in R.reserved
    BY DEF InTurn
  <2>1. c \in lucky /\ c \in Waiters(R.waiters)
    BY <1>6, <1>10, <1>11, <1>14
  <2>2. d \in M.waiters[c]
    BY <1>6, <1>14, <2>1
  <2>3. d \in Coros
    BY <1>1, <1>10, <2>1, <2>2 DEF IsWaitList, Waiters
  <2>4. d \in M.reserved \cup wakeable
    BY <1>9, <2>3
  <2> QED
    BY <1>3, <1>14, <2>1, <2>2, <2>4
<1> QED
  BY <1>14, <1>15, <1>16, <1>17, <1>18 DEF R

\* cleanup loses no permit and hands out none twice.
LEMMA CleanupConsistent ==
  ASSUME NEW M \in SemFields, Consistent(M)
  PROVE  LET C == Cleanup(M)
         IN  /\ C \in SemFields
             /\ Consistent(C)
             /\ Total(C) = Total(M)
             /\ Follows(M, C, {})
             /\ InTurn(M, C)
<1> DEFINE dead == {c \in Waiters(M.waiters) : ~Live(c)}
           returned == Cardinality(dead \cap M.reserved)
           E == Erase(M, dead)
<1>1. /\ E \in SemFields
      /\ Consistent(E)
      /\ Waiters(E.waiters) = Waiters(M.waiters) \ dead
      /\ \A c \in Waiters(E.waiters) : E.waiters[c] = M.waiters[c] \ dead
      /\ E.reserved = M.reserved \ dead
      /\ Total(E) = Total(M) - returned
  <2>1. \A c \in dead : c \in Coros => status[c] # "parked"
    BY DEF Live
  <2> HIDE DEF dead
  <2> QED
    BY <2>1, EraseConsistent
<1>2. returned \in Nat
  <2>1. IsFiniteSet(dead \cap M.reserved)
    BY TotalType, FS_Intersection
  <2> QED
    BY <2>1, FS_CardinalityType
<1>3. \A c \in M.reserved : status[c] \in {"ready", "parked"} => c \in E.reserved
  BY <1>1 DEF Live
<1>4. CASE returned = 0
  <2>1. Cleanup(M) = E
    BY <1>4 DEF Cleanup
  <2> HIDE DEF E, returned
  <2> QED
    BY <1>1, <1>3, <1>4, <2>1, TotalType DEF Follows, InTurn
<1>5. CASE returned # 0
  <2> DEFINE R == Dispatch(E, returned)
  <2>1. Cleanup(M) = R
    BY <1>5 DEF Cleanup
  <2> HIDE DEF E, returned
  <2>2. /\ R \in SemFields
        /\ Consistent(R)
        /\ Total(R) = Total(E) + returned
        /\ Follows(E, R, {})
        /\ E.reserved \subseteq R.reserved
        /\ InTurn(E, R)
    BY <1>1, <1>2, DispatchConsistent
  <2> HIDE DEF R, dead
  <2>3. Total(R) = Total(M)
    BY <1>1, <1>2, <2>2, TotalType
  <2>4. Follows(M, R, {})
    BY <1>1, <1>3, <2>2 DEF Follows
  <2>5. InTurn(M, R)
    BY <1>1, <2>2 DEF InTurn
  <2> QED
    BY <2>1, <2>2, <2>3, <2>4, <2>5
<1> QED
  BY <1>4, <1>5

\* Operations in sequence.
LEMMA FollowsTransitive ==
  ASSUME NEW M1, NEW M2, NEW M3, NEW S, Follows(M1, M2, S), Follows(M2, M3, {})
  PROVE  Follows(M1, M3, S)
  BY DEF Follows

\* finish_acquire, and abandon up to its cleanup: the permit that was reserved
\* for c leaves the semaphore, all others stay.
LEMMA LeaveConsistent ==
  ASSUME NEW M \in SemFields, Consistent(M), NEW c \in Coros,
         status[c] # "parked"
  PROVE  LET C == Cleanup(Erase(M, {c}))
         IN  /\ C \in SemFields
             /\ Consistent(C)
             /\ Total(C) = Total(M) - (IF c \in M.reserved THEN 1 ELSE 0)
             /\ Follows(M, C, {c})
             /\ InTurn(M, C)
             /\ c \notin Waiters(C.waiters)
<1> DEFINE E == Erase(M, {c})
           C == Cleanup(E)
<1>1. /\ E \in SemFields
      /\ Consistent(E)
      /\ Waiters(E.waiters) = Waiters(M.waiters) \ {c}
      /\ \A d \in Waiters(E.waiters) : E.waiters[d] = M.waiters[d] \ {c}
      /\ E.reserved = M.reserved \ {c}
      /\ Total(E) = Total(M) - Cardinality({c} \cap M.reserved)
  BY EraseConsistent
<1> HIDE DEF E
<1>2. /\ C \in SemFields
      /\ Consistent(C)
      /\ Total(C) = Total(E)
      /\ Follows(E, C, {})
      /\ InTurn(E, C)
  BY <1>1, CleanupConsistent
<1> HIDE DEF C
<1>3. Cardinality({c} \cap M.reserved) = IF c \in M.reserved THEN 1 ELSE 0
  <2>1. {c} \cap M.reserved = M.reserved \cap {c}
    OBVIOUS
  <2> QED
    BY <2>1, SingletonCount
<1>4. c \notin C.reserved
  BY <1>1, <1>2 DEF Follows, Consistent
<1>5. Follows(M, C, {c}) /\ InTurn(M, C) /\ c \notin Waiters(C.waiters)
  BY <1>1, <1>2, <1>4 DEF Follows, InTurn
<1> QED
  BY <1>1, <1>2, <1>3, <1>5 DEF C, E

\* The wakes of an operation are coroutines, and their order is a sequence.
LEMMA WakeOrderType ==
  ASSUME NEW M \in SemFields
  PROVE  WakeOrder(M) \in Seq(Coros) /\ Woken(M) \subseteq Coros
<1>1. Woken(M) \subseteq Coros
  BY DEF Woken, SemFields
<1>2. IsFiniteSet(Woken(M))
  BY <1>1, CorosAssumption, FS_Subset
<1>3. WakeOrder(M) \in Seq(Woken(M))
  BY <1>2, InOrderType DEF WakeOrder
<1> QED
  BY <1>1, <1>3

\* What every step that wakes has in common: it sets the fields to M, wakes whom
\* M newly reserves, takes the members of S off the set of awaiters, and accounts
\* for the permits.
LEMMA OperationKeepsIInv ==
  ASSUME IInv, NEW M \in SemFields, Consistent(M), NEW S, Follows(sem, M, S),
         Waiters(M.waiters) \cap S = {},
         NEW st \in [Coros -> Statuses],
         \A d \in Coros : \/ st[d] = status[d]
                          \/ d \notin (awaiter \ S) /\ st[d] # "parked",
         SchedTypeOK', status' = Wake(st, Woken(M)), sem' = M,
         awaiter' = awaiter \ S, aborted' = aborted,
         owed' \in {0, 1}, credit' \in 0..MaxPermits,
         Total(M) + owed' = credit'
  PROVE  IInv'
<1>1. TypeOK'
  <2>1. (sem \in SemFields)'
    OBVIOUS
  <2>2. (\E W \in SUBSET Coros : sem \in SemType(W))'
    <3>1. PICK W \in SUBSET Coros : M.waiters \in [W -> SUBSET Coros]
      BY DEF SemFields, ListsOver
    <3>2. sem' \in SemType(W)
      BY <3>1 DEF SemFields, SemType
    <3> QED
      BY <3>2
  <2> QED
    BY <2>2 DEF IInv, TypeOK
<1>2. /\ Waiters(M.waiters) \subseteq awaiter \ S
      /\ Waiters(M.waiters) \subseteq Coros
  BY DEF IInv, AwaiterInv, Follows, TypeOK
<1>3. \A d \in Coros : status'[d] = IF d \in M.reserved \ sem.reserved
                                    THEN "ready" ELSE st[d]
  BY DEF Wake, Woken
<1>4. \A d \in M.reserved : status'[d] # "parked"
  BY <1>2, <1>3 DEF Consistent, IInv, AwaiterInv
<1>5. Consistent(sem)'
  BY <1>2, <1>3, <1>4 DEF Consistent
<1>6. ASSUME NEW d \in awaiter \ S
      PROVE  /\ status'[d] \in {"parked", "ready", "cancelled"}
             /\ status'[d] = "ready" => d \in M.reserved
  <2>1. d \in Coros /\ st[d] = status[d]
    BY DEF IInv, TypeOK
  <2>2. /\ status[d] \in {"parked", "ready", "cancelled"}
        /\ status[d] = "ready" => d \in M.reserved
    BY DEF IInv, AwaiterInv, Follows
  <2> QED
    BY <1>3, <2>1, <2>2
<1>7. AwaiterInv'
  BY <1>2, <1>4, <1>6 DEF AwaiterInv
<1>8. PermitConservation'
  BY DEF PermitConservation, Total
<1> QED
  BY <1>1, <1>5, <1>7, <1>8 DEF IInv

-----------------------------------------------------------------------------
(* The actions.                                                            *)

\* The facts about a state of the invariant that the lemmas below use.
LEMMA StateFacts ==
  ASSUME IInv
  PROVE  /\ SchedTypeOK
         /\ status \in [Coros -> Statuses]
         /\ pc \in Places
         /\ outer \in {"none", "roots", "children"}
         /\ sem \in SemFields
         /\ Consistent(sem)
         /\ Waiters(sem.waiters) \subseteq Coros
         /\ awaiter \subseteq Coros
         /\ owed \in {0, 1}
         /\ credit \in 0..MaxPermits
         /\ Total(sem) \in Nat
         /\ Total(sem) + owed = credit
<1>1. sem \in SemFields
  BY FieldsType DEF IInv, TypeOK
<1>2. Waiters(sem.waiters) \subseteq awaiter /\ awaiter \subseteq Coros
  BY DEF IInv, AwaiterInv, TypeOK
<1> QED
  BY <1>1, <1>2, TotalType
     DEF IInv, TypeOK, SchedTypeOK, PermitConservation, Total

\* An operation of a running coroutine or of the code outside.
LEMMA GoOnStep ==
  ASSUME IInv, NEW M \in SemFields, GoOn(M)
  PROVE  SchedTypeOK' /\ status' = Wake(status, Woken(M))
<1>1. WakeOrder(M) \in Seq(Coros)
  BY WakeOrderType
<1>2. pc' \in Places /\ outer' \in {"none", "roots", "children"}
  BY StateFacts DEF GoOn, Flush, Places
<1> QED
  BY <1>1, <1>2, StateFacts, WakeType DEF GoOn

\* try_acquire, acquire that finds a permit, available
LEMMA TakeKeepsIInv ==
  ASSUME IInv, MaxPermits \in Nat, TryAcquire \/ MainPoll
  PROVE  IInv'
<1> DEFINE M == Cleanup(sem)
<1>1. /\ M \in SemFields
      /\ Consistent(M)
      /\ Total(M) = Total(sem)
      /\ Follows(sem, M, {})
  BY StateFacts, CleanupConsistent
<1>2. /\ GoOn(M) /\ UNCHANGED <<awaiter, owed, aborted>>
      /\ \/ sem' = M /\ credit' = credit
         \/ /\ sem' = Take(M)
            /\ credit' = IF M.permits = 0 THEN credit ELSE credit - 1
  BY DEF TryAcquire, MainPoll
<1> HIDE DEF M
<1>3. PICK T \in SemFields : /\ sem' = T
                             /\ T.waiters = M.waiters
                             /\ T.reserved = M.reserved
                             /\ T.permits \in Nat
                             /\ T.permits <= M.permits
                             /\ credit' = credit - (M.permits - T.permits)
  <2>1. M.permits \in Nat /\ credit \in Nat
    BY <1>1, StateFacts DEF SemFields
  <2>2. CASE sem' = M /\ credit' = credit
    BY <1>1, <2>1, <2>2
  <2>3. CASE /\ sem' = Take(M)
             /\ credit' = IF M.permits = 0 THEN credit ELSE credit - 1
    <3> DEFINE left == IF M.permits = 0 THEN 0 ELSE M.permits - 1
    <3>1. Take(M) = [M EXCEPT !.permits = left] /\ left \in Nat
      BY <2>1 DEF Take
    <3>2. credit' = credit - (M.permits - left) /\ left <= M.permits
      BY <2>1, <2>3
    <3> HIDE DEF left
    <3>3. /\ Take(M) \in SemFields
          /\ Take(M).waiters = M.waiters
          /\ Take(M).reserved = M.reserved
          /\ Take(M).permits = left
      BY <1>1, <3>1 DEF SemFields
    <3> QED
      BY <2>3, <3>1, <3>2, <3>3
  <2> QED
    BY <1>2, <2>2, <2>3
<1>4. Consistent(T) /\ Follows(sem, T, {}) /\ Woken(T) = Woken(M)
  <2>1. M.permits \in Nat
    BY <1>1 DEF SemFields
  <2> QED
    BY <1>1, <1>3, <2>1 DEF Consistent, Follows, Woken
<1>5. Total(T) + owed' = credit' /\ credit' \in 0..MaxPermits
  <2>1. Total(T) \in Nat /\ Total(T) = Total(M) - (M.permits - T.permits)
    <3>1. M.permits \in Nat /\ Cardinality(M.reserved) \in Nat
      BY <1>1, TotalType DEF SemFields
    <3> QED
      BY <1>3, <3>1, TotalType DEF Total
  <2>2. /\ owed' = owed /\ owed \in {0, 1}
        /\ M.permits \in Nat
        /\ Total(M) + owed = credit
        /\ credit \in 0..MaxPermits
        /\ Total(M) \in Nat
    BY <1>1, <1>2, StateFacts DEF SemFields
  <2> QED
    BY <1>3, <2>1, <2>2
<1>6. SchedTypeOK' /\ status' = Wake(status, Woken(T))
  BY <1>1, <1>2, <1>4, GoOnStep
<1>7. awaiter' = awaiter \ {} /\ Waiters(T.waiters) \cap {} = {}
  BY <1>2
<1> QED
  BY <1>2, <1>3, <1>4, <1>5, <1>6, <1>7, StateFacts, OperationKeepsIInv

\* release(n)
LEMMA ReleaseKeepsIInv ==
  ASSUME IInv, MaxPermits \in Nat, NEW n \in 1..MaxPermits, Release(n)
  PROVE  IInv'
<1> DEFINE C == Cleanup(sem)
           M == Dispatch(C, n)
<1>1. /\ C \in SemFields
      /\ Consistent(C)
      /\ Total(C) = Total(sem)
      /\ Follows(sem, C, {})
  BY StateFacts, CleanupConsistent
<1>2. /\ GoOn(M) /\ sem' = M
      /\ UNCHANGED <<awaiter, owed, aborted>>
      /\ credit' = credit + n /\ credit + n <= MaxPermits
  BY DEF Release
<1> HIDE DEF C
<1>3. /\ M \in SemFields
      /\ Consistent(M)
      /\ Total(M) = Total(C) + n
      /\ Follows(C, M, {})
  BY <1>1, DispatchConsistent
<1> HIDE DEF M
<1>4. Follows(sem, M, {})
  BY <1>1, <1>3, FollowsTransitive
<1>5. Total(M) + owed' = credit' /\ credit' \in 0..MaxPermits
  BY <1>1, <1>2, <1>3, StateFacts
<1>6. SchedTypeOK' /\ status' = Wake(status, Woken(M))
  BY <1>2, <1>3, GoOnStep
<1>7. awaiter' = awaiter \ {} /\ Waiters(M.waiters) \cap {} = {}
  BY <1>2
<1> QED
  BY <1>2, <1>3, <1>4, <1>5, <1>6, <1>7, StateFacts, OperationKeepsIInv

\* A coroutine resumes; one that was acquiring takes its permit.
LEMMA ResumeKeepsIInv ==
  ASSUME IInv, MaxPermits \in Nat, NEW c \in Coros, ResumeCoro(c)
  PROVE  IInv'
<1> DEFINE st == [status EXCEPT ![c] = "running"]
<1>1. /\ status[c] = "ready"
      /\ st \in [Coros -> Statuses]
      /\ <<>> \in Seq(Coros)
      /\ \A d \in Coros : \/ st[d] = status[d]
                          \/ d = c /\ st[d] # "parked"
  BY StateFacts DEF ResumeCoro, Resume, Statuses
<1> HIDE DEF st
<1>2. CASE c \notin awaiter
  <2>1. Resume(c, {}, <<>>) /\ UNCHANGED semVars
    BY <1>2 DEF ResumeCoro
  <2>2. SchedTypeOK'
    BY <1>1, <2>1, StateFacts, ResumeType
  <2>3. status' = Wake(st, Woken(sem))
    BY <2>1 DEF Resume, Wake, Woken, st
  <2>4. /\ Follows(sem, sem, {})
        /\ sem' = sem /\ awaiter' = awaiter \ {} /\ aborted' = aborted
        /\ owed' = owed /\ credit' = credit
        /\ Waiters(sem.waiters) \cap {} = {}
        /\ \A d \in Coros : \/ st[d] = status[d]
                            \/ d \notin (awaiter \ {}) /\ st[d] # "parked"
    BY <1>1, <1>2, <2>1 DEF Follows, semVars
  <2> QED
    BY <1>1, <2>2, <2>3, <2>4, StateFacts, OperationKeepsIInv
<1>3. CASE c \in awaiter
  <2> DEFINE M == FinishAcquire(sem, c)
  <2>1. c \in sem.reserved /\ c \in Waiters(sem.waiters)
    BY <1>1, <1>3 DEF IInv, AwaiterInv, Consistent
  <2>2. /\ Resume(c, Woken(M), WakeOrder(M))
        /\ sem' = M /\ aborted' = aborted
        /\ awaiter' = awaiter \ {c}
        /\ credit' = credit - 1 /\ owed' = owed
    BY <1>3, <2>1 DEF ResumeCoro, ResumedWithoutPermit, IInv, TypeOK
  <2>3. /\ M \in SemFields
        /\ Consistent(M)
        /\ Total(M) = Total(sem) - 1
        /\ Follows(sem, M, {c})
        /\ c \notin Waiters(M.waiters)
    BY <1>1, <2>1, StateFacts, LeaveConsistent DEF FinishAcquire
  <2> HIDE DEF M
  <2>4. SchedTypeOK' /\ status' = Wake(st, Woken(M))
    BY <2>2, <2>3, StateFacts, WakeOrderType, ResumeType DEF Resume, st
  <2>5. Total(M) + owed' = credit' /\ credit' \in 0..MaxPermits
    <3>1. Total(M) \in Nat
      BY <2>3, TotalType
    <3> QED
      BY <2>2, <2>3, <3>1, StateFacts
  <2>6. /\ Waiters(M.waiters) \cap {c} = {}
        /\ \A d \in Coros : \/ st[d] = status[d]
                            \/ d \notin (awaiter \ {c}) /\ st[d] # "parked"
    BY <1>1, <2>3
  <2> QED
    BY <1>1, <2>2, <2>3, <2>4, <2>5, <2>6, StateFacts, OperationKeepsIInv
<1> QED
  BY <1>2, <1>3

\* The frame of a cancelled or finished coroutine is destroyed: the permit that
\* was reserved for it is dispatched, or owed until the nested drain is over.
LEMMA DestroyKeepsIInv ==
  ASSUME IInv, MaxPermits \in Nat, NEW c \in Coros, DestroyCoro(c)
  PROVE  IInv'
<1> DEFINE st == [status EXCEPT ![c] = "gone"]
<1>1. /\ owed = 0
      /\ st \in [Coros -> Statuses]
      /\ <<>> \in Seq(Coros)
      /\ \A d \in Coros : \/ st[d] = status[d]
                          \/ d = c /\ st[d] # "parked"
  BY StateFacts DEF DestroyCoro, Statuses
<1> HIDE DEF st
<1>2. CASE c \notin awaiter
  <2>1. Destroy(c, {}, <<>>) /\ UNCHANGED semVars
    BY <1>2 DEF DestroyCoro
  <2>2. SchedTypeOK' /\ status' = Wake(st, {})
    BY <1>1, <2>1, StateFacts, DestroyStep DEF st
  <2>3. Woken(sem) = {} /\ Follows(sem, sem, {})
    BY DEF Follows, Woken
  <2>4. /\ sem' = sem /\ awaiter' = awaiter \ {} /\ aborted' = aborted
        /\ owed' = owed /\ credit' = credit
        /\ Waiters(sem.waiters) \cap {} = {}
        /\ \A d \in Coros : \/ st[d] = status[d]
                            \/ d \notin (awaiter \ {}) /\ st[d] # "parked"
    BY <1>1, <1>2, <2>1 DEF semVars
  <2> QED
    BY <1>1, <2>2, <2>3, <2>4, StateFacts, OperationKeepsIInv
<1>3. CASE c \in awaiter
  <2> DEFINE C == AbandonCleanup(sem, c)
             r == AbandonReturns(sem, c)
             interrupted == pc # "collect" /\ Woken(C) # {}
             M == IF interrupted \/ r = 0 THEN C ELSE Dispatch(C, r)
  <2>1. /\ Destroy(c, Woken(M), WakeOrder(M))
        /\ sem' = M
        /\ owed' = IF interrupted THEN r ELSE 0
        /\ awaiter' = awaiter \ {c}
        /\ UNCHANGED <<credit, aborted>>
    BY <1>3 DEF DestroyCoro
  <2>2. status[c] # "parked"
    BY <2>1 DEF Destroy, CollectRoot, ReclaimRoot, ReclaimChild, Done
  <2>3. /\ C \in SemFields
        /\ Consistent(C)
        /\ r \in {0, 1}
        /\ Total(C) = Total(sem) - r
        /\ Follows(sem, C, {c})
        /\ c \notin Waiters(C.waiters)
    <3>1. CASE c \notin Waiters(sem.waiters)
      <4>1. C = sem /\ r = 0
        BY <3>1 DEF AbandonCleanup, AbandonReturns
      <4> QED
        BY <3>1, <4>1, StateFacts DEF Follows
    <3>2. CASE c \in Waiters(sem.waiters)
      <4>1. /\ C = Cleanup(Erase(sem, {c}))
            /\ r = IF c \in sem.reserved THEN 1 ELSE 0
        BY <3>2 DEF AbandonCleanup, AbandonReturns
      <4> HIDE DEF C, r
      <4> QED
        BY <2>2, <4>1, StateFacts, LeaveConsistent
    <3> QED
      BY <3>1, <3>2
  <2> HIDE DEF C, r
  <2>4. /\ M \in SemFields
        /\ Consistent(M)
        /\ Total(M) + owed' = Total(sem)
        /\ owed' \in {0, 1}
        /\ Follows(C, M, {})
    <3>1. CASE interrupted \/ r = 0
      BY <2>1, <2>3, <3>1, TotalType, StateFacts DEF Follows
    <3>2. CASE ~(interrupted \/ r = 0)
      <4>1. M = Dispatch(C, r) /\ r = 1 /\ owed' = 0
        BY <2>1, <2>3, <3>2
      <4> HIDE DEF M
      <4>2. /\ M \in SemFields
            /\ Consistent(M)
            /\ Total(M) = Total(C) + 1
            /\ Follows(C, M, {})
        BY <2>3, <4>1, DispatchConsistent
      <4> QED
        BY <2>3, <4>1, <4>2, StateFacts
    <3> QED
      BY <3>1, <3>2
  <2> HIDE DEF M
  <2>5. Follows(sem, M, {c}) /\ c \notin Waiters(M.waiters)
    BY <2>3, <2>4, FollowsTransitive DEF Follows
  <2>6. SchedTypeOK' /\ status' = Wake(st, Woken(M))
    BY <2>1, <2>4, StateFacts, WakeOrderType, DestroyStep DEF st
  <2>7. /\ Waiters(M.waiters) \cap {c} = {}
        /\ \A d \in Coros : \/ st[d] = status[d]
                            \/ d \notin (awaiter \ {c}) /\ st[d] # "parked"
        /\ Total(M) + owed' = credit' /\ credit' \in 0..MaxPermits
        /\ aborted' = aborted
    BY <1>1, <2>1, <2>4, <2>5, StateFacts
  <2> QED
    BY <1>1, <2>1, <2>4, <2>5, <2>6, <2>7, OperationKeepsIInv
<1> QED
  BY <1>2, <1>3

\* The permit an interrupted abandon() owes is dispatched.
LEMMA FinishAbandonKeepsIInv ==
  ASSUME IInv, MaxPermits \in Nat, FinishAbandon
  PROVE  IInv'
<1> DEFINE M == Dispatch(sem, owed)
<1>1. /\ M \in SemFields
      /\ Consistent(M)
      /\ Total(M) = Total(sem) + owed
      /\ Follows(sem, M, {})
  <2>1. owed \in Nat
    BY StateFacts
  <2> QED
    BY <2>1, StateFacts, DispatchConsistent
<1>2. /\ pc \in {"roots", "children"}
      /\ sem' = M /\ owed' = 0
      /\ status' = Wake(status, Woken(M))
      /\ ready' = ready \o WakeOrder(M)
      /\ Reclaimed(Woken(M))
      /\ UNCHANGED <<pending, roots, children, awaiter, credit, aborted>>
  BY DEF FinishAbandon
<1> HIDE DEF M
<1>3. SchedTypeOK'
  <2>1. pc' \in Places /\ outer' \in {"none", "roots", "children"}
    BY <1>2, StateFacts DEF Reclaimed, Places
  <2>2. WakeOrder(M) \in Seq(Coros)
    BY <1>1, WakeOrderType
  <2> QED
    BY <1>2, <2>1, <2>2, StateFacts, WakeType
<1>4. /\ awaiter' = awaiter \ {} /\ Waiters(M.waiters) \cap {} = {}
      /\ Total(M) + owed' = credit' /\ credit' \in 0..MaxPermits
      /\ owed' \in {0, 1}
  BY <1>1, <1>2, StateFacts
<1> QED
  BY <1>1, <1>2, <1>3, <1>4, StateFacts, OperationKeepsIInv

\* acquire that finds no permit parks the coroutine at the end of the list.
LEMMA ParkKeepsIInv ==
  ASSUME IInv, NEW c \in Coros, AcquirePark(c)
  PROVE  IInv'
<1> DEFINE M == Cleanup(sem)
           P == [M EXCEPT !.waiters = PushBack(M.waiters, c)]
           st == [status EXCEPT ![c] = "parked"]
<1>1. /\ M \in SemFields
      /\ Consistent(M)
      /\ Total(M) = Total(sem)
      /\ Follows(sem, M, {})
  BY StateFacts, CleanupConsistent
<1>2. /\ status[c] = "running"
      /\ M.permits = 0
      /\ sem' = P
      /\ awaiter' = awaiter \cup {c}
      /\ status' = Wake(st, Woken(M))
      /\ ready' = ready \o WakeOrder(M)
      /\ pc' = "apply"
      /\ UNCHANGED <<pending, roots, children, outer, owed, credit, aborted>>
  BY DEF AcquirePark, Running
<1> HIDE DEF M
<1>3. c \notin awaiter /\ c \notin Waiters(M.waiters)
  BY <1>1, <1>2 DEF IInv, AwaiterInv, Follows
<1>4. /\ M.waiters \in ListsOver(Coros) /\ IsWaitList(M.waiters)
      /\ M.reserved \in SUBSET Coros
  BY <1>1 DEF SemFields, Consistent
<1>5. /\ PushBack(M.waiters, c) \in ListsOver(Coros)
      /\ Waiters(PushBack(M.waiters, c)) = Waiters(M.waiters) \cup {c}
      /\ IsWaitList(PushBack(M.waiters, c))
  BY <1>3, <1>4, ListType, ListOrder
<1>6. /\ P \in SemFields
      /\ P.waiters = PushBack(M.waiters, c)
      /\ P.reserved = M.reserved
      /\ P.permits = 0
  BY <1>1, <1>2, <1>5 DEF SemFields
<1>7. Total(P) + owed' = credit'
  BY <1>1, <1>2, <1>6, StateFacts DEF Total
<1> HIDE DEF P
<1>8. st \in [Coros -> Statuses]
  BY StateFacts DEF Statuses
<1>9. \A d \in Coros : status'[d] = IF d \in M.reserved \ sem.reserved
                                    THEN "ready"
                                    ELSE IF d = c THEN "parked" ELSE status[d]
  BY <1>2, <1>8, StateFacts DEF Wake, Woken
<1> HIDE DEF st
<1>10. TypeOK'
  <2>1. SchedTypeOK'
    <3>1. WakeOrder(M) \in Seq(Coros)
      BY <1>1, WakeOrderType
    <3> QED
      BY <1>2, <1>8, <3>1, StateFacts, WakeType DEF Places
  <2>2. \E W \in SUBSET Coros : sem' \in SemType(W)
    <3>1. PICK W \in SUBSET Coros : P.waiters \in [W -> SUBSET Coros]
      BY <1>6 DEF SemFields, ListsOver
    <3>2. P \in SemType(W)
      BY <1>6, <3>1 DEF SemFields, SemType
    <3> QED
      BY <1>2, <3>2
  <2> QED
    BY <1>2, <2>1, <2>2 DEF IInv, TypeOK
<1>11. /\ Waiters(M.waiters) \subseteq awaiter
       /\ Waiters(M.waiters) \subseteq Coros
       /\ awaiter \subseteq Coros
       /\ M.reserved \subseteq Waiters(M.waiters)
  BY <1>1, StateFacts DEF Follows, IInv, AwaiterInv, Consistent
<1>12. \A d \in M.reserved : status'[d] # "parked"
  BY <1>3, <1>9, <1>11 DEF IInv, AwaiterInv
<1>13. Consistent(sem)'
  BY <1>1, <1>2, <1>3, <1>5, <1>6, <1>9, <1>11, <1>12 DEF Consistent
<1>14. ASSUME NEW d \in awaiter \cup {c}
       PROVE  /\ status'[d] \in {"parked", "ready", "cancelled"}
              /\ status'[d] = "ready" => d \in M.reserved
  <2>1. CASE d = c
    BY <1>3, <1>9, <1>11, <2>1
  <2>2. CASE d \in awaiter
    BY <1>1, <1>3, <1>9, <1>11, <2>2 DEF IInv, AwaiterInv, Follows
  <2> QED
    BY <2>1, <2>2
<1>15. AwaiterInv'
  BY <1>2, <1>5, <1>6, <1>11, <1>12, <1>14 DEF AwaiterInv
<1>16. PermitConservation'
  BY <1>2, <1>7 DEF PermitConservation, Total
<1> QED
  BY <1>2, <1>10, <1>13, <1>15, <1>16 DEF IInv

\* The scheduler's own steps, and a coroutine that ends, leave the semaphore
\* alone.
LEMMA OtherKeepsIInv ==
  ASSUME IInv, UNCHANGED semVars,
         Housekeeping \/ Elsewhere \/ \E c \in Coros : Finish(c)
  PROVE  IInv'
<1>1. /\ SchedTypeOK'
      /\ \A c \in Coros :
           \/ status'[c] = status[c]
           \/ Live(c) /\ status'[c] = "cancelled"
           \/ /\ status[c] \in {"gone", "sleeping", "running"}
              /\ status'[c] \in {"ready", "sleeping", "done"}
  BY StateFacts, SchedulerStep, FinishStep
<1>2. /\ sem' = sem /\ awaiter' = awaiter /\ owed' = owed
      /\ credit' = credit /\ aborted' = aborted
  BY DEF semVars
<1>3. TypeOK'
  BY <1>1, <1>2 DEF IInv, TypeOK
<1>4. Consistent(sem)' /\ AwaiterInv'
  BY <1>1, <1>2, StateFacts DEF IInv, Consistent, AwaiterInv
<1> QED
  BY <1>2, <1>3, <1>4 DEF IInv, PermitConservation

-----------------------------------------------------------------------------
(* The theorems.                                                           *)

\* A freshly constructed Semaphore satisfies the invariant.
LEMMA InitIInv ==
  PermitsAssumption /\ Init => IInv
<1> SUFFICES ASSUME PermitsAssumption, Init PROVE IInv
  OBVIOUS
<1>1. EmptyList \in [{} -> SUBSET Coros] /\ Waiters(EmptyList) = {}
  BY DEF EmptyList, Waiters
<1>2. SchedTypeOK /\ \A c \in Coros : status[c] = "gone"
  BY DEF Init, SchedInit, SchedTypeOK, Statuses, Places
<1>3. /\ sem.waiters = EmptyList
      /\ sem.reserved = {}
      /\ sem.permits = InitialPermits
      /\ sem \in SemType({})
  BY <1>1 DEF Init, SemType, PermitsAssumption
<1>4. /\ awaiter = {} /\ owed = 0 /\ aborted = FALSE
      /\ credit = InitialPermits /\ credit \in 0..MaxPermits
  BY DEF Init, PermitsAssumption
<1>5. TypeOK
  BY <1>2, <1>3, <1>4 DEF TypeOK
<1>6. Consistent(sem) /\ AwaiterInv
  BY <1>1, <1>2, <1>3, <1>4
     DEF Consistent, AwaiterInv, IsWaitList, Waiters
<1>7. PermitConservation
  BY <1>3, <1>4, FS_EmptySet DEF PermitConservation, PermitsAssumption
<1> QED
  BY <1>4, <1>5, <1>6, <1>7 DEF IInv

\* Every step preserves the invariant: one case per action of Next.
LEMMA NextIInv ==
  PermitsAssumption /\ IInv /\ [Next]_vars => IInv'
<1> SUFFICES ASSUME MaxPermits \in Nat, IInv, [Next]_vars PROVE IInv'
  BY DEF PermitsAssumption
<1>1. ASSUME NEW c \in Coros, AcquirePark(c) PROVE IInv'
  BY <1>1, ParkKeepsIInv
<1>2. ASSUME NEW c \in Coros, ResumeCoro(c) PROVE IInv'
  BY <1>2, ResumeKeepsIInv
<1>3. ASSUME NEW c \in Coros, FinishCoro(c) PROVE IInv'
  BY <1>3, OtherKeepsIInv DEF FinishCoro
<1>4. ASSUME NEW c \in Coros, DestroyCoro(c) PROVE IInv'
  BY <1>4, DestroyKeepsIInv
<1>5. CASE TryAcquire \/ MainPoll
  BY <1>5, TakeKeepsIInv
<1>6. ASSUME NEW n \in 1..MaxPermits, Release(n) PROVE IInv'
  BY <1>6, ReleaseKeepsIInv
<1>7. CASE FinishAbandon
  BY <1>7, FinishAbandonKeepsIInv
<1>8. CASE (Housekeeping \/ Elsewhere) /\ UNCHANGED semVars
  BY <1>8, OtherKeepsIInv
<1>9. CASE UNCHANGED vars
  <2>1. UNCHANGED <<status, ready, pending, roots, children, pc, outer,
                    sem, awaiter, owed, credit, aborted>>
    BY <1>9 DEF vars, schedVars, semVars
  <2> QED
    BY <2>1 DEF IInv, TypeOK, SchedTypeOK, Consistent, AwaiterInv,
                PermitConservation
<1> QED
  BY <1>1, <1>2, <1>3, <1>4, <1>5, <1>6, <1>7, <1>8, <1>9 DEF Next

\* The inductive invariant holds in every reachable state, for every finite set
\* of coroutines and every number of permits.
THEOREM SemaphoreInvariant ==
  ASSUME PermitsAssumption
  PROVE  Spec => []IInv
<1>1. Init => IInv
  BY InitIInv
<1>2. IInv /\ [Next]_vars => IInv'
  BY NextIInv
<1> QED
  BY <1>1, <1>2, PTL DEF Spec

\* Cancellation and nested drains lose no permit and duplicate none, no permit
\* is banked while somebody is parked, and finish_acquire never aborts.
THEOREM SemaphorePermitsKept ==
  ASSUME PermitsAssumption
  PROVE  Spec => []PermitsKept
<1>1. ASSUME IInv
      PROVE  PermitsKept
  <2>1. ASSUME sem.permits > 0, NEW c \in Coros, status[c] = "parked"
        PROVE  FALSE
    <3>1. c \in sem.reserved
      BY <1>1, <2>1 DEF IInv, Consistent
    <3> QED
      BY <1>1, <2>1, <3>1 DEF IInv, AwaiterInv
  <2> QED
    BY <1>1, <2>1 DEF IInv, PermitsKept, NoLostPermit, NoAbort
<1> QED
  BY <1>1, SemaphoreInvariant, PTL

\* Permits reach parked waiters oldest first, in release, in cleanup and when an
\* abandoned wait returns its permit.
THEOREM SemaphoreOldestFirst ==
  ASSUME PermitsAssumption
  PROVE  Spec => OldestFirst
<1> DEFINE Fair == \A c \in sem'.reserved \ sem.reserved :
                     \A d \in sem'.waiters[c] :
                       status[d] = "parked" => d \in sem'.reserved
<1>1. ASSUME IInv, [Next]_vars
      PROVE  [Fair]_vars
  <2>1. /\ sem \in SemFields /\ Consistent(sem)
        /\ Follows(sem, sem, {}) /\ InTurn(sem, sem)
        /\ Cleanup(sem) \in SemFields /\ Consistent(Cleanup(sem))
        /\ Follows(sem, Cleanup(sem), {}) /\ InTurn(sem, Cleanup(sem))
    BY <1>1, StateFacts, CleanupConsistent DEF InTurn, Follows
  <2>2. CASE sem' = sem
    BY <2>1, <2>2 DEF InTurn
  <2>3. CASE \E c \in Coros : AcquirePark(c)
    <3> DEFINE M == Cleanup(sem)
    <3>1. PICK c \in Coros :
            /\ status[c] = "running"
            /\ sem' = [M EXCEPT !.waiters = PushBack(M.waiters, c)]
      BY <2>3 DEF AcquirePark, Running
    <3>2. /\ c \notin Waiters(M.waiters)
          /\ M.reserved \subseteq Waiters(M.waiters)
      BY <2>1, <3>1 DEF Consistent
    <3>3. /\ M \in SemFields /\ InTurn(sem, M)
      BY <2>1
    <3> HIDE DEF M
    <3>4. /\ sem'.reserved = M.reserved
          /\ \A d \in Waiters(M.waiters) : sem'.waiters[d] = M.waiters[d]
      BY <3>1, <3>2, <3>3 DEF SemFields, PushBack, Waiters
    <3> QED
      BY <3>2, <3>3, <3>4 DEF InTurn
  <2>4. CASE \E M \in SemFields : /\ sem'.waiters = M.waiters
                                  /\ sem'.reserved = M.reserved
                                  /\ InTurn(sem, M)
    BY <2>4 DEF InTurn
  <2>5. CASE TryAcquire \/ MainPoll
    <3>1. sem' = Cleanup(sem) \/ sem' = Take(Cleanup(sem))
      BY <2>5 DEF TryAcquire, MainPoll
    <3>2. /\ sem'.waiters = Cleanup(sem).waiters
          /\ sem'.reserved = Cleanup(sem).reserved
      BY <2>1, <3>1 DEF Take, SemFields
    <3> QED
      BY <2>1, <2>4, <3>2
  <2>6. ASSUME NEW C \in SemFields, Consistent(C), NEW S,
               Follows(sem, C, S), InTurn(sem, C), NEW n \in Nat,
               sem' = Dispatch(C, n)
        PROVE  Fair
    <3>1. /\ InTurn(C, sem')
          /\ C.reserved \subseteq sem'.reserved
          /\ Follows(C, sem', {})
          /\ Consistent(sem')
      BY <2>6, DispatchConsistent
    <3> QED
      BY <2>6, <3>1 DEF InTurn, Follows, Consistent
  <2>7. CASE \E n \in 1..MaxPermits : Release(n)
    <3>1. PICK n \in 1..MaxPermits : sem' = Dispatch(Cleanup(sem), n)
      BY <2>7 DEF Release
    <3>2. n \in Nat
      BY DEF PermitsAssumption
    <3> QED
      BY <2>1, <2>6, <3>1, <3>2
  <2>8. CASE FinishAbandon
    <3>1. sem' = Dispatch(sem, owed) /\ owed \in Nat
      BY <1>1, <2>8, StateFacts DEF FinishAbandon
    <3> QED
      BY <2>1, <2>6, <3>1
  <2>9. ASSUME NEW c \in Coros, status[c] # "parked"
        PROVE  LET C == Cleanup(Erase(sem, {c}))
               IN  /\ C \in SemFields
                   /\ Consistent(C)
                   /\ Follows(sem, C, {c})
                   /\ InTurn(sem, C)
    BY <2>1, <2>9, LeaveConsistent
  <2>10. CASE \E c \in Coros : ResumeCoro(c)
    <3>1. PICK c \in Coros : ResumeCoro(c)
      BY <2>10
    <3>2. sem' = sem \/ sem' = Cleanup(Erase(sem, {c}))
      BY <3>1 DEF ResumeCoro, FinishAcquire, semVars
    <3>3. status[c] # "parked"
      BY <3>1 DEF ResumeCoro, Resume
    <3> QED
      BY <2>2, <2>4, <2>9, <3>2, <3>3
  <2>11. CASE \E c \in Coros : DestroyCoro(c)
    <3>1. PICK c \in Coros : DestroyCoro(c)
      BY <2>11
    <3> DEFINE C == AbandonCleanup(sem, c)
               r == AbandonReturns(sem, c)
    <3>2. sem' = sem \/ sem' = C \/ sem' = Dispatch(C, r)
      BY <3>1 DEF DestroyCoro, semVars
    <3>3. status[c] # "parked"
      BY <3>1 DEF DestroyCoro, Destroy, CollectRoot, ReclaimRoot, ReclaimChild,
                  Done
    <3>4. C = sem \/ C = Cleanup(Erase(sem, {c}))
      BY DEF AbandonCleanup
    <3>5. r \in Nat
      BY DEF AbandonReturns
    <3> HIDE DEF C, r
    <3>6. CASE sem' = C
      BY <2>2, <2>4, <2>9, <3>3, <3>4, <3>6
    <3>7. CASE sem' = Dispatch(C, r)
      <4>1. CASE C = sem
        BY <2>1, <2>6, <3>5, <3>7, <4>1
      <4>2. CASE C = Cleanup(Erase(sem, {c}))
        BY <2>6, <2>9, <3>3, <3>5, <3>7, <4>2
      <4> QED
        BY <3>4, <4>1, <4>2
    <3> QED
      BY <2>2, <3>2, <3>6, <3>7
  <2> QED
    BY <1>1, <2>2, <2>3, <2>5, <2>7, <2>8, <2>10, <2>11
       DEF Next, FinishCoro, semVars, vars
<1>2. Spec => []IInv
  BY SemaphoreInvariant
<1> QED
  BY <1>1, <1>2, PTL DEF Spec, OldestFirst
==============================================================================
