----------------------------- MODULE LockProofs -----------------------------
(***************************************************************************)
(* Lock.tla keeps its inductive invariant for every set of coroutines:     *)
(* type correctness, mutual exclusion, no internal abort, no lost handoff. *)
(*                                                                         *)
(* The argument: each member function, applied to fields that are          *)
(* consistent with the coroutines' statuses and the set of owners, returns *)
(* fields consistent with the new set of owners, and reserves only a       *)
(* waiter that is parked (the one it wakes).                               *)
(***************************************************************************)
EXTENDS Lock, CoroutineProofs

\* L2 comes from L1 by a member function: the list only shrinks, a new
\* reservation is for a parked waiter, and a reserved waiter that was woken
\* already keeps its reservation, unless it is in S.
Follows(L1, L2, S) ==
  /\ Waiters(L2.waiters) \subseteq Waiters(L1.waiters)
  /\ \A c \in L2.reserved \ L1.reserved : c \in Coros /\ status[c] = "parked"
  /\ \A c \in L1.reserved \ S : status[c] = "ready" => c \in L2.reserved

\* An owned lock whose owner is just giving it up.
Freed(L) ==
  /\ L.reserved = {}
  /\ ~L.handoff
  /\ L.locked
  /\ \A c \in Coros : status[c] = "parked" => c \in Waiters(L.waiters)
  /\ \A c \in Waiters(L.waiters) : status[c] \in {"parked", "cancelled"}

\* Erasing waiters changes the list and the reservations and nothing else.
LEMMA EraseFields ==
  ASSUME NEW L \in LockType, NEW S
  PROVE  /\ Erase(L, S) \in LockType
         /\ Waiters(Erase(L, S).waiters) = Waiters(L.waiters) \ S
         /\ Erase(L, S).reserved = L.reserved \ S
         /\ Erase(L, S).locked = L.locked
         /\ Erase(L, S).handoff = L.handoff
         /\ Waiters(L.waiters) \subseteq Coros
<1>1. L.waiters \in ListsOver(Coros)
  BY DEF LockType
<1>2. /\ EraseAll(L.waiters, S) \in ListsOver(Coros)
      /\ Waiters(EraseAll(L.waiters, S)) = Waiters(L.waiters) \ S
      /\ Waiters(L.waiters) \subseteq Coros
  BY <1>1, ListType
<1> QED
  BY <1>2 DEF Erase, LockType

\* What handoff_or_unlock returns when no reservation is outstanding.
LEMMA HandoffFields ==
  ASSUME NEW L \in LockType, L.reserved = {}, ~L.handoff
  PROVE  LET H == HandoffOrUnlock(L)
             parked == {c \in Waiters(L.waiters) : status[c] = "parked"}
         IN  /\ H \in LockType
             /\ Waiters(H.waiters) \subseteq Waiters(L.waiters)
             /\ parked \subseteq Waiters(H.waiters)
             /\ H.reserved \subseteq parked
             /\ \A a, b \in H.reserved : a = b
             /\ H.handoff <=> H.reserved # {}
             /\ parked # {} => H.handoff /\ H.locked = L.locked
             /\ parked = {} => ~H.locked
<1> DEFINE open == Waiters(L.waiters) \ L.reserved
           wakeable == {c \in open : status[c] = "parked"}
           next == Oldest(L.waiters, wakeable)
           skipped == (open \ wakeable) \cap L.waiters[next]
<1>1. open = Waiters(L.waiters) /\ Waiters(L.waiters) \subseteq Coros
  BY EraseFields
<1> DEFINE H == HandoffOrUnlock(L)
           parked == {c \in Waiters(L.waiters) : status[c] = "parked"}
<1>2. parked = wakeable
  BY <1>1
<1>3. CASE wakeable = {}
  <2> DEFINE E == Erase(L, open)
  <2>1. /\ E \in LockType
        /\ Waiters(E.waiters) = {}
        /\ E.reserved = {}
    BY <1>1, EraseFields
  <2>2. H = [E EXCEPT !.locked = FALSE, !.handoff = L.handoff /\ open = {}]
    BY <1>3 DEF HandoffOrUnlock
  <2> HIDE DEF E
  <2>3. /\ H \in LockType
        /\ Waiters(H.waiters) = {}
        /\ H.reserved = {}
        /\ ~H.locked
        /\ ~H.handoff
    <3> HIDE DEF H, open
    <3> QED
      BY <2>1, <2>2 DEF LockType
  <2> QED
    BY <1>2, <1>3, <2>3
<1>4. CASE wakeable # {}
  <2> DEFINE E == Erase(L, skipped)
  <2>1. /\ E \in LockType
        /\ Waiters(E.waiters) = Waiters(L.waiters) \ skipped
        /\ E.locked = L.locked
    BY EraseFields
  <2>2. H = [E EXCEPT !.reserved = L.reserved \cup {next}, !.handoff = TRUE]
    BY <1>4 DEF HandoffOrUnlock
  <2>3. next \in wakeable
    BY <1>4, OldestMember
  <2>4. skipped \cap wakeable = {} /\ next \in Coros
    BY <1>1, <2>3
  <2> HIDE DEF E, skipped, next
  <2>5. /\ H \in LockType
        /\ Waiters(H.waiters) = Waiters(L.waiters) \ skipped
        /\ H.reserved = {next}
        /\ H.locked = L.locked
        /\ H.handoff
    <3> HIDE DEF H, open
    <3> QED
      BY <2>1, <2>2, <2>4 DEF LockType
  <2> QED
    BY <1>1, <1>2, <1>4, <2>3, <2>4, <2>5
<1> QED
  BY <1>3, <1>4

\* handoff_or_unlock of an owned lock: either one parked waiter has the
\* reservation, or the lock is free and nobody is parked.
LEMMA HandoffConsistent ==
  ASSUME NEW L \in LockType, Freed(L)
  PROVE  /\ HandoffOrUnlock(L) \in LockType
         /\ Consistent(HandoffOrUnlock(L), {})
         /\ Follows(L, HandoffOrUnlock(L), {})
<1> DEFINE R == HandoffOrUnlock(L)
           parked == {c \in Waiters(L.waiters) : status[c] = "parked"}
<1>1. /\ R \in LockType
      /\ Waiters(R.waiters) \subseteq Waiters(L.waiters)
      /\ parked \subseteq Waiters(R.waiters)
      /\ R.reserved \subseteq parked
      /\ \A a, b \in R.reserved : a = b
      /\ R.handoff <=> R.reserved # {}
      /\ parked # {} => R.handoff /\ R.locked = L.locked
      /\ parked = {} => ~R.locked
  BY HandoffFields DEF Freed
<1>2. Waiters(L.waiters) \subseteq Coros
  BY EraseFields
<1>3. R.locked <=> R.handoff
  BY <1>1 DEF Freed, LockType
<1> HIDE DEF R
<1>4. Consistent(R, {})
  BY <1>1, <1>3 DEF Consistent, Freed
<1>5. Follows(L, R, {})
  BY <1>1, <1>2 DEF Follows, Freed
<1> QED
  BY <1>1, <1>4, <1>5 DEF R

\* cleanup keeps the fields consistent with the same owners.
LEMMA CleanupConsistent ==
  ASSUME NEW L \in LockType, NEW H, Consistent(L, H)
  PROVE  /\ Cleanup(L) \in LockType
         /\ Consistent(Cleanup(L), H)
         /\ Follows(L, Cleanup(L), {})
         /\ \A c \in Waiters(Cleanup(L).waiters) : Live(c)
         /\ H # {} => Cleanup(L).reserved = {}
<1> DEFINE dead == {c \in Waiters(L.waiters) : ~Live(c)}
           E == Erase(L, dead)
<1>1. /\ E \in LockType
      /\ Waiters(E.waiters) = Waiters(L.waiters) \ dead
      /\ E.reserved = L.reserved \ dead
      /\ E.locked = L.locked
      /\ E.handoff = L.handoff
      /\ Waiters(L.waiters) \subseteq Coros
  BY EraseFields
<1>2. CASE dead \cap L.reserved = {}
  <2>1. Cleanup(L) = E
    BY <1>2 DEF Cleanup
  <2>2. E.reserved = L.reserved
    BY <1>1, <1>2
  <2> HIDE DEF E
  <2> QED
    BY <1>1, <2>1, <2>2 DEF Consistent, Follows, Live
<1>3. CASE dead \cap L.reserved # {}
  <2> DEFINE F == [E EXCEPT !.handoff = FALSE]
             R == HandoffOrUnlock(F)
  <2>1. Cleanup(L) = R
    BY <1>3 DEF Cleanup
  <2>2. L.reserved \subseteq dead /\ H = {} /\ L.locked
    BY <1>3 DEF Consistent
  <2>3. /\ F \in LockType
        /\ F.reserved = {}
        /\ ~F.handoff
        /\ F.locked
        /\ Waiters(F.waiters) = Waiters(L.waiters) \ dead
    <3> HIDE DEF E
    <3> QED
      BY <1>1, <2>2 DEF LockType
  <2> HIDE DEF F, E
  <2>4. Freed(F)
    BY <1>1, <2>2, <2>3 DEF Consistent, Freed, Live
  <2>5. R \in LockType /\ Consistent(R, {}) /\ Follows(F, R, {})
    BY <2>3, <2>4, HandoffConsistent
  <2> HIDE DEF R
  <2>6. Follows(L, R, {})
    BY <2>2, <2>3, <2>5 DEF Follows, Live
  <2>7. \A c \in Waiters(R.waiters) : Live(c)
    BY <2>3, <2>5 DEF Follows
  <2> QED
    BY <2>1, <2>2, <2>5, <2>6, <2>7
<1> QED
  BY <1>2, <1>3

\* release by the owner is never refused and leaves no owner.
LEMMA ReleasedConsistent ==
  ASSUME NEW L \in LockType, NEW H, Consistent(L, H), H # {}
  PROVE  /\ ~ReleaseRefused(L)
         /\ Released(L) \in LockType
         /\ Consistent(Released(L), {})
         /\ Follows(L, Released(L), {})
<1>1. L.locked /\ ~L.handoff /\ L.reserved = {}
  BY DEF Consistent
<1>2. CASE Waiters(L.waiters) = {}
  <2> DEFINE R == [L EXCEPT !.locked = FALSE]
  <2>1. Released(L) = R /\ ~ReleaseRefused(L)
    BY <1>1, <1>2 DEF Released, ReleaseRefused
  <2>2. /\ R \in LockType
        /\ R.waiters = L.waiters
        /\ R.reserved = {}
        /\ ~R.locked
        /\ ~R.handoff
    BY <1>1 DEF LockType
  <2> HIDE DEF R
  <2>3. Consistent(R, {}) /\ Follows(L, R, {})
    BY <1>1, <1>2, <2>2 DEF Consistent, Follows
  <2> QED
    BY <2>1, <2>2, <2>3
<1>3. CASE Waiters(L.waiters) # {}
  <2> DEFINE C == Cleanup(L)
             R == HandoffOrUnlock(C)
  <2>1. /\ C \in LockType
        /\ Consistent(C, H)
        /\ Follows(L, C, {})
        /\ C.reserved = {}
    BY CleanupConsistent
  <2> HIDE DEF C
  <2>2. C.locked /\ ~C.handoff
    BY <2>1 DEF Consistent
  <2>3. Freed(C)
    BY <2>1, <2>2 DEF Consistent, Freed
  <2>4. R \in LockType /\ Consistent(R, {}) /\ Follows(C, R, {})
    BY <2>1, <2>3, HandoffConsistent
  <2>5. Released(L) = R /\ ~ReleaseRefused(L)
    BY <1>3, <2>2 DEF Released, ReleaseRefused, C
  <2> HIDE DEF R
  <2>6. Follows(L, R, {})
    BY <1>1, <2>1, <2>4 DEF Follows
  <2> QED
    BY <2>4, <2>5, <2>6
<1> QED
  BY <1>2, <1>3

\* A waiter that resumes with the reservation becomes the owner.
LEMMA FinishAcquireConsistent ==
  ASSUME NEW L \in LockType, Consistent(L, {}), NEW c \in L.reserved,
         status[c] # "parked"
  PROVE  /\ FinishAcquire(L, c) \in LockType
         /\ Consistent(FinishAcquire(L, c), {c})
         /\ Follows(L, FinishAcquire(L, c), {c})
         /\ c \notin Waiters(FinishAcquire(L, c).waiters)
<1> DEFINE E == Erase(L, {c})
           F == [E EXCEPT !.handoff = FALSE]
           R == Cleanup(F)
<1>1. /\ E \in LockType
      /\ Waiters(E.waiters) = Waiters(L.waiters) \ {c}
      /\ E.reserved = L.reserved \ {c}
      /\ E.locked = L.locked
  BY EraseFields
<1>2. L.reserved = {c} /\ L.locked
  BY DEF Consistent
<1> HIDE DEF E
<1>3. /\ F \in LockType
      /\ Waiters(F.waiters) = Waiters(L.waiters) \ {c}
      /\ F.reserved = {}
      /\ F.locked
      /\ ~F.handoff
  BY <1>1, <1>2 DEF LockType
<1> HIDE DEF F
<1>4. Consistent(F, {c})
  BY <1>2, <1>3 DEF Consistent
<1>5. R \in LockType /\ Consistent(R, {c}) /\ Follows(F, R, {})
  BY <1>3, <1>4, CleanupConsistent
<1>6. FinishAcquire(L, c) = R
  BY DEF FinishAcquire, F, E
<1> HIDE DEF R
<1>7. Follows(L, R, {c}) /\ c \notin Waiters(R.waiters)
  BY <1>2, <1>3, <1>5 DEF Follows
<1> QED
  BY <1>5, <1>6, <1>7

\* The destructor of a cancelled waiter's awaiter takes it off the list and
\* passes its reservation on.
LEMMA AbandonConsistent ==
  ASSUME NEW L \in LockType, NEW H, Consistent(L, H), NEW c \in Coros,
         status[c] = "cancelled"
  PROVE  /\ Abandon(L, c) \in LockType
         /\ Consistent(Abandon(L, c), H)
         /\ Follows(L, Abandon(L, c), {c})
         /\ c \notin Waiters(Abandon(L, c).waiters)
<1>1. CASE c \notin Waiters(L.waiters)
  <2>1. Abandon(L, c) = L
    BY <1>1 DEF Abandon
  <2> QED
    BY <1>1, <2>1 DEF Follows
<1> DEFINE E == Erase(L, {c})
<1>2. /\ E \in LockType
      /\ Waiters(E.waiters) = Waiters(L.waiters) \ {c}
      /\ E.reserved = L.reserved \ {c}
      /\ E.locked = L.locked
      /\ E.handoff = L.handoff
  BY EraseFields
<1>3. CASE c \in Waiters(L.waiters) /\ c \notin L.reserved
  <2> DEFINE R == Cleanup(E)
  <2>1. Abandon(L, c) = R
    BY <1>3 DEF Abandon
  <2> HIDE DEF E
  <2>2. E.reserved = L.reserved
    BY <1>2, <1>3
  <2>3. Consistent(E, H)
    BY <1>2, <2>2 DEF Consistent
  <2>4. R \in LockType /\ Consistent(R, H) /\ Follows(E, R, {})
    BY <1>2, <2>3, CleanupConsistent
  <2> HIDE DEF R
  <2>5. Follows(L, R, {c}) /\ c \notin Waiters(R.waiters)
    BY <1>2, <2>2, <2>4 DEF Follows
  <2> QED
    BY <2>1, <2>4, <2>5
<1>4. CASE c \in Waiters(L.waiters) /\ c \in L.reserved
  <2> DEFINE F == [E EXCEPT !.handoff = FALSE]
             C == Cleanup(F)
             R == HandoffOrUnlock(C)
  <2>1. Abandon(L, c) = R
    BY <1>4 DEF Abandon
  <2>2. L.reserved = {c} /\ L.locked /\ H = {}
    BY <1>4 DEF Consistent
  <2> HIDE DEF E
  <2>3. /\ F \in LockType
        /\ Waiters(F.waiters) = Waiters(L.waiters) \ {c}
        /\ F.reserved = {}
        /\ F.locked
        /\ ~F.handoff
    BY <1>2, <2>2 DEF LockType
  <2> HIDE DEF F
  <2>4. Consistent(F, {c})
    BY <2>2, <2>3 DEF Consistent
  <2>5. /\ C \in LockType
        /\ Consistent(C, {c})
        /\ Follows(F, C, {})
        /\ C.reserved = {}
    BY <2>3, <2>4, CleanupConsistent
  <2> HIDE DEF C
  <2>6. Freed(C)
    BY <2>5 DEF Consistent, Freed
  <2>7. R \in LockType /\ Consistent(R, {}) /\ Follows(C, R, {})
    BY <2>5, <2>6, HandoffConsistent
  <2> HIDE DEF R
  <2>8. Follows(L, R, {c}) /\ c \notin Waiters(R.waiters)
    BY <2>2, <2>3, <2>5, <2>7 DEF Follows
  <2> QED
    BY <2>1, <2>2, <2>7, <2>8
<1> QED
  BY <1>1, <1>3, <1>4

-----------------------------------------------------------------------------
(* From the member functions to the actions.                               *)

\* An operation that sets the fields to L, wakes whom L newly reserves and
\* changes, besides, only statuses of coroutines outside the list, keeps the
\* fields consistent with the new statuses.
LEMMA WakeConsistent ==
  ASSUME TypeOK, TypeOK', Consistent(lock, holders),
         \A c \in lock.reserved : status[c] # "parked",
         NEW L \in LockType, NEW H, Consistent(L, H), NEW S,
         Follows(lock, L, S),
         NEW st \in [Coros -> Statuses],
         \A d \in Coros : \/ st[d] = status[d]
                          \/ d \notin Waiters(L.waiters) /\ st[d] # "parked",
         status' = Wake(st, Woken(L)), lock' = L, holders' = H
  PROVE  /\ Consistent(lock, holders)'
         /\ \A c \in lock'.reserved : status'[c] # "parked"
         /\ \A c \in Coros : status'[c] = st[c] \/ c \in lock'.reserved
<1>1. Waiters(L.waiters) \subseteq Coros
  BY EraseFields
<1>2. \A d \in Coros : status'[d] = IF d \in L.reserved \ lock.reserved
                                    THEN "ready" ELSE st[d]
  BY DEF Wake, Woken
<1>3. \A c \in L.reserved : status'[c] # "parked"
  BY <1>1, <1>2 DEF Consistent
<1>4. Consistent(lock, holders)'
  BY <1>1, <1>2, <1>3 DEF Consistent
<1> QED
  BY <1>2, <1>3, <1>4

\* The wake order of an operation is a sequence of coroutines.
LEMMA WakeOrderType ==
  ASSUME NEW L \in LockType
  PROVE  WakeOrder(L) \in Seq(Coros) /\ Woken(L) \subseteq Coros
<1>1. Woken(L) \subseteq Coros
  BY DEF Woken, LockType
<1>2. IsFiniteSet(Woken(L))
  BY <1>1, CorosAssumption, FS_Subset
<1>3. WakeOrder(L) \in Seq(Woken(L))
  BY <1>2, InOrderType DEF WakeOrder
<1> QED
  BY <1>1, <1>3

\* An operation that does not suspend keeps the scheduler's types.
LEMMA GoOnType ==
  ASSUME SchedTypeOK, NEW L \in LockType, GoOn(L)
  PROVE  SchedTypeOK'
<1>1. WakeOrder(L) \in Seq(Coros)
  BY WakeOrderType
<1>2. ready' \in Seq(Coros)
  BY <1>1 DEF GoOn, SchedTypeOK
<1>3. status' \in [Coros -> Statuses]
  BY DEF GoOn, SchedTypeOK, Wake, Statuses
<1>4. pc' \in Places
  BY DEF GoOn, SchedTypeOK, Flush, Places
<1> QED
  BY <1>2, <1>3, <1>4 DEF GoOn, SchedTypeOK

\* What every operation on the lock has in common: it sets the fields to L and
\* the owners to H, wakes whom L newly reserves, and takes the members of S off
\* the set of awaiters.
LEMMA OperationKeepsStateInv ==
  ASSUME StateInv,
         NEW L \in LockType, NEW H \in SUBSET (Coros \cup {Main}),
         Consistent(L, H), \A a, b \in H : a = b,
         NEW S, Follows(lock, L, S), Waiters(L.waiters) \cap S = {},
         H \cap (awaiter \ S) = {},
         NEW st \in [Coros -> Statuses],
         \A d \in Coros : \/ st[d] = status[d]
                          \/ d \notin (awaiter \ S) /\ st[d] # "parked",
         SchedTypeOK', status' = Wake(st, Woken(L)), lock' = L, holders' = H,
         awaiter' = awaiter \ S, aborted' = aborted
  PROVE  StateInv'
<1>1. TypeOK'
  BY DEF StateInv, TypeOK
<1>2. Waiters(L.waiters) \subseteq awaiter \ S
  BY DEF StateInv, AwaiterInv, Follows
<1>3. /\ Consistent(lock, holders)'
      /\ \A c \in lock'.reserved : status'[c] # "parked"
      /\ \A c \in Coros : status'[c] = st[c] \/ c \in lock'.reserved
  <2>1. \A d \in Coros : \/ st[d] = status[d]
                         \/ d \notin Waiters(L.waiters) /\ st[d] # "parked"
    BY <1>2
  <2>2. TypeOK /\ Consistent(lock, holders)
    BY DEF StateInv
  <2>3. \A c \in lock.reserved : status[c] # "parked"
    BY DEF StateInv, AwaiterInv
  <2> QED
    BY <1>1, <2>1, <2>2, <2>3, WakeConsistent
<1>4. ASSUME NEW c \in awaiter \ S
      PROVE  /\ c \notin H
             /\ status'[c] \in {"parked", "ready", "cancelled"}
             /\ status'[c] = "ready" => c \in L.reserved
  <2>1. c \in Coros /\ st[c] = status[c]
    BY DEF StateInv, TypeOK
  <2>2. status[c] \in {"parked", "ready", "cancelled"}
    BY DEF StateInv, AwaiterInv
  <2>3. status[c] = "ready" => c \in L.reserved
    BY DEF StateInv, AwaiterInv, Follows
  <2>4. status'[c] = IF c \in Woken(L) THEN "ready" ELSE status[c]
    BY <2>1 DEF Wake
  <2>5. Woken(L) \subseteq L.reserved
    BY DEF Woken
  <2> QED
    BY <2>2, <2>3, <2>4, <2>5
<1>5. AwaiterInv'
  BY <1>2, <1>3, <1>4 DEF AwaiterInv
<1> QED
  BY <1>1, <1>3, <1>5 DEF StateInv

\* Taking a lock that is free after cleanup, or finding it taken.
LEMMA TakeConsistent ==
  ASSUME StateInv, NEW o \in Coros \cup {Main}
  PROVE  LET L == Cleanup(lock)
             T == [L EXCEPT !.locked = TRUE]
             H == IF L.locked THEN holders ELSE holders \cup {o}
         IN  /\ L \in LockType
             /\ Consistent(L, holders)
             /\ Follows(lock, L, {})
             /\ T \in LockType
             /\ Consistent(T, H)
             /\ Follows(lock, T, {})
             /\ Woken(T) = Woken(L)
             /\ \A a, b \in H : a = b
<1> DEFINE L == Cleanup(lock)
           T == [L EXCEPT !.locked = TRUE]
           H == IF L.locked THEN holders ELSE holders \cup {o}
<1>1. L \in LockType /\ Consistent(L, holders) /\ Follows(lock, L, {})
  BY CleanupConsistent DEF StateInv, TypeOK
<1> HIDE DEF L
<1>2. /\ T \in LockType
      /\ T.waiters = L.waiters
      /\ T.reserved = L.reserved
      /\ T.handoff = L.handoff
      /\ T.locked
  BY <1>1 DEF LockType
<1> HIDE DEF T
<1>3. Follows(lock, T, {}) /\ Woken(T) = Woken(L)
  BY <1>1, <1>2 DEF Follows, Woken
<1>4. \A a, b \in holders : a = b
  BY DEF StateInv, AwaiterInv
<1>5. CASE L.locked
  BY <1>1, <1>2, <1>3, <1>4, <1>5 DEF Consistent, L, T
<1>6. CASE ~L.locked
  <2>1. holders = {} /\ ~L.handoff /\ L.reserved = {} /\ H = {o}
    BY <1>1, <1>6 DEF Consistent
  <2>2. Consistent(T, H)
    BY <1>1, <1>2, <2>1 DEF Consistent
  <2> QED
    BY <1>1, <1>2, <1>3, <2>1, <2>2 DEF L, T
<1> QED
  BY <1>5, <1>6

-----------------------------------------------------------------------------
(* One lemma per group of actions.                                         *)

\* A running coroutine holds no registered AcquireAwaiter: it is not in the list.
LEMMA RunningOutside ==
  ASSUME StateInv, NEW c \in Coros, status[c] = "running"
  PROVE  c \notin awaiter
  BY DEF StateInv, AwaiterInv

\* try_acquire, and acquire on a free lock, in a coroutine
LEMMA TakeKeepsStateInv ==
  ASSUME StateInv, NEW c \in Coros, TryAcquire(c) \/ AcquireNow(c)
  PROVE  StateInv'
<1> DEFINE L == Cleanup(lock)
           T == [L EXCEPT !.locked = TRUE]
           H == IF L.locked THEN holders ELSE holders \cup {c}
<1>1. /\ Running(c) /\ GoOn(L)
      /\ lock' = T /\ holders' = H
      /\ awaiter' = awaiter /\ aborted' = aborted
  BY DEF TryAcquire, AcquireNow
<1>2. /\ L \in LockType
      /\ T \in LockType
      /\ Consistent(T, H)
      /\ Follows(lock, T, {})
      /\ Woken(T) = Woken(L)
      /\ \A a, b \in H : a = b
  BY TakeConsistent
<1>3. c \notin awaiter
  BY <1>1, RunningOutside DEF Running
<1>4. /\ status \in [Coros -> Statuses]
      /\ SchedTypeOK
      /\ holders \cap awaiter = {}
      /\ holders \subseteq Coros \cup {Main}
  BY DEF StateInv, TypeOK, SchedTypeOK, AwaiterInv
<1> HIDE DEF L, T
<1>5. SchedTypeOK'
  BY <1>1, <1>2, <1>4, GoOnType
<1>6. status' = Wake(status, Woken(T))
  BY <1>1, <1>2 DEF GoOn
<1>7. H \cap (awaiter \ {}) = {} /\ H \in SUBSET (Coros \cup {Main})
  BY <1>3, <1>4
<1>8. awaiter' = awaiter \ {} /\ Waiters(T.waiters) \cap {} = {}
  BY <1>1
<1> HIDE DEF H
<1> QED
  BY <1>1, <1>2, <1>4, <1>5, <1>6, <1>7, <1>8, OperationKeepsStateInv

\* try_acquire and locked outside the scheduler
LEMMA MainKeepsStateInv ==
  ASSUME StateInv, MainTryAcquire \/ MainPoll
  PROVE  StateInv'
<1> DEFINE L == Cleanup(lock)
           T == [L EXCEPT !.locked = TRUE]
           H == IF L.locked THEN holders ELSE holders \cup {Main}
<1>1. /\ L \in LockType
      /\ Consistent(L, holders)
      /\ Follows(lock, L, {})
      /\ T \in LockType
      /\ Consistent(T, H)
      /\ Follows(lock, T, {})
      /\ Woken(T) = Woken(L)
      /\ \A a, b \in H : a = b
  BY TakeConsistent
<1>2. /\ status \in [Coros -> Statuses]
      /\ SchedTypeOK
      /\ holders \cap awaiter = {}
      /\ holders \subseteq Coros \cup {Main}
      /\ awaiter \subseteq Coros
      /\ \A a, b \in holders : a = b
  BY DEF StateInv, TypeOK, SchedTypeOK, AwaiterInv
<1>3. /\ awaiter = awaiter \ {}
      /\ Waiters(T.waiters) \cap {} = {}
      /\ Waiters(L.waiters) \cap {} = {}
  OBVIOUS
<1>4. CASE MainTryAcquire
  <2>1. /\ Woken(L) = {}
        /\ lock' = T /\ holders' = H
        /\ UNCHANGED <<schedVars, awaiter, aborted>>
    BY <1>4 DEF MainTryAcquire
  <2> HIDE DEF L, T
  <2>2. SchedTypeOK'
    BY <1>2, <2>1 DEF SchedTypeOK, schedVars
  <2>3. status' = Wake(status, Woken(T))
    BY <1>1, <1>2, <2>1 DEF Wake, schedVars
  <2>4. H \cap (awaiter \ {}) = {} /\ H \in SUBSET (Coros \cup {Main})
    BY <1>2, MainAssumption
  <2> HIDE DEF H
  <2> QED
    BY <1>1, <1>2, <1>3, <2>1, <2>2, <2>3, <2>4, OperationKeepsStateInv
<1>5. CASE MainPoll
  <2>1. /\ GoOn(L) /\ lock' = L
        /\ UNCHANGED <<awaiter, holders, aborted>>
    BY <1>5 DEF MainPoll
  <2> HIDE DEF L
  <2>2. SchedTypeOK'
    BY <1>1, <1>2, <2>1, GoOnType
  <2>3. status' = Wake(status, Woken(L))
    BY <2>1 DEF GoOn
  <2>4. holders \cap (awaiter \ {}) = {}
    BY <1>2
  <2> QED
    BY <1>1, <1>2, <1>3, <2>1, <2>2, <2>3, <2>4, OperationKeepsStateInv
<1> QED
  BY <1>4, <1>5

\* release by a running coroutine or by the code outside
LEMMA ReleaseKeepsStateInv ==
  ASSUME StateInv, NEW o \in Coros \cup {Main}, Release(o)
  PROVE  StateInv'
<1> DEFINE L == Released(lock)
<1>1. /\ ~ReleaseRefused(lock)
      /\ L \in LockType
      /\ Consistent(L, {})
      /\ Follows(lock, L, {})
  BY ReleasedConsistent DEF StateInv, TypeOK, Release
<1>2. /\ holders' = {}
      /\ lock' = L /\ GoOn(L)
      /\ UNCHANGED <<awaiter, aborted>>
  BY <1>1 DEF Release, StateInv, AwaiterInv, TypeOK
<1>3. status \in [Coros -> Statuses] /\ SchedTypeOK
  BY DEF StateInv, TypeOK, SchedTypeOK
<1> HIDE DEF L
<1>4. SchedTypeOK'
  BY <1>1, <1>2, <1>3, GoOnType
<1>5. status' = Wake(status, Woken(L))
  BY <1>2 DEF GoOn
<1>6. /\ awaiter' = awaiter \ {}
      /\ Waiters(L.waiters) \cap {} = {}
      /\ {} \cap (awaiter \ {}) = {}
  BY <1>2
<1> QED
  BY <1>1, <1>2, <1>3, <1>4, <1>5, <1>6, OperationKeepsStateInv

\* A coroutine resumes; one that was acquiring becomes the owner.
LEMMA ResumeKeepsStateInv ==
  ASSUME StateInv, NEW c \in Coros, ResumeCoro(c)
  PROVE  StateInv'
<1> DEFINE st == [status EXCEPT ![c] = "running"]
<1>1. /\ status \in [Coros -> Statuses]
      /\ SchedTypeOK
      /\ st \in [Coros -> Statuses]
      /\ lock \in LockType
      /\ <<>> \in Seq(Coros)
  BY DEF StateInv, TypeOK, SchedTypeOK, Statuses
<1>2. status[c] = "ready"
  BY DEF ResumeCoro, Resume
<1>3. CASE c \notin awaiter
  <2>1. Resume(c, {}, <<>>) /\ UNCHANGED lockVars
    BY <1>3 DEF ResumeCoro
  <2>2. SchedTypeOK'
    BY <1>1, <2>1, ResumeType
  <2>3. status' = Wake(st, Woken(lock))
    BY <2>1 DEF Resume, Wake, Woken
  <2>4. /\ Consistent(lock, holders)
        /\ Follows(lock, lock, {})
        /\ \A a, b \in holders : a = b
        /\ holders \cap (awaiter \ {}) = {}
        /\ holders \in SUBSET (Coros \cup {Main})
    BY DEF StateInv, TypeOK, AwaiterInv, Follows
  <2>5. \A d \in Coros : \/ st[d] = status[d]
                         \/ d \notin (awaiter \ {}) /\ st[d] # "parked"
    BY <1>1, <1>3
  <2>6. /\ lock' = lock /\ holders' = holders
        /\ awaiter' = awaiter \ {} /\ aborted' = aborted
        /\ Waiters(lock.waiters) \cap {} = {}
    BY <2>1 DEF lockVars
  <2> HIDE DEF st
  <2> QED
    BY <1>1, <2>2, <2>3, <2>4, <2>5, <2>6, OperationKeepsStateInv
<1>4. CASE c \in awaiter
  <2> DEFINE L == FinishAcquire(lock, c)
  <2>1. /\ c \in lock.reserved
        /\ c \in Waiters(lock.waiters)
        /\ lock.handoff
        /\ holders = {}
    BY <1>2, <1>4 DEF StateInv, AwaiterInv, Consistent
  <2>2. ~ResumedWithoutOwnership(lock, c)
    BY <2>1 DEF ResumedWithoutOwnership
  <2>3. /\ Resume(c, Woken(L), WakeOrder(L))
        /\ lock' = L
        /\ awaiter' = awaiter \ {c}
        /\ holders' = {c}
        /\ aborted' = aborted
    BY <1>4, <2>1, <2>2 DEF ResumeCoro, StateInv, TypeOK
  <2>4. /\ L \in LockType
        /\ Consistent(L, {c})
        /\ Follows(lock, L, {c})
        /\ c \notin Waiters(L.waiters)
    BY <1>1, <1>2, <2>1, FinishAcquireConsistent DEF StateInv
  <2> HIDE DEF L
  <2>5. SchedTypeOK'
    BY <1>1, <2>3, <2>4, WakeOrderType, ResumeType
  <2>6. status' = Wake(st, Woken(L))
    BY <2>3 DEF Resume
  <2>7. \A d \in Coros : \/ st[d] = status[d]
                         \/ d \notin (awaiter \ {c}) /\ st[d] # "parked"
    BY <1>1
  <2>8. /\ {c} \in SUBSET (Coros \cup {Main})
        /\ \A a, b \in {c} : a = b
        /\ {c} \cap (awaiter \ {c}) = {}
        /\ Waiters(L.waiters) \cap {c} = {}
    BY <2>4
  <2> HIDE DEF st
  <2> QED
    BY <1>1, <2>3, <2>4, <2>5, <2>6, <2>7, <2>8, OperationKeepsStateInv
<1> QED
  BY <1>3, <1>4

\* The frame of a cancelled or finished coroutine is destroyed.
LEMMA DestroyKeepsStateInv ==
  ASSUME StateInv, NEW c \in Coros, DestroyCoro(c)
  PROVE  StateInv'
<1> DEFINE st == [status EXCEPT ![c] = "gone"]
<1>1. /\ status \in [Coros -> Statuses]
      /\ SchedTypeOK
      /\ st \in [Coros -> Statuses]
      /\ lock \in LockType
      /\ Consistent(lock, holders)
      /\ \A a, b \in holders : a = b
      /\ holders \cap awaiter = {}
      /\ holders \in SUBSET (Coros \cup {Main})
      /\ <<>> \in Seq(Coros)
  BY DEF StateInv, TypeOK, SchedTypeOK, Statuses, AwaiterInv
<1>2. \A d \in Coros : \/ st[d] = status[d]
                       \/ d = c /\ st[d] # "parked"
  BY <1>1
<1> HIDE DEF st
<1>3. CASE c \in awaiter
  <2> DEFINE L == Abandon(lock, c)
  <2>1. /\ Destroy(c, Woken(L), WakeOrder(L))
        /\ lock' = L
        /\ awaiter' = awaiter \ {c}
        /\ UNCHANGED <<holders, aborted>>
    BY <1>1, <1>3 DEF DestroyCoro
  <2>2. status[c] = "cancelled"
    <3>1. Done(c)
      BY <2>1 DEF Destroy, CollectRoot, ReclaimRoot, ReclaimChild
    <3> QED
      BY <1>3, <3>1 DEF StateInv, AwaiterInv, Done
  <2>3. /\ L \in LockType
        /\ Consistent(L, holders)
        /\ Follows(lock, L, {c})
        /\ c \notin Waiters(L.waiters)
    BY <1>1, <2>2, AbandonConsistent
  <2> HIDE DEF L
  <2>4. SchedTypeOK' /\ status' = Wake(st, Woken(L))
    BY <1>1, <2>1, <2>3, WakeOrderType, DestroyStep DEF st
  <2>5. /\ holders \cap (awaiter \ {c}) = {}
        /\ Waiters(L.waiters) \cap {c} = {}
        /\ \A d \in Coros : \/ st[d] = status[d]
                            \/ d \notin (awaiter \ {c}) /\ st[d] # "parked"
    BY <1>1, <1>2, <2>3
  <2> QED
    BY <1>1, <2>1, <2>3, <2>4, <2>5, OperationKeepsStateInv
<1>4. CASE c \in holders
  <2> DEFINE L == Released(lock)
  <2>1. /\ ~ReleaseRefused(lock)
        /\ L \in LockType
        /\ Consistent(L, {})
        /\ Follows(lock, L, {})
    BY <1>1, <1>4, ReleasedConsistent
  <2>2. /\ Destroy(c, Woken(L), WakeOrder(L))
        /\ lock' = L
        /\ holders' = {}
        /\ aborted' = aborted
        /\ awaiter' = awaiter
    BY <1>1, <1>4, <2>1 DEF DestroyCoro, StateInv, TypeOK
  <2> HIDE DEF L
  <2>3. SchedTypeOK' /\ status' = Wake(st, Woken(L))
    BY <1>1, <2>1, <2>2, WakeOrderType, DestroyStep DEF st
  <2>4. /\ {} \cap (awaiter \ {}) = {}
        /\ awaiter' = awaiter \ {}
        /\ Waiters(L.waiters) \cap {} = {}
        /\ \A d \in Coros : \/ st[d] = status[d]
                            \/ d \notin (awaiter \ {}) /\ st[d] # "parked"
    BY <1>1, <1>2, <1>4, <2>2
  <2> QED
    BY <1>1, <2>1, <2>2, <2>3, <2>4, OperationKeepsStateInv
<1>5. CASE c \notin awaiter \cup holders
  <2>1. Destroy(c, {}, <<>>) /\ UNCHANGED lockVars
    BY <1>5 DEF DestroyCoro
  <2>2. SchedTypeOK' /\ status' = Wake(st, {})
    BY <1>1, <2>1, DestroyStep DEF st
  <2>3. Woken(lock) = {} /\ Follows(lock, lock, {})
    BY DEF Woken, Follows, StateInv, AwaiterInv
  <2>4. /\ lock' = lock /\ holders' = holders /\ aborted' = aborted
        /\ awaiter' = awaiter \ {}
        /\ holders \cap (awaiter \ {}) = {}
        /\ Waiters(lock.waiters) \cap {} = {}
        /\ \A d \in Coros : \/ st[d] = status[d]
                            \/ d \notin (awaiter \ {}) /\ st[d] # "parked"
    BY <1>1, <1>2, <1>5, <2>1 DEF lockVars
  <2> QED
    BY <1>1, <2>2, <2>3, <2>4, OperationKeepsStateInv
<1> QED
  BY <1>3, <1>4, <1>5

\* acquire on a taken lock parks the coroutine at the end of the list.
LEMMA ParkKeepsStateInv ==
  ASSUME StateInv, NEW c \in Coros, AcquirePark(c)
  PROVE  StateInv'
<1> DEFINE L == Cleanup(lock)
           P == [L EXCEPT !.waiters = PushBack(L.waiters, c)]
           st == [status EXCEPT ![c] = "parked"]
<1>1. /\ status \in [Coros -> Statuses]
      /\ ready \in Seq(Coros)
      /\ SchedTypeOK
      /\ lock \in LockType
      /\ Consistent(lock, holders)
      /\ st \in [Coros -> Statuses]
  BY DEF StateInv, TypeOK, SchedTypeOK, Statuses
<1>2. /\ status[c] = "running" /\ c \notin holders
      /\ L.locked
      /\ lock' = P
      /\ awaiter' = awaiter \cup {c}
      /\ status' = Wake(st, Woken(L))
      /\ ready' = ready \o WakeOrder(L)
      /\ pc' = "apply"
      /\ UNCHANGED <<pending, roots, children, outer, holders, aborted>>
  BY DEF AcquirePark, Running
<1>3. L \in LockType /\ Consistent(L, holders) /\ Follows(lock, L, {})
  BY <1>1, CleanupConsistent
<1>4. c \notin awaiter /\ c \notin Waiters(L.waiters)
  BY <1>2, <1>3, RunningOutside DEF StateInv, AwaiterInv, Follows
<1> HIDE DEF L
<1>5. /\ PushBack(L.waiters, c) \in ListsOver(Coros)
      /\ Waiters(PushBack(L.waiters, c)) = Waiters(L.waiters) \cup {c}
  BY <1>3, ListType DEF LockType
<1>6. /\ P \in LockType
      /\ Waiters(P.waiters) = Waiters(L.waiters) \cup {c}
      /\ P.reserved = L.reserved
      /\ P.locked
      /\ P.handoff = L.handoff
  BY <1>2, <1>3, <1>5 DEF LockType
<1>7. TypeOK'
  <2>1. ready' \in Seq(Coros)
    BY <1>1, <1>2, <1>3, WakeOrderType, SeqType, Zenon
  <2>2. status' \in [Coros -> Statuses]
    BY <1>1, <1>2 DEF Wake, Statuses
  <2>3. SchedTypeOK'
    BY <1>1, <1>2, <2>1, <2>2 DEF SchedTypeOK, Places
  <2> QED
    BY <1>2, <1>6, <2>3 DEF StateInv, TypeOK
<1> HIDE DEF P
<1>8. \A d \in Coros : status'[d] = IF d \in L.reserved \ lock.reserved
                                    THEN "ready"
                                    ELSE IF d = c THEN "parked" ELSE status[d]
  BY <1>1, <1>2 DEF Wake, Woken
<1>9. /\ Waiters(L.waiters) \subseteq Coros
      /\ L.reserved \subseteq Waiters(L.waiters)
      /\ Waiters(L.waiters) \subseteq awaiter
      /\ awaiter \subseteq Coros
  BY <1>3, EraseFields DEF Consistent, Follows, StateInv, AwaiterInv, TypeOK
<1>10. \A d \in L.reserved : status'[d] # "parked"
  BY <1>4, <1>8, <1>9 DEF StateInv, AwaiterInv
<1>11. Consistent(lock, holders)'
  BY <1>2, <1>3, <1>4, <1>6, <1>8, <1>9, <1>10 DEF Consistent
<1>12. ASSUME NEW d \in awaiter \cup {c}
       PROVE  /\ d \notin holders
              /\ status'[d] \in {"parked", "ready", "cancelled"}
              /\ status'[d] = "ready" => d \in L.reserved
  <2>1. CASE d = c
    BY <1>2, <1>4, <1>8, <1>9, <2>1
  <2>2. CASE d \in awaiter
    BY <1>3, <1>4, <1>8, <1>9, <2>2 DEF StateInv, AwaiterInv, Follows
  <2> QED
    BY <2>1, <2>2
<1>13. AwaiterInv'
  BY <1>2, <1>6, <1>9, <1>10, <1>12 DEF StateInv, AwaiterInv
<1> QED
  BY <1>2, <1>7, <1>11, <1>13 DEF StateInv

\* The scheduler's own steps, and a coroutine that ends, leave the lock alone.
LEMMA OtherKeepsStateInv ==
  ASSUME StateInv, UNCHANGED lockVars,
         Housekeeping \/ Elsewhere \/ \E c \in Coros : FinishCoro(c)
  PROVE  StateInv'
<1>1. SchedTypeOK
  BY DEF StateInv, TypeOK
<1>2. /\ SchedTypeOK'
      /\ \A c \in Coros :
           \/ status'[c] = status[c]
           \/ Live(c) /\ status'[c] = "cancelled"
           \/ /\ status[c] \in {"gone", "sleeping", "running"}
              /\ status'[c] \in {"ready", "sleeping", "done"}
  <2>1. CASE Housekeeping \/ Elsewhere
    BY <1>1, <2>1, SchedulerStep
  <2>2. CASE \E c \in Coros : FinishCoro(c)
    <3>1. PICK c \in Coros : FinishCoro(c)
      BY <2>2
    <3>2. /\ status[c] = "running"
          /\ status' = [status EXCEPT ![c] = "done"]
          /\ roots' = roots \/ roots' = Append(roots, c)
          /\ children' = children \/ children' = Append(children, c)
          /\ pc' = "apply"
          /\ UNCHANGED <<ready, pending, outer>>
      BY <3>1 DEF FinishCoro, Finish, Running
    <3>3. roots' \in Seq(Coros) /\ children' \in Seq(Coros)
      BY <1>1, <3>2, SeqType, Zenon DEF SchedTypeOK
    <3> QED
      BY <1>1, <3>2, <3>3 DEF SchedTypeOK, Statuses, Places
  <2> QED
    BY <2>1, <2>2
<1>3. /\ lock' = lock /\ awaiter' = awaiter
      /\ holders' = holders /\ aborted' = aborted
  BY DEF lockVars
<1>4. TypeOK'
  BY <1>2, <1>3 DEF StateInv, TypeOK
<1>5. Waiters(lock.waiters) \subseteq Coros /\ awaiter \subseteq Coros
  BY EraseFields DEF StateInv, TypeOK
<1>6. Consistent(lock, holders)'
  BY <1>2, <1>3, <1>5 DEF StateInv, Consistent
<1>7. AwaiterInv'
  BY <1>2, <1>3, <1>5 DEF StateInv, AwaiterInv, Consistent
<1> QED
  BY <1>3, <1>4, <1>6, <1>7 DEF StateInv

-----------------------------------------------------------------------------
(* Initial states and steps.                                               *)

\* A freshly constructed Lock satisfies the invariant.
LEMMA InitStateInv ==
  Init => StateInv
<1> SUFFICES ASSUME Init PROVE StateInv
  OBVIOUS
<1>1. EmptyList \in [{} -> SUBSET Coros]
  BY DEF EmptyList
<1>2. EmptyList \in ListsOver(Coros) /\ Waiters(EmptyList) = {}
  BY <1>1 DEF ListsOver, Waiters
<1>3. SchedTypeOK /\ \A c \in Coros : status[c] = "gone"
  BY DEF Init, SchedInit, SchedTypeOK, Statuses, Places
<1>4. /\ lock \in LockType
      /\ Waiters(lock.waiters) = {}
      /\ lock.reserved = {}
      /\ ~lock.locked
      /\ ~lock.handoff
  BY <1>2 DEF Init, LockType
<1>5. awaiter = {} /\ holders = {} /\ aborted = FALSE
  BY DEF Init
<1>6. TypeOK
  BY <1>3, <1>4, <1>5 DEF TypeOK
<1>7. Consistent(lock, holders)
  BY <1>3, <1>4, <1>5 DEF Consistent
<1>8. AwaiterInv
  BY <1>4, <1>5 DEF AwaiterInv
<1> QED
  BY <1>5, <1>6, <1>7, <1>8 DEF StateInv

\* Every step preserves the invariant: one case per action of Next.
LEMMA NextStateInv ==
  StateInv /\ [Next]_vars => StateInv'
<1> SUFFICES ASSUME StateInv, [Next]_vars PROVE StateInv'
  OBVIOUS
<1>1. ASSUME NEW c \in Coros, TryAcquire(c) \/ Acquire(c) PROVE StateInv'
  BY <1>1, TakeKeepsStateInv, ParkKeepsStateInv DEF Acquire
<1>2. ASSUME NEW c \in Coros, ResumeCoro(c) PROVE StateInv'
  BY <1>2, ResumeKeepsStateInv
<1>3. ASSUME NEW c \in Coros, FinishCoro(c) PROVE StateInv'
  <2>1. UNCHANGED lockVars
    BY <1>3 DEF FinishCoro
  <2> QED
    BY <1>3, <2>1, OtherKeepsStateInv
<1>4. ASSUME NEW c \in Coros, DestroyCoro(c) PROVE StateInv'
  BY <1>4, DestroyKeepsStateInv
<1>5. ASSUME NEW o \in Coros \cup {Main}, Release(o) PROVE StateInv'
  BY <1>5, ReleaseKeepsStateInv
<1>6. CASE MainTryAcquire \/ MainPoll
  BY <1>6, MainKeepsStateInv
<1>7. CASE (Housekeeping \/ Elsewhere) /\ UNCHANGED lockVars
  BY <1>7, OtherKeepsStateInv
<1>8. CASE UNCHANGED vars
  <2>1. UNCHANGED <<status, ready, pending, roots, children, pc, outer,
                    lock, awaiter, holders, aborted>>
    BY <1>8 DEF vars, schedVars, lockVars
  <2> QED
    BY <2>1 DEF StateInv, TypeOK, SchedTypeOK, Consistent, AwaiterInv
<1> QED
  BY <1>1, <1>2, <1>3, <1>4, <1>5, <1>6, <1>7, <1>8 DEF Next

-----------------------------------------------------------------------------
(* The order of the waiters.                                               *)

\* Erasing waiters keeps the order, and nobody new gets in front of anybody.
LEMMA EraseOrdered ==
  ASSUME NEW L \in LockType, Ordered(L), NEW S,
         L.reserved \subseteq Waiters(L.waiters)
  PROVE  Ordered(Erase(L, S))
<1>1. L.waiters \in ListsOver(Coros) /\ IsWaitList(L.waiters)
  BY DEF LockType, Ordered
<1>2. IsWaitList(EraseAll(L.waiters, S))
  BY <1>1, ListOrder
<1>3. /\ Erase(L, S).waiters = EraseAll(L.waiters, S)
      /\ Erase(L, S).reserved = L.reserved \ S
  BY DEF Erase, LockType
<1>4. \A c \in Waiters(L.waiters) \ S :
        EraseAll(L.waiters, S)[c] = L.waiters[c] \ S
  BY DEF EraseAll, Waiters
<1> QED
  BY <1>2, <1>3, <1>4 DEF Ordered

\* handoff_or_unlock reserves the lock for a waiter with nobody parked in front.
LEMMA HandoffOrdered ==
  ASSUME NEW L \in LockType, L.reserved = {}, Ordered(L)
  PROVE  Ordered(HandoffOrUnlock(L))
<1> DEFINE open == Waiters(L.waiters) \ L.reserved
           wakeable == {c \in open : status[c] = "parked"}
           next == Oldest(L.waiters, wakeable)
           skipped == (open \ wakeable) \cap L.waiters[next]
<1>1. /\ L.waiters \in ListsOver(Coros)
      /\ IsWaitList(L.waiters)
      /\ Waiters(L.waiters) \subseteq Coros
  BY EraseFields DEF LockType, Ordered
<1>2. CASE wakeable = {}
  <2> DEFINE E == Erase(L, open)
  <2>1. Ordered(E) /\ E \in LockType
    BY EraseOrdered, EraseFields
  <2>2. HandoffOrUnlock(L)
          = [E EXCEPT !.locked = FALSE, !.handoff = L.handoff /\ open = {}]
    BY <1>2 DEF HandoffOrUnlock
  <2> HIDE DEF E, open
  <2> QED
    BY <2>1, <2>2 DEF Ordered, LockType
<1>3. CASE wakeable # {}
  <2> DEFINE E == Erase(L, skipped)
             H == HandoffOrUnlock(L)
  <2>1. /\ Ordered(E) /\ E \in LockType
        /\ E.waiters = EraseAll(L.waiters, skipped)
    BY EraseOrdered, EraseFields DEF Erase, LockType
  <2>2. H = [E EXCEPT !.reserved = L.reserved \cup {next}, !.handoff = TRUE]
    BY <1>3 DEF HandoffOrUnlock
  <2>3. wakeable \in SUBSET DOMAIN L.waiters /\ IsFiniteSet(wakeable)
    <3>1. wakeable \in SUBSET Coros
      BY <1>1
    <3> QED
      BY <3>1, CorosAssumption, FS_Subset DEF Waiters
  <2>4. next \in wakeable /\ L.waiters[next] \cap wakeable = {}
    <3> HIDE DEF wakeable
    <3> QED
      BY <1>1, <1>3, <2>3, OldestIsOldest DEF IsOldest
  <2>5. E.waiters[next] = L.waiters[next] \ skipped
    BY <2>1, <2>4 DEF EraseAll, Waiters
  <2>6. L.waiters[next] \subseteq Waiters(L.waiters)
    BY <1>1, <2>4 DEF IsWaitList, Waiters
  <2>7. \A d \in E.waiters[next] : status[d] # "parked"
    BY <2>4, <2>5, <2>6
  <2> HIDE DEF E, next, open
  <2>8. H.waiters = E.waiters /\ H.reserved = {next}
    BY <2>1, <2>2 DEF LockType
  <2> QED
    BY <2>1, <2>7, <2>8 DEF Ordered
<1> QED
  BY <1>2, <1>3

\* Changing handoff_pending_ or locked_ does not touch the order.
LEMMA FlagsOrdered ==
  ASSUME NEW L \in LockType, Ordered(L)
  PROVE  /\ Ordered([L EXCEPT !.handoff = FALSE])
         /\ \A b \in BOOLEAN : Ordered([L EXCEPT !.locked = b])
  BY DEF Ordered, LockType

\* cleanup keeps the order.
LEMMA CleanupOrdered ==
  ASSUME NEW L \in LockType, Ordered(L),
         L.reserved \subseteq Waiters(L.waiters),
         \A a, b \in L.reserved : a = b
  PROVE  Ordered(Cleanup(L))
<1> DEFINE dead == {c \in Waiters(L.waiters) : ~Live(c)}
           E == Erase(L, dead)
           F == [E EXCEPT !.handoff = FALSE]
<1>1. E \in LockType /\ Ordered(E) /\ E.reserved = L.reserved \ dead
  BY EraseFields, EraseOrdered
<1>2. CASE dead \cap L.reserved = {}
  BY <1>1, <1>2 DEF Cleanup
<1>3. CASE dead \cap L.reserved # {}
  <2> HIDE DEF E, dead
  <2>1. F \in LockType /\ Ordered(F) /\ F.reserved = {}
    BY <1>1, <1>3, FlagsOrdered DEF LockType
  <2>2. Cleanup(L) = HandoffOrUnlock(F)
    BY <1>3 DEF Cleanup, E, dead
  <2> HIDE DEF F
  <2> QED
    BY <2>1, <2>2, HandoffOrdered
<1> QED
  BY <1>2, <1>3

\* So does release by the owner.
LEMMA ReleasedOrdered ==
  ASSUME NEW L \in LockType, NEW H, Consistent(L, H), H # {}, Ordered(L)
  PROVE  Ordered(Released(L))
<1>1. CASE Waiters(L.waiters) = {} /\ ~L.handoff
  BY <1>1, FlagsOrdered DEF Released
<1>2. CASE ~(Waiters(L.waiters) = {} /\ ~L.handoff)
  <2>1. Cleanup(L) \in LockType /\ Cleanup(L).reserved = {}
    BY CleanupConsistent
  <2>2. Ordered(Cleanup(L))
    BY CleanupOrdered DEF Consistent
  <2>3. Released(L) = HandoffOrUnlock(Cleanup(L))
    BY <1>2 DEF Released
  <2> QED
    BY <2>1, <2>2, <2>3, HandoffOrdered
<1> QED
  BY <1>1, <1>2

\* So does the resumption of the waiter with the reservation.
LEMMA FinishAcquireOrdered ==
  ASSUME NEW L \in LockType, NEW H, Consistent(L, H), Ordered(L), NEW c
  PROVE  Ordered(FinishAcquire(L, c))
<1> DEFINE E == Erase(L, {c})
           F == [E EXCEPT !.handoff = FALSE]
<1>1. /\ E \in LockType /\ Ordered(E)
      /\ E.reserved = L.reserved \ {c}
      /\ Waiters(E.waiters) = Waiters(L.waiters) \ {c}
  BY EraseFields, EraseOrdered DEF Consistent
<1> HIDE DEF E
<1>2. /\ F \in LockType /\ Ordered(F)
      /\ F.reserved = E.reserved /\ F.waiters = E.waiters
  BY <1>1, FlagsOrdered DEF LockType
<1>3. FinishAcquire(L, c) = Cleanup(F)
  BY DEF FinishAcquire, E
<1> HIDE DEF F
<1>4. /\ F.reserved \subseteq Waiters(F.waiters)
      /\ \A a, b \in F.reserved : a = b
  BY <1>1, <1>2 DEF Consistent
<1> QED
  BY <1>2, <1>3, <1>4, CleanupOrdered

\* So does the destructor of an awaiter.
LEMMA AbandonOrdered ==
  ASSUME NEW L \in LockType, NEW H, Consistent(L, H), Ordered(L), NEW c \in Coros,
         status[c] = "cancelled"
  PROVE  Ordered(Abandon(L, c))
<1> DEFINE E == Erase(L, {c})
           F == [E EXCEPT !.handoff = FALSE]
<1>1. /\ E \in LockType /\ Ordered(E)
      /\ E.reserved = L.reserved \ {c}
      /\ Waiters(E.waiters) = Waiters(L.waiters) \ {c}
      /\ E.locked = L.locked
  BY EraseFields, EraseOrdered DEF Consistent
<1>2. CASE c \notin Waiters(L.waiters)
  BY <1>2 DEF Abandon
<1>3. CASE c \in Waiters(L.waiters) /\ c \notin L.reserved
  <2>1. /\ E.reserved \subseteq Waiters(E.waiters)
        /\ \A a, b \in E.reserved : a = b
    BY <1>1, <1>3 DEF Consistent
  <2>2. Abandon(L, c) = Cleanup(E)
    BY <1>3 DEF Abandon
  <2> HIDE DEF E
  <2> QED
    BY <1>1, <2>1, <2>2, CleanupOrdered
<1>4. CASE c \in Waiters(L.waiters) /\ c \in L.reserved
  <2>1. L.reserved = {c} /\ L.locked
    BY <1>4 DEF Consistent
  <2>2. Abandon(L, c) = HandoffOrUnlock(Cleanup(F))
    BY <1>4 DEF Abandon
  <2> HIDE DEF E
  <2>3. /\ F \in LockType /\ Ordered(F)
        /\ F.reserved = {} /\ F.locked /\ ~F.handoff
        /\ F.waiters = E.waiters
    BY <1>1, <2>1, FlagsOrdered DEF LockType
  <2> HIDE DEF F
  <2>4. Consistent(F, {c})
    BY <1>1, <2>1, <2>3 DEF Consistent
  <2>5. Cleanup(F) \in LockType /\ Cleanup(F).reserved = {}
    BY <2>3, <2>4, CleanupConsistent
  <2>6. Ordered(Cleanup(F))
    BY <2>3, CleanupOrdered
  <2> QED
    BY <2>2, <2>5, <2>6, HandoffOrdered
<1> QED
  BY <1>2, <1>3, <1>4

\* An operation that leaves the fields L behind and parks nobody who is listed
\* keeps the order.
LEMMA OperationKeepsOrder ==
  ASSUME NEW L \in LockType, Ordered(L), lock' = L,
         L.reserved \subseteq Waiters(L.waiters),
         \A d \in Waiters(L.waiters) :
           status'[d] = "parked" => status[d] = "parked"
  PROVE  Ordered(lock)'
  BY DEF Ordered, IsWaitList, Waiters

\* Waking parks nobody.
LEMMA WakeParksNobody ==
  ASSUME NEW st \in [Coros -> Statuses], NEW S, status' = Wake(st, S),
         \A d \in Coros : st[d] = "parked" => status[d] = "parked"
  PROVE  \A d \in Coros : status'[d] = "parked" => status[d] = "parked"
  BY DEF Wake

\* The operations of whoever runs, and the resumption and destruction of a
\* coroutine: fields that are ordered, and statuses that wake and park nobody.
LEMMA CoroutineKeepsOrder ==
  ASSUME IInv,
         \/ \E c \in Coros : \/ TryAcquire(c) \/ AcquireNow(c)
                             \/ ResumeCoro(c) \/ DestroyCoro(c)
         \/ \E o \in Coros \cup {Main} : Release(o)
         \/ MainTryAcquire \/ MainPoll,
         StateInv'
  PROVE  Ordered(lock)'
<1>1. /\ lock \in LockType /\ Consistent(lock, holders) /\ Ordered(lock)
      /\ status \in [Coros -> Statuses]
      /\ lock.reserved \subseteq Waiters(lock.waiters)
      /\ \A a, b \in lock.reserved : a = b
  BY DEF IInv, StateInv, TypeOK, SchedTypeOK, Consistent
<1>2. /\ lock' \in LockType
      /\ lock'.reserved \subseteq Waiters(lock'.waiters)
      /\ Waiters(lock'.waiters) \subseteq Coros
  <2>1. lock' \in LockType /\ Consistent(lock, holders)'
    BY DEF StateInv, TypeOK
  <2> QED
    BY <2>1, EraseFields DEF Consistent
<1>3. Ordered(Cleanup(lock)) /\ Cleanup(lock) \in LockType
  BY <1>1, CleanupOrdered, CleanupConsistent
<1>4. /\ Ordered(lock')
      /\ \A d \in Coros : status'[d] = "parked" => status[d] = "parked"
  <2>1. CASE \E c \in Coros : TryAcquire(c) \/ AcquireNow(c)
    <3>1. PICK c \in Coros : TryAcquire(c) \/ AcquireNow(c)
      BY <2>1
    <3>2. /\ lock' = [Cleanup(lock) EXCEPT !.locked = TRUE]
          /\ status' = Wake(status, Woken(Cleanup(lock)))
      BY <3>1 DEF TryAcquire, AcquireNow, GoOn
    <3> QED
      BY <1>1, <1>3, <3>2, FlagsOrdered, WakeParksNobody
  <2>2. CASE MainTryAcquire
    <3>1. /\ lock' = [Cleanup(lock) EXCEPT !.locked = TRUE]
          /\ status' = status
      BY <2>2 DEF MainTryAcquire, schedVars
    <3> QED
      BY <1>3, <3>1, FlagsOrdered
  <2>3. CASE MainPoll
    <3>1. /\ lock' = Cleanup(lock)
          /\ status' = Wake(status, Woken(Cleanup(lock)))
      BY <2>3 DEF MainPoll, GoOn
    <3> QED
      BY <1>1, <1>3, <3>1, WakeParksNobody
  <2>4. CASE \E o \in Coros \cup {Main} : Release(o)
    <3>1. PICK o \in Coros \cup {Main} : Release(o)
      BY <2>4
    <3>2. /\ lock' = Released(lock) /\ holders # {}
          /\ status' = Wake(status, Woken(Released(lock)))
      BY <3>1 DEF Release, GoOn
    <3> QED
      BY <1>1, <3>2, ReleasedOrdered, WakeParksNobody
  <2>5. CASE \E c \in Coros : ResumeCoro(c)
    <3>1. PICK c \in Coros : ResumeCoro(c)
      BY <2>5
    <3> DEFINE st == [status EXCEPT ![c] = "running"]
    <3>2. /\ lock' = lock \/ lock' = FinishAcquire(lock, c)
          /\ \E S : status' = Wake(st, S)
      BY <3>1 DEF ResumeCoro, Resume, lockVars
    <3>3. /\ st \in [Coros -> Statuses]
          /\ \A d \in Coros : st[d] = "parked" => status[d] = "parked"
      BY <1>1 DEF Statuses
    <3> HIDE DEF st
    <3> QED
      BY <1>1, <3>2, <3>3, FinishAcquireOrdered, WakeParksNobody
  <2>6. CASE \E c \in Coros : DestroyCoro(c)
    <3>1. PICK c \in Coros : DestroyCoro(c)
      BY <2>6
    <3> DEFINE st == [status EXCEPT ![c] = "gone"]
    <3>2. /\ Done(c) /\ \E S : status' = Wake(st, S)
          /\ \/ lock' = lock
             \/ c \in awaiter /\ lock' = Abandon(lock, c)
             \/ holders # {} /\ lock' = Released(lock)
      BY <3>1 DEF DestroyCoro, Destroy, CollectRoot, ReclaimRoot,
                  ReclaimChild, lockVars
    <3>3. c \in awaiter => status[c] = "cancelled"
      BY <3>2 DEF IInv, StateInv, AwaiterInv, Done
    <3>4. /\ st \in [Coros -> Statuses]
          /\ \A d \in Coros : st[d] = "parked" => status[d] = "parked"
      BY <1>1 DEF Statuses
    <3> HIDE DEF st
    <3> QED
      BY <1>1, <3>2, <3>3, <3>4, AbandonOrdered, ReleasedOrdered,
         WakeParksNobody
  <2> QED
    BY <2>1, <2>2, <2>3, <2>4, <2>5, <2>6
<1> QED
  BY <1>2, <1>4, OperationKeepsOrder

\* A coroutine parks behind everybody else.
LEMMA ParkKeepsOrder ==
  ASSUME IInv, NEW c \in Coros, AcquirePark(c), StateInv'
  PROVE  Ordered(lock)'
<1> DEFINE L == Cleanup(lock)
<1>1. /\ L \in LockType /\ Ordered(L) /\ Follows(lock, L, {})
      /\ L.reserved \subseteq Waiters(L.waiters)
  BY CleanupOrdered, CleanupConsistent DEF IInv, StateInv, TypeOK, Consistent
<1>2. /\ lock' = [L EXCEPT !.waiters = PushBack(L.waiters, c)]
      /\ status' = Wake([status EXCEPT ![c] = "parked"], Woken(L))
      /\ status[c] = "running"
  BY DEF AcquirePark, Running
<1>3. c \notin Waiters(L.waiters)
  BY <1>1, <1>2, RunningOutside DEF IInv, StateInv, AwaiterInv, Follows
<1> HIDE DEF L
<1>4. /\ L.waiters \in ListsOver(Coros) /\ IsWaitList(L.waiters)
      /\ Waiters(L.waiters) \subseteq Coros
      /\ status \in [Coros -> Statuses]
  BY <1>1, EraseFields DEF LockType, Ordered, IInv, StateInv, TypeOK, SchedTypeOK
<1>5. /\ lock'.waiters = PushBack(L.waiters, c)
      /\ lock'.reserved = L.reserved
  BY <1>1, <1>2 DEF LockType
<1>6. IsWaitList(lock'.waiters)
  BY <1>3, <1>4, <1>5, ListOrder
<1>7. \A d \in Waiters(L.waiters) : lock'.waiters[d] = L.waiters[d]
  BY <1>3, <1>5 DEF PushBack, Waiters
<1>8. \A d \in Waiters(L.waiters) :
        L.waiters[d] \subseteq Waiters(L.waiters)
  BY <1>4 DEF IsWaitList, Waiters
<1>9. \A d \in Waiters(L.waiters) :
        status'[d] = "parked" => status[d] = "parked"
  BY <1>2, <1>3, <1>4 DEF Wake
<1> QED
  BY <1>1, <1>5, <1>6, <1>7, <1>8, <1>9 DEF Ordered

\* Every step keeps the order.
LEMMA NextOrdered ==
  ASSUME IInv, [Next]_vars, StateInv'
  PROVE  Ordered(lock)'
<1>1. /\ lock \in LockType /\ Ordered(lock)
      /\ lock.reserved \subseteq Waiters(lock.waiters)
      /\ Waiters(lock.waiters) \subseteq Coros
      /\ SchedTypeOK
  <2>1. lock \in LockType
    BY DEF IInv, StateInv, TypeOK
  <2> QED
    BY <2>1, EraseFields DEF IInv, StateInv, TypeOK, Consistent
<1>2. CASE /\ Housekeeping \/ Elsewhere \/ \E c \in Coros : FinishCoro(c)
           /\ UNCHANGED lockVars
  <2>1. \A d \in Coros : status'[d] = "parked" => status[d] = "parked"
    <3>1. CASE Housekeeping \/ Elsewhere
      BY <1>1, <3>1, SchedulerStep
    <3>2. CASE \E c \in Coros : FinishCoro(c)
      BY <1>1, <3>2 DEF FinishCoro, Finish, SchedTypeOK
    <3> QED
      BY <1>2, <3>1, <3>2
  <2> QED
    BY <1>1, <1>2, <2>1, OperationKeepsOrder DEF lockVars
<1>3. CASE UNCHANGED vars
  BY <1>1, <1>3, OperationKeepsOrder DEF vars, schedVars, lockVars
<1>4. CASE Next
  <2>1. CASE \E c \in Coros : AcquirePark(c)
    BY <2>1, ParkKeepsOrder
  <2>2. CASE \E c \in Coros : FinishCoro(c)
    BY <1>2, <2>2 DEF FinishCoro
  <2> QED
    BY <1>2, <1>4, <2>1, <2>2, CoroutineKeepsOrder DEF Next, Acquire
<1> QED
  BY <1>3, <1>4

\* The inductive invariant holds initially and is preserved by every step.
LEMMA InitIInv ==
  Init => IInv
<1> SUFFICES ASSUME Init PROVE IInv
  OBVIOUS
<1>1. lock.waiters = EmptyList /\ lock.reserved = {}
  BY DEF Init
<1>2. Ordered(lock)
  BY <1>1 DEF Ordered, IsWaitList, EmptyList
<1> QED
  BY <1>2, InitStateInv DEF IInv

LEMMA NextIInv ==
  IInv /\ [Next]_vars => IInv'
  BY NextStateInv, NextOrdered DEF IInv

-----------------------------------------------------------------------------
(* The theorems.                                                           *)

\* The inductive invariant holds in every reachable state, for every finite set
\* of coroutines and every division into roots and children.
THEOREM LockInvariant ==
  Spec => []IInv
  BY InitIInv, NextIInv, PTL DEF Spec

\* Lock's fields, the scheduler's queues and the statuses stay in their types.
THEOREM LockTypeOK ==
  Spec => []TypeOK
<1>1. IInv => TypeOK
  BY DEF IInv, StateInv
<1> QED
  BY <1>1, LockInvariant, PTL

\* At most one party owns the lock, through try_acquire, acquire, handoff,
\* cancellation of a reserved waiter and destruction of its frame.
THEOREM LockMutualExclusion ==
  Spec => []MutualExclusion
<1>1. IInv => MutualExclusion
  BY DEF IInv, StateInv, AwaiterInv, Consistent, MutualExclusion
<1> QED
  BY <1>1, LockInvariant, PTL

\* None of the internal checks of Lock::release and Lock::finish_acquire calls
\* std::abort as long as only owners release.
THEOREM LockNoAbort ==
  Spec => []NoAbort
<1>1. IInv => NoAbort
  BY DEF IInv, StateInv, NoAbort
<1> QED
  BY <1>1, LockInvariant, PTL

\* A lock nobody owns has nobody parked on it.
THEOREM LockNoLostHandoff ==
  Spec => []NoLostHandoff
<1>1. IInv => NoLostHandoff
  BY DEF IInv, StateInv, Consistent, NoLostHandoff
<1> QED
  BY <1>1, LockInvariant, PTL

\* Nobody overtakes a live waiter, whichever way the lock was obtained: a
\* newcomer finds nobody parked, and nobody parked stands in front of the waiter
\* that handoff_or_unlock chose.
THEOREM LockNoBarging ==
  Spec => NoBarging
<1> DEFINE Fair == \A o \in holders' \ holders :
                     \A d \in Waiters(lock.waiters) :
                       status[d] = "parked" =>
                         o \in Waiters(lock.waiters) /\ d \notin lock.waiters[o]
<1>1. ASSUME IInv, [Next]_vars
      PROVE  [Fair]_vars
  <2>1. CASE UNCHANGED vars
    BY <2>1
  <2> SUFFICES ASSUME Next, NEW o \in holders' \ holders,
                      NEW d \in Waiters(lock.waiters), status[d] = "parked"
               PROVE  o \in Waiters(lock.waiters) /\ d \notin lock.waiters[o]
    BY <1>1, <2>1
  <2>2. /\ lock \in LockType /\ Consistent(lock, holders) /\ Ordered(lock)
        /\ AwaiterInv
        /\ d \in Coros
    <3>1. lock \in LockType
      BY <1>1 DEF IInv, StateInv, TypeOK
    <3> QED
      BY <1>1, <3>1, EraseFields DEF IInv, StateInv
  <2>3. Cleanup(lock).locked
    BY <2>2, CleanupConsistent DEF Consistent
  <2>4. PICK c \in Coros : ResumeCoro(c) /\ c \in awaiter /\ o = c
    <3> USE <2>3 DEF Next
    <3>1. ASSUME NEW c \in Coros, TryAcquire(c) \/ Acquire(c)
          PROVE  FALSE
      BY <3>1 DEF TryAcquire, Acquire, AcquireNow, AcquirePark
    <3>2. ASSUME NEW c \in Coros, FinishCoro(c) \/ DestroyCoro(c)
          PROVE  FALSE
      BY <3>2 DEF FinishCoro, DestroyCoro, lockVars
    <3>3. ASSUME NEW r \in Coros \cup {Main}, Release(r)
          PROVE  FALSE
      BY <3>3 DEF Release
    <3>4. ~MainTryAcquire /\ ~MainPoll /\ ~UNCHANGED lockVars
      BY DEF MainTryAcquire, MainPoll, lockVars
    <3>5. PICK c \in Coros : ResumeCoro(c)
      BY <3>1, <3>2, <3>3, <3>4
    <3>6. c \in awaiter /\ o = c
      BY <3>5 DEF ResumeCoro, lockVars
    <3> QED
      BY <3>5, <3>6
  <2>5. status[c] = "ready"
    BY <2>4 DEF ResumeCoro, Resume
  <2>6. c \in lock.reserved
    BY <2>2, <2>4, <2>5 DEF AwaiterInv
  <2> QED
    BY <2>2, <2>4, <2>6 DEF Consistent, Ordered
<1>2. Init /\ [][Next]_vars => []IInv
  BY LockInvariant DEF Spec
<1> QED
  BY <1>1, <1>2, PTL DEF Spec, NoBarging
=============================================================================
