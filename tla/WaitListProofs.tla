---------------------------- MODULE WaitListProofs ----------------------------
(***************************************************************************)
(* Facts about wait lists of any length: what the operations of WaitList   *)
(* return, that they keep the order, which members are the oldest and how  *)
(* many, and that a wake in the order of the list reaches every member.    *)
(***************************************************************************)
EXTENDS WaitList, Sequences, FiniteSetTheorems, TLAPS

\* push_back and erase keep a list a list over the same coroutines.
LEMMA ListType ==
  ASSUME NEW C, NEW w \in ListsOver(C)
  PROVE  /\ Waiters(w) \subseteq C
         /\ \A S : /\ EraseAll(w, S) \in ListsOver(C)
                   /\ Waiters(EraseAll(w, S)) = Waiters(w) \ S
         /\ \A c \in C : /\ PushBack(w, c) \in ListsOver(C)
                         /\ Waiters(PushBack(w, c)) = Waiters(w) \cup {c}
<1>1. PICK D \in SUBSET C : w \in [D -> SUBSET C]
  BY DEF ListsOver
<1>2. Waiters(w) = D /\ D \subseteq C
  BY <1>1 DEF Waiters
<1>3. ASSUME NEW S
      PROVE  /\ EraseAll(w, S) \in ListsOver(C)
             /\ Waiters(EraseAll(w, S)) = Waiters(w) \ S
  <2>1. EraseAll(w, S) \in [D \ S -> SUBSET C]
    BY <1>1 DEF EraseAll
  <2>2. D \ S \in SUBSET C
    OBVIOUS
  <2> QED
    BY <1>2, <2>1, <2>2 DEF ListsOver, Waiters
<1>4. ASSUME NEW c \in C
      PROVE  /\ PushBack(w, c) \in ListsOver(C)
             /\ Waiters(PushBack(w, c)) = Waiters(w) \cup {c}
  <2>1. PushBack(w, c) \in [D \cup {c} -> SUBSET C]
    BY <1>1 DEF PushBack
  <2>2. D \cup {c} \in SUBSET C
    OBVIOUS
  <2> QED
    BY <1>2, <2>1, <2>2 DEF ListsOver, Waiters
<1> QED
  BY <1>2, <1>3, <1>4

\* The scan for the oldest member of a non-empty set returns a member of it.
LEMMA OldestMember ==
  ASSUME NEW w, NEW S, S # {}
  PROVE  Oldest(w, S) \in S
<1>1. \E c \in S : (\E d \in S : IsOldest(w, S, d)) => IsOldest(w, S, c)
  OBVIOUS
<1> QED
  BY <1>1 DEF Oldest

\* The wake order of a finite set is a sequence of its members.
LEMMA InOrderType ==
  ASSUME NEW w, NEW S, IsFiniteSet(S)
  PROVE  InOrder(w, S) \in Seq(S)
<1>1. Cardinality(S) \in Nat
  BY FS_CardinalityType
<1>2. ASSUME NEW i \in 1..Cardinality(S)
      PROVE  (CHOOSE c \in S : (\E d \in S : Rank(w, S, d) = i)
                                 => Rank(w, S, c) = i) \in S
  <2>1. S # {}
    BY <1>1, FS_EmptySet
  <2>2. \E c \in S : (\E d \in S : Rank(w, S, d) = i) => Rank(w, S, c) = i
    BY <2>1
  <2> QED
    BY <2>2
<1>3. InOrder(w, S) \in [1..Cardinality(S) -> S]
  BY <1>2 DEF InOrder
<1> QED
  BY <1>1, <1>3

\* The operations the scheduler applies to its queues stay in Seq(C).
LEMMA SeqType ==
  ASSUME NEW C, NEW s \in Seq(C)
  PROVE  /\ \A c \in C : Append(s, c) \in Seq(C)
         /\ \A t \in Seq(C) : s \o t \in Seq(C)
         /\ s # <<>> => Tail(s) \in Seq(C) /\ Head(s) \in C
  OBVIOUS

\* push_back of a newcomer and erase keep the order of a list a strict total
\* order.
LEMMA ListOrder ==
  ASSUME NEW C, NEW w \in ListsOver(C), IsWaitList(w)
  PROVE  /\ \A S : IsWaitList(EraseAll(w, S))
         /\ \A c \in C \ Waiters(w) : IsWaitList(PushBack(w, c))
<1>1. PICK D \in SUBSET C : w \in [D -> SUBSET C]
  BY DEF ListsOver
<1>2. DOMAIN w = D
  BY <1>1
<1>3. ASSUME NEW S
      PROVE  IsWaitList(EraseAll(w, S))
  <2>1. DOMAIN EraseAll(w, S) = D \ S
    BY <1>2 DEF EraseAll
  <2>2. \A c \in D \ S : EraseAll(w, S)[c] = w[c] \ S
    BY <1>2 DEF EraseAll
  <2> QED
    BY <1>2, <2>1, <2>2 DEF IsWaitList
<1>4. ASSUME NEW c \in C \ Waiters(w)
      PROVE  IsWaitList(PushBack(w, c))
  <2>1. c \notin D /\ DOMAIN PushBack(w, c) = D \cup {c}
    BY <1>2 DEF PushBack, Waiters
  <2>2. /\ PushBack(w, c)[c] = D
        /\ \A d \in D : PushBack(w, c)[d] = w[d]
    BY <1>2, <2>1 DEF PushBack
  <2> QED
    BY <1>2, <2>1, <2>2 DEF IsWaitList
<1> QED
  BY <1>3, <1>4

\* How many members of S are in front of each
PlaceIn(w, S) == [c \in S |-> Cardinality(w[c] \cap S)]

\* In a wait list the number of members in front is a bijection from the members
\* of any finite part of the list to 0, 1, 2, ...
LEMMA PlaceBijection ==
  ASSUME NEW w, IsWaitList(w), NEW S \in SUBSET DOMAIN w, IsFiniteSet(S)
  PROVE  LET place == PlaceIn(w, S)
         IN  /\ Cardinality(S) \in Nat
             /\ place \in [S -> 0..Cardinality(S) - 1]
             /\ \A c, d \in S : c # d => place[c] # place[d]
             /\ \A i \in 0..Cardinality(S) - 1 : \E c \in S : place[c] = i
<1> DEFINE place == [c \in S |-> Cardinality(w[c] \cap S)]
           n == Cardinality(S)
<1>1. n \in Nat
  BY FS_CardinalityType
<1>2. ASSUME NEW c \in S
      PROVE  /\ IsFiniteSet(w[c] \cap S)
             /\ Cardinality(w[c] \cap S) \in 0..n - 1
  <2>1. w[c] \cap S \in SUBSET S /\ w[c] \cap S # S
    BY DEF IsWaitList
  <2>2. /\ IsFiniteSet(w[c] \cap S)
        /\ Cardinality(w[c] \cap S) <= n
        /\ Cardinality(w[c] \cap S) # n
    BY <2>1, FS_Subset
  <2>3. Cardinality(w[c] \cap S) \in Nat
    BY <2>2, FS_CardinalityType
  <2> QED
    BY <1>1, <2>2, <2>3
<1>3. place \in [S -> 0..n - 1]
  BY <1>2
<1>4. ASSUME NEW c \in S, NEW d \in S, c \in w[d]
      PROVE  place[c] < place[d]
  <2>1. /\ w[c] \cap S \in SUBSET (w[d] \cap S)
        /\ w[c] \cap S # w[d] \cap S
    BY <1>4 DEF IsWaitList
  <2>2. /\ Cardinality(w[c] \cap S) <= Cardinality(w[d] \cap S)
        /\ Cardinality(w[c] \cap S) # Cardinality(w[d] \cap S)
    BY <1>2, <2>1, FS_Subset
  <2>3. place[c] = Cardinality(w[c] \cap S) /\ place[d] = Cardinality(w[d] \cap S)
    OBVIOUS
  <2>4. place[c] \in Int /\ place[d] \in Int
    BY <1>1, <1>3
  <2> HIDE DEF place
  <2> QED
    BY <2>2, <2>3, <2>4
<1>5. \A c, d \in S : c # d => place[c] # place[d]
  <2> SUFFICES ASSUME NEW c \in S, NEW d \in S, c # d
               PROVE  place[c] # place[d]
    OBVIOUS
  <2>1. c \in w[d] \/ d \in w[c]
    BY DEF IsWaitList
  <2>2. place[c] < place[d] \/ place[d] < place[c]
    BY <1>4, <2>1
  <2>3. place[c] \in Int /\ place[d] \in Int
    BY <1>1, <1>3
  <2> HIDE DEF place
  <2> QED
    BY <2>2, <2>3
<1>6. IsFiniteSet(0..n - 1) /\ Cardinality(0..n - 1) = n
  BY <1>1, FS_Interval
<1> HIDE DEF place, n
<1>7. place \in Injection(S, 0..n - 1)
  BY <1>3, <1>5 DEF Injection, IsInjective
<1>8. place \in Surjection(S, 0..n - 1)
  BY <1>6, <1>7, FS_Injection DEF n
<1>9. \A i \in 0..n - 1 : \E c \in S : place[c] = i
  BY <1>8 DEF Surjection
<1> QED
  BY <1>1, <1>3, <1>5, <1>9 DEF PlaceIn, place, n

\* FirstOf(w, S, n) has n members, or all of S when S has fewer; nobody of S
\* stands in front of a member without being one.
LEMMA FirstMembers ==
  ASSUME NEW w, IsWaitList(w), NEW S \in SUBSET DOMAIN w, IsFiniteSet(S),
         NEW n \in Nat
  PROVE  LET F == FirstOf(w, S, n)
         IN  /\ F \subseteq S
             /\ IsFiniteSet(F)
             /\ Cardinality(F) \in 0..n
             /\ Cardinality(F) < n => F = S
             /\ \A c \in F : \A d \in w[c] \cap S : d \in F
<1> DEFINE F == FirstOf(w, S, n)
           place == PlaceIn(w, S)
           N == Cardinality(S)
<1>1. /\ N \in Nat
      /\ place \in [S -> 0..N - 1]
      /\ \A c, d \in S : c # d => place[c] # place[d]
      /\ \A i \in 0..N - 1 : \E c \in S : place[c] = i
  BY PlaceBijection
<1>2. F = {c \in S : place[c] < n}
  BY DEF FirstOf, PlaceIn
<1>3. F \subseteq S /\ IsFiniteSet(F) /\ Cardinality(F) \in Nat
  <2>1. F \in SUBSET S
    BY <1>2
  <2> QED
    BY <2>1, FS_Subset, FS_CardinalityType
<1>4. ASSUME NEW c \in F, NEW d \in w[c] \cap S
      PROVE  d \in F
  <2>1. w[d] \cap S \in SUBSET (w[c] \cap S)
    BY <1>3, <1>4 DEF IsWaitList
  <2>2. IsFiniteSet(w[c] \cap S)
    BY FS_Intersection
  <2>3. Cardinality(w[d] \cap S) <= Cardinality(w[c] \cap S)
    BY <2>1, <2>2, FS_Subset
  <2>4. place[d] <= place[c] /\ place[c] < n
    BY <1>2, <1>3, <2>3 DEF PlaceIn
  <2>5. place[c] \in Int /\ place[d] \in Int
    BY <1>1, <1>3
  <2> HIDE DEF place
  <2> QED
    BY <1>2, <2>4, <2>5
<1> HIDE DEF place, N, F
<1>5. IsFiniteSet(0..n - 1) /\ Cardinality(0..n - 1) = n
  BY FS_Interval
<1> DEFINE f == [c \in F |-> place[c]]
<1>6. f \in [F -> 0..n - 1]
  BY <1>1, <1>2
<1>7. Cardinality(F) <= n
  <2>1. f \in Injection(F, 0..n - 1)
    BY <1>1, <1>2, <1>6 DEF Injection, IsInjective
  <2> QED
    BY <1>5, <2>1, FS_Injection
<1>8. ASSUME F # S
      PROVE  Cardinality(F) >= n
  <2>1. PICK x \in S : x \notin F
    BY <1>3, <1>8
  <2>2. place[x] >= n /\ place[x] \in 0..N - 1
    BY <1>1, <1>2, <2>1
  <2>3. n <= N
    BY <1>1, <2>2
  <2>4. \A i \in 0..n - 1 : \E c \in F : f[c] = i
    <3> SUFFICES ASSUME NEW i \in 0..n - 1
                 PROVE  \E c \in F : f[c] = i
      OBVIOUS
    <3>1. i \in 0..N - 1
      BY <1>1, <2>3
    <3>2. PICK c \in S : place[c] = i
      BY <1>1, <3>1
    <3> QED
      BY <1>2, <3>2
  <2>5. f \in Surjection(F, 0..n - 1)
    BY <1>6, <2>4 DEF Surjection
  <2> QED
    BY <1>3, <1>5, <2>5, FS_Surjection
<1> QED
  BY <1>3, <1>4, <1>7, <1>8 DEF F

\* The scan from the front of a wait list meets the oldest member first.
LEMMA OldestIsOldest ==
  ASSUME NEW w, IsWaitList(w), NEW S \in SUBSET DOMAIN w, IsFiniteSet(S),
         S # {}
  PROVE  Oldest(w, S) \in S /\ IsOldest(w, S, Oldest(w, S))
<1>1. FirstOf(w, S, 1) # {}
  <2>1. /\ IsFiniteSet(FirstOf(w, S, 1))
        /\ Cardinality(FirstOf(w, S, 1)) < 1 => FirstOf(w, S, 1) = S
    BY FirstMembers
  <2> QED
    BY <2>1, FS_EmptySet
<1>2. PICK c \in S : Cardinality(w[c] \cap S) < 1
  BY <1>1 DEF FirstOf
<1>3. IsFiniteSet(w[c] \cap S) /\ Cardinality(w[c] \cap S) \in Nat
  BY FS_Intersection, FS_CardinalityType
<1>4. IsFiniteSet(w[c] \cap S) /\ Cardinality(w[c] \cap S) = 0
  BY <1>2, <1>3
<1>5. IsOldest(w, S, c)
  BY <1>4, FS_EmptySet DEF IsOldest
<1>6. \E d \in S : (\E e \in S : IsOldest(w, S, e)) => IsOldest(w, S, d)
  BY <1>5
<1> QED
  BY <1>5, <1>6 DEF Oldest

\* At most one member is erased at a time.
LEMMA SingletonCount ==
  ASSUME NEW S, NEW c
  PROVE  Cardinality(S \cap {c}) = IF c \in S THEN 1 ELSE 0
<1>1. CASE c \in S
  <2>1. S \cap {c} = {c}
    BY <1>1
  <2> QED
    BY <1>1, <2>1, FS_Singleton
<1>2. CASE c \notin S
  <2>1. S \cap {c} = {}
    BY <1>2
  <2> QED
    BY <1>2, <2>1, FS_EmptySet
<1> QED
  BY <1>1, <1>2

\* Waking the members of a list in its order reaches all of them.
LEMMA InOrderComplete ==
  ASSUME NEW w, IsWaitList(w), NEW S \in SUBSET DOMAIN w, IsFiniteSet(S)
  PROVE  /\ InOrder(w, S) \in Seq(S)
         /\ \A c \in S : \E i \in DOMAIN InOrder(w, S) : InOrder(w, S)[i] = c
<1> DEFINE place == PlaceIn(w, S)
           n == Cardinality(S)
<1>1. /\ n \in Nat
      /\ place \in [S -> 0..n - 1]
      /\ \A c, d \in S : c # d => place[c] # place[d]
  BY PlaceBijection
<1>2. \A c \in S : place[c] = Cardinality(w[c] \cap S)
  BY DEF PlaceIn
<1> HIDE DEF place, n
<1>3. ASSUME NEW c \in S
      PROVE  /\ place[c] + 1 \in 1..n
             /\ InOrder(w, S)[place[c] + 1] = c
  <2>1. place[c] + 1 \in 1..n
    BY <1>1
  <2>2. \A d \in S : Rank(w, S, d) = place[d] + 1
    BY <1>2 DEF Rank
  <2>3. \A d \in S : Rank(w, S, d) = place[c] + 1 <=> d = c
    BY <1>1, <2>2
  <2>4. InOrder(w, S)[place[c] + 1]
          = CHOOSE d \in S : (\E e \in S : Rank(w, S, e) = place[c] + 1)
                                => Rank(w, S, d) = place[c] + 1
    BY <2>1 DEF InOrder, n
  <2>5. (CHOOSE d \in S : (\E e \in S : Rank(w, S, e) = place[c] + 1)
                             => Rank(w, S, d) = place[c] + 1) = c
    BY <2>3
  <2> QED
    BY <2>1, <2>4, <2>5
<1>4. DOMAIN InOrder(w, S) = 1..n
  BY DEF InOrder, n
<1> QED
  BY <1>3, <1>4, InOrderType
=============================================================================
