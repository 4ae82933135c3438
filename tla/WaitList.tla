------------------------------ MODULE WaitList ------------------------------
(***************************************************************************)
(* The deques of waiters that the synchronisation primitives of            *)
(* coro_runtime.hpp keep (std::deque<Waiter> waiters_).                    *)
(*                                                                         *)
(* A deque that holds every waiter at most once is represented by the      *)
(* function that maps each waiter to the set of waiters in front of it:    *)
(* the domain is the content, the values are the order.  push_back puts    *)
(* everybody in front of the newcomer; erase, from any position, removes   *)
(* the erased ones everywhere.  The representation is canonical, so two    *)
(* equal deques are equal functions, and no operator needs recursion.      *)
(***************************************************************************)
EXTENDS Naturals, FiniteSets

\* The lists over a set of coroutines.
ListsOver(C) == UNION {[S -> SUBSET C] : S \in SUBSET C}

EmptyList == [c \in {} |-> {}]

Waiters(w) == DOMAIN w

\* waiters_.push_back(c)
PushBack(w, c) ==
  [d \in DOMAIN w \cup {c} |-> IF d = c THEN DOMAIN w \ {c} ELSE w[d]]

\* waiters_.erase(...) of every member of S
EraseAll(w, S) == [d \in DOMAIN w \ S |-> w[d] \ S]

IsOldest(w, S, c) == w[c] \cap S = {}

\* The member of S that a scan from waiters_.begin() meets first.  In every
\* list built with PushBack and EraseAll each non-empty S has such a member;
\* the implication makes Oldest(w, S) \in S evident without that fact.
Oldest(w, S) ==
  CHOOSE c \in S : (\E d \in S : IsOldest(w, S, d)) => IsOldest(w, S, c)

\* The first n members of S in the order of the list.
FirstOf(w, S, n) == {c \in S : Cardinality(w[c] \cap S) < n}

\* S in the order of the list: the order in which a scan wakes its members.
Rank(w, S, c) == Cardinality(w[c] \cap S) + 1

InOrder(w, S) ==
  [i \in 1..Cardinality(S) |->
     CHOOSE c \in S : (\E d \in S : Rank(w, S, d) = i) => Rank(w, S, c) = i]

\* The order is a strict total order on the content.
IsWaitList(w) ==
  /\ \A c \in DOMAIN w : w[c] \subseteq DOMAIN w \ {c}
  /\ \A c, d \in DOMAIN w :
       /\ c \in w[d] => w[c] \subseteq w[d]
       /\ c # d => (c \in w[d] \/ d \in w[c])
=============================================================================
