------------------------------ MODULE Semaphore ------------------------------
(***************************************************************************)
(* cpptb::coro::Semaphore on the scheduler's drain loop.                   *)
(*                                                                         *)
(* A permit that is released while somebody waits is not banked: it is     *)
(* reserved for the oldest waiter, which takes it when it resumes.  Permits *)
(* reserved for waiters that are cancelled in between must come back, from *)
(* whichever of cleanup() and abandon() meets the dead waiter first.       *)
(***************************************************************************)
EXTENDS Coroutines, WaitList

CONSTANTS
  InitialPermits,   \* the constructor's argument
  MaxPermits        \* bound: permits released and not yet acquired

\* What an instance gives the constants.
PermitsAssumption ==
  InitialPermits \in Nat /\ MaxPermits \in Nat /\ InitialPermits <= MaxPermits

VARIABLES
  sem,       \* waiters_ with their reserved flags, permits_
  awaiter,   \* coroutines whose frame holds an active, registered AcquireAwaiter
  owed,      \* the permit an interrupted abandon() still has to dispatch
  credit,    \* permits put in (constructor, release) minus permits taken out
  aborted    \* finish_acquire's check called std::abort

semVars == <<sem, awaiter, owed, credit, aborted>>
vars == <<schedVars, semVars>>

\* The fields, when the coroutines in W are listed.
SemType(W) ==
  [waiters : [W -> SUBSET Coros], reserved : SUBSET Coros, permits : Nat]

TypeOK ==
  /\ SchedTypeOK
  /\ \E W \in SUBSET Coros : sem \in SemType(W)
  /\ awaiter \subseteq Coros
  /\ owed \in {0, 1}
  /\ credit \in 0..MaxPermits
  /\ aborted \in BOOLEAN

Init ==
  /\ SchedInit
  /\ sem = [waiters |-> EmptyList, reserved |-> {}, permits |-> InitialPermits]
  /\ awaiter = {}
  /\ owed = 0
  /\ credit = InitialPermits
  /\ aborted = FALSE

-----------------------------------------------------------------------------
(* The member functions.  A function wakes the waiters it newly reserves.  *)

Erase(M, S) ==
  [M EXCEPT !.waiters = EraseAll(M.waiters, S), !.reserved = M.reserved \ S]

\* Mutant: the newest waiters are served first.
DispatchToNewest(M, n) ==
  LET wakeable == {c \in Waiters(M.waiters) \ M.reserved : status[c] = "parked"}
      lucky == {c \in wakeable :
                  Cardinality({d \in wakeable : c \in M.waiters[d]}) < n}
  IN  [M EXCEPT !.reserved = M.reserved \cup lucky,
                !.permits = M.permits + (n - Cardinality(lucky))]

\* Semaphore::dispatch: each permit goes to the oldest unreserved waiter whose
\* wake succeeds; waiters whose wake fails are erased on the way; what finds no
\* waiter is banked.
Dispatch(M, n) ==
  LET open == Waiters(M.waiters) \ M.reserved
      wakeable == {c \in open : status[c] = "parked"}
      lucky == FirstOf(M.waiters, wakeable, n)
      banked == n - Cardinality(lucky)
      failed == IF banked > 0 THEN open \ wakeable
                ELSE {c \in open \ wakeable : \E d \in lucky : c \in M.waiters[d]}
  IN  [Erase(M, failed) EXCEPT !.reserved = M.reserved \cup lucky,
                               !.permits = M.permits + banked]

\* Semaphore::cleanup: drop the waiters whose wait is over and dispatch the
\* permits that were reserved for them.
Cleanup(M) ==
  LET dead == {c \in Waiters(M.waiters) : ~Live(c)}
      returned == Cardinality(dead \cap M.reserved)
  IN  IF returned = 0 THEN Erase(M, dead) ELSE Dispatch(Erase(M, dead), returned)

ResumedWithoutPermit(M, c) ==
  c \notin Waiters(M.waiters) \/ c \notin M.reserved

\* Semaphore::finish_acquire
FinishAcquire(M, c) == Cleanup(Erase(M, {c}))

\* Semaphore::abandon up to its cleanup, and the permit it then dispatches
AbandonCleanup(M, c) ==
  IF c \in Waiters(M.waiters) THEN Cleanup(Erase(M, {c})) ELSE M

\* Mutant: an abandoned reservation is not returned.
AbandonReturnsNothing(M, c) == 0

AbandonReturns(M, c) ==
  IF c \in Waiters(M.waiters) /\ c \in M.reserved THEN 1 ELSE 0

Woken(M) == M.reserved \ sem.reserved
WakeOrder(M) == InOrder(M.waiters, Woken(M))

-----------------------------------------------------------------------------
(* The actions.                                                            *)

GoOn(M) ==
  /\ status' = Wake(status, Woken(M))
  /\ ready' = ready \o WakeOrder(M)
  /\ Flush(Woken(M))
  /\ UNCHANGED <<pending, roots, children, outer>>

Take(M) == [M EXCEPT !.permits = IF M.permits = 0 THEN 0 ELSE M.permits - 1]

\* Code that may use the semaphore now: a running coroutine, or code outside the
\* scheduler.  The latter drains in the middle of the operation when cleanup
\* wakes somebody; that is MainPoll followed by the operation.
MayOperate(M) == pc = "run" \/ (pc = "idle" /\ Woken(M) = {})

\* Semaphore::try_acquire, and co_await acquire() that finds a permit
TryAcquire ==
  LET M == Cleanup(sem)
  IN  /\ MayOperate(M)
      /\ sem' = Take(M)
      /\ credit' = IF M.permits = 0 THEN credit ELSE credit - 1
      /\ GoOn(M)
      /\ UNCHANGED <<awaiter, owed, aborted>>

\* Semaphore::available outside the scheduler
MainPoll ==
  LET M == Cleanup(sem)
  IN  /\ pc = "idle"
      /\ sem' = M
      /\ GoOn(M)
      /\ UNCHANGED <<awaiter, owed, credit, aborted>>

\* co_await acquire() that finds no permit: Semaphore::suspend parks.
AcquirePark(c) ==
  LET M == Cleanup(sem)
  IN  /\ Running(c)
      /\ M.permits = 0
      /\ sem' = [M EXCEPT !.waiters = PushBack(M.waiters, c)]
      /\ awaiter' = awaiter \cup {c}
      /\ status' = Wake([status EXCEPT ![c] = "parked"], Woken(M))
      /\ ready' = ready \o WakeOrder(M)
      /\ pc' = "apply"
      /\ UNCHANGED <<pending, roots, children, outer, owed, credit, aborted>>

\* Semaphore::release(n): cleanup, then dispatch.
Release(n) ==
  LET M == Dispatch(Cleanup(sem), n)
  IN  /\ MayOperate(Cleanup(sem))
      /\ credit + n <= MaxPermits
      /\ sem' = M
      /\ credit' = credit + n
      /\ GoOn(M)
      /\ UNCHANGED <<awaiter, owed, aborted>>

\* The coroutine resumes; finish_acquire runs first when it was acquiring.
ResumeCoro(c) ==
  \/ /\ c \notin awaiter
     /\ Resume(c, {}, <<>>)
     /\ UNCHANGED semVars
  \/ LET M == FinishAcquire(sem, c)
     IN  /\ c \in awaiter
         /\ Resume(c, Woken(M), WakeOrder(M))
         /\ sem' = M
         /\ aborted' = (aborted \/ ResumedWithoutPermit(sem, c))
         /\ awaiter' = awaiter \ {c}
         /\ credit' = credit - 1
         /\ UNCHANGED owed

FinishCoro(c) == Finish(c) /\ UNCHANGED semVars

\* A frame is destroyed and ~AcquireAwaiter abandons the wait.  At the boundary
\* the cleanup inside abandon() drains when it wakes somebody, before the
\* abandoned permit is dispatched; inside a drain both happen at once.
DestroyCoro(c) ==
  LET C == AbandonCleanup(sem, c)
      r == AbandonReturns(sem, c)
      interrupted == pc # "collect" /\ Woken(C) # {}
      M == IF interrupted \/ r = 0 THEN C ELSE Dispatch(C, r)
  IN  /\ owed = 0
      /\ \/ /\ c \in awaiter
            /\ Destroy(c, Woken(M), WakeOrder(M))
            /\ sem' = M
            /\ owed' = IF interrupted THEN r ELSE 0
            /\ awaiter' = awaiter \ {c}
            /\ UNCHANGED <<credit, aborted>>
         \/ /\ c \notin awaiter
            /\ Destroy(c, {}, <<>>)
            /\ UNCHANGED semVars

\* The nested drain is over and abandon() dispatches its permit.
FinishAbandon ==
  LET M == Dispatch(sem, owed)
  IN  /\ pc \in {"roots", "children"}
      /\ owed # 0
      /\ sem' = M
      /\ owed' = 0
      /\ status' = Wake(status, Woken(M))
      /\ ready' = ready \o WakeOrder(M)
      /\ Reclaimed(Woken(M))
      /\ UNCHANGED <<pending, roots, children, awaiter, credit, aborted>>

Next ==
  \/ \E c \in Coros :
       AcquirePark(c) \/ ResumeCoro(c) \/ FinishCoro(c) \/ DestroyCoro(c)
  \/ TryAcquire
  \/ MainPoll
  \/ \E n \in 1..MaxPermits : Release(n)
  \/ FinishAbandon
  \/ /\ pc \in {"roots", "children"} => owed = 0
     /\ Housekeeping \/ Elsewhere
     /\ UNCHANGED semVars

Spec == Init /\ [][Next]_vars

-----------------------------------------------------------------------------
(* Properties.                                                             *)

\* Every permit that was put in and not taken out is banked, reserved for one
\* waiter, or in the hands of an abandon() that is about to dispatch it:
\* cancellation loses none and duplicates none.
PermitConservation ==
  sem.permits + Cardinality(sem.reserved) + owed = credit

\* No permit is banked while somebody is parked.
NoLostPermit ==
  sem.permits > 0 => \A c \in Coros : status[c] # "parked"

\* "Semaphore waiter resumed without a permit" never happens.
NoAbort == ~aborted

\* Permits reach parked waiters oldest first: a waiter is reserved only when no
\* parked waiter in front of it stays unreserved.
OldestFirst ==
  [][\A c \in sem'.reserved \ sem.reserved :
       \A d \in sem'.waiters[c] : status[d] = "parked" => d \in sem'.reserved]_vars

\* What the semaphore promises, with the strengthening that makes it inductive:
\* the fields M are consistent with the statuses when a reserved waiter is in the
\* list, every parked coroutine is in the list, a listed one that runs again has
\* a permit, and no permit is banked beside a parked waiter without one.
Consistent(M) ==
  /\ IsWaitList(M.waiters)
  /\ M.reserved \subseteq Waiters(M.waiters)
  /\ \A c \in Coros : status[c] = "parked" => c \in Waiters(M.waiters)
  /\ \A c \in Waiters(M.waiters) :
       /\ status[c] \in {"parked", "ready", "cancelled"}
       /\ status[c] = "ready" => c \in M.reserved
       /\ status[c] = "parked" /\ M.permits > 0 => c \in M.reserved

AwaiterInv ==
  /\ Waiters(sem.waiters) \subseteq awaiter
  /\ \A c \in sem.reserved : status[c] # "parked"
  /\ \A c \in awaiter :
       /\ status[c] \in {"parked", "ready", "cancelled"}
       /\ status[c] = "ready" => c \in sem.reserved

IInv ==
  /\ TypeOK
  /\ Consistent(sem)
  /\ AwaiterInv
  /\ PermitConservation
  /\ ~aborted

PermitsKept == IInv /\ NoLostPermit /\ NoAbort
==============================================================================
