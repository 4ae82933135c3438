-------------------------------- MODULE Lock --------------------------------
(***************************************************************************)
(* cpptb::coro::Lock on the scheduler's drain loop.                        *)
(*                                                                         *)
(* release() does not free a contended lock: it reserves the ownership for *)
(* the oldest waiter (Waiter::reserved, handoff_pending_) and wakes it.    *)
(* Between that moment and the resumption the reserved waiter may be       *)
(* cancelled; its frame, with the AcquireAwaiter whose destructor returns  *)
(* the ownership, is destroyed later still.  In between every operation    *)
(* that calls cleanup() may find the dead reservation first.               *)
(***************************************************************************)
EXTENDS Coroutines, WaitList

CONSTANT Main   \* code outside the coroutines that also uses the lock

ASSUME MainAssumption == Main \notin Coros

VARIABLES
  lock,      \* waiters_ with their reserved flags, locked_, handoff_pending_
  awaiter,   \* coroutines whose frame holds an active, registered AcquireAwaiter
  holders,   \* who was told that it owns the lock and has not released it
  aborted    \* one of Lock's internal checks called std::abort

lockVars == <<lock, awaiter, holders, aborted>>
vars == <<schedVars, lockVars>>

LockType ==
  [waiters : ListsOver(Coros), reserved : SUBSET Coros,
   locked : BOOLEAN, handoff : BOOLEAN]

TypeOK ==
  /\ SchedTypeOK
  /\ lock \in LockType
  /\ awaiter \subseteq Coros
  /\ holders \subseteq Coros \cup {Main}
  /\ aborted \in BOOLEAN

Init ==
  /\ SchedInit
  /\ lock = [waiters |-> EmptyList, reserved |-> {},
             locked |-> FALSE, handoff |-> FALSE]
  /\ awaiter = {}
  /\ holders = {}
  /\ aborted = FALSE

-----------------------------------------------------------------------------
(* The member functions, as functions of the lock's fields.  A function    *)
(* wakes exactly the waiters it newly reserves.                            *)

Erase(L, S) ==
  [L EXCEPT !.waiters = EraseAll(L.waiters, S), !.reserved = L.reserved \ S]

\* Mutant: the contended lock is freed although it is reserved.
HandoffAndUnlock(L) ==
  LET wakeable == {c \in Waiters(L.waiters) \ L.reserved : status[c] = "parked"}
  IN  [L EXCEPT !.locked = FALSE, !.handoff = wakeable # {},
                !.reserved = @ \cup FirstOf(L.waiters, wakeable, 1)]

\* Mutant: the newest waiter is served first.
HandoffToNewest(L) ==
  LET wakeable == {c \in Waiters(L.waiters) \ L.reserved : status[c] = "parked"}
      newest == {c \in wakeable : \A d \in wakeable : c \notin L.waiters[d]}
  IN  IF wakeable = {} THEN [L EXCEPT !.locked = FALSE]
      ELSE [L EXCEPT !.reserved = @ \cup newest, !.handoff = TRUE]

\* Lock::handoff_or_unlock.  Unreserved waiters whose wake fails are erased on
\* the way to the first one whose wake succeeds.
HandoffOrUnlock(L) ==
  LET open == Waiters(L.waiters) \ L.reserved
      wakeable == {c \in open : status[c] = "parked"}
      next == Oldest(L.waiters, wakeable)
  IN  IF wakeable = {}
      THEN [Erase(L, open) EXCEPT !.locked = FALSE,
                                  !.handoff = L.handoff /\ open = {}]
      ELSE [Erase(L, (open \ wakeable) \cap L.waiters[next]) EXCEPT
              !.reserved = L.reserved \cup {next}, !.handoff = TRUE]

\* Mutant: a woken waiter that has not resumed yet counts as dead
\* (external_wait_valid instead of external_wait_alive).
CleanupDropsWoken(L) ==
  LET dead == {c \in Waiters(L.waiters) : status[c] # "parked"}
  IN  IF dead \cap L.reserved = {}
      THEN Erase(L, dead)
      ELSE HandoffOrUnlock([Erase(L, dead) EXCEPT !.handoff = FALSE])

\* Lock::cleanup: drop the waiters whose wait is over, and pass on an ownership
\* that was reserved for one of them.
Cleanup(L) ==
  LET dead == {c \in Waiters(L.waiters) : ~Live(c)}
  IN  IF dead \cap L.reserved = {}
      THEN Erase(L, dead)
      ELSE HandoffOrUnlock([Erase(L, dead) EXCEPT !.handoff = FALSE])

\* Lock::release.  The two refusals abort the program.
ReleaseRefused(L) ==
  IF Waiters(L.waiters) = {} /\ ~L.handoff
  THEN ~L.locked
  ELSE ~Cleanup(L).locked \/ Cleanup(L).handoff

\* Mutant: release only unlocks.
ReleasedToNobody(L) == [Cleanup(L) EXCEPT !.locked = FALSE]

Released(L) ==
  IF Waiters(L.waiters) = {} /\ ~L.handoff
  THEN [L EXCEPT !.locked = FALSE]
  ELSE HandoffOrUnlock(Cleanup(L))

\* Lock::finish_acquire, with its check
ResumedWithoutOwnership(L, c) ==
  c \notin Waiters(L.waiters) \/ c \notin L.reserved \/ ~L.handoff

FinishAcquire(L, c) == Cleanup([Erase(L, {c}) EXCEPT !.handoff = FALSE])

\* Mutant: an abandoned reservation is erased and not passed on.
AbandonWithoutHandoff(L, c) == Cleanup(Erase(L, {c}))

\* Lock::abandon, called by ~AcquireAwaiter
Abandon(L, c) ==
  IF c \notin Waiters(L.waiters) THEN L
  ELSE IF c \notin L.reserved THEN Cleanup(Erase(L, {c}))
  ELSE HandoffOrUnlock(Cleanup([Erase(L, {c}) EXCEPT !.handoff = FALSE]))

\* The coroutines an operation wakes (at most one), as a set and as a sequence
Woken(L) == L.reserved \ lock.reserved
WakeOrder(L) == InOrder(L.waiters, Woken(L))

-----------------------------------------------------------------------------
(* The actions.                                                            *)

\* A coroutine's operation that does not suspend it: wake, and go on running.
GoOn(L) ==
  /\ status' = Wake(status, Woken(L))
  /\ ready' = ready \o WakeOrder(L)
  /\ Flush(Woken(L))
  /\ UNCHANGED <<pending, roots, children, outer>>

\* Lock::try_acquire in a coroutine
TryAcquire(c) ==
  LET L == Cleanup(lock)
  IN  /\ Running(c)
      /\ c \notin holders
      /\ lock' = [L EXCEPT !.locked = TRUE]
      /\ holders' = IF L.locked THEN holders ELSE holders \cup {c}
      /\ GoOn(L)
      /\ UNCHANGED <<awaiter, aborted>>

\* try_acquire outside the scheduler.  When its cleanup wakes somebody it drains
\* before it looks at locked_; that case is MainPoll, then this action.
MainTryAcquire ==
  LET L == Cleanup(lock)
  IN  /\ pc = "idle"
      /\ Main \notin holders
      /\ Woken(L) = {}
      /\ lock' = [L EXCEPT !.locked = TRUE]
      /\ holders' = IF L.locked THEN holders ELSE holders \cup {Main}
      /\ UNCHANGED <<schedVars, awaiter, aborted>>

\* Lock::locked outside the scheduler
MainPoll ==
  LET L == Cleanup(lock)
  IN  /\ pc = "idle"
      /\ lock' = L
      /\ GoOn(L)
      /\ UNCHANGED <<awaiter, holders, aborted>>

\* co_await lock.acquire(): await_ready is try_acquire, await_suspend repeats it
\* and parks.  Nothing runs in between, so the second cleanup finds nothing.
AcquireNow(c) ==
  LET L == Cleanup(lock)
  IN  /\ Running(c)
      /\ c \notin holders
      /\ ~L.locked
      /\ lock' = [L EXCEPT !.locked = TRUE]
      /\ holders' = holders \cup {c}
      /\ GoOn(L)
      /\ UNCHANGED <<awaiter, aborted>>

AcquirePark(c) ==
  LET L == Cleanup(lock)
  IN  /\ Running(c)
      /\ c \notin holders
      /\ L.locked
      /\ lock' = [L EXCEPT !.waiters = PushBack(L.waiters, c)]
      /\ awaiter' = awaiter \cup {c}
      /\ status' = Wake([status EXCEPT ![c] = "parked"], Woken(L))
      /\ ready' = ready \o WakeOrder(L)
      /\ pc' = "apply"
      /\ UNCHANGED <<pending, roots, children, outer, holders, aborted>>

Acquire(c) == AcquireNow(c) \/ AcquirePark(c)

\* Lock::release by a holder that runs
Release(o) ==
  LET L == Released(lock)
  IN  /\ IF o = Main THEN pc = "idle" ELSE Running(o)
      /\ o \in holders
      /\ lock' = L
      /\ aborted' = (aborted \/ ReleaseRefused(lock))
      /\ GoOn(L)
      /\ holders' = holders \ {o}
      /\ UNCHANGED awaiter

\* The coroutine resumes; await_resume runs first when it was acquiring.
ResumeCoro(c) ==
  \/ /\ c \notin awaiter
     /\ Resume(c, {}, <<>>)
     /\ UNCHANGED lockVars
  \/ LET L == FinishAcquire(lock, c)
     IN  /\ c \in awaiter
         /\ Resume(c, Woken(L), WakeOrder(L))
         /\ lock' = L
         /\ aborted' = (aborted \/ ResumedWithoutOwnership(lock, c))
         /\ awaiter' = awaiter \ {c}
         /\ holders' = holders \cup {c}

\* A coroutine that ends has released the lock.
FinishCoro(c) ==
  /\ c \notin holders
  /\ Finish(c)
  /\ UNCHANGED lockVars

\* The frame of c is destroyed: ~AcquireAwaiter abandons the wait; the guard
\* object of a holder that was cancelled releases the lock.
DestroyCoro(c) ==
  \/ LET L == Abandon(lock, c)
     IN  /\ c \in awaiter
         /\ Destroy(c, Woken(L), WakeOrder(L))
         /\ lock' = L
         /\ awaiter' = awaiter \ {c}
         /\ UNCHANGED <<holders, aborted>>
  \/ LET L == Released(lock)
     IN  /\ c \in holders
         /\ Destroy(c, Woken(L), WakeOrder(L))
         /\ lock' = L
         /\ aborted' = (aborted \/ ReleaseRefused(lock))
         /\ holders' = holders \ {c}
         /\ UNCHANGED awaiter
  \/ /\ c \notin awaiter \cup holders
     /\ Destroy(c, {}, <<>>)
     /\ UNCHANGED lockVars

Next ==
  \/ \E c \in Coros :
       TryAcquire(c) \/ Acquire(c) \/ ResumeCoro(c) \/ FinishCoro(c)
         \/ DestroyCoro(c)
  \/ \E o \in Coros \cup {Main} : Release(o)
  \/ MainTryAcquire
  \/ MainPoll
  \/ (Housekeeping \/ Elsewhere) /\ UNCHANGED lockVars

Spec == Init /\ [][Next]_vars

\* How a coroutine that runs gives the thread back to the drain loop.
Suspends(c) == (Sleep(c) /\ UNCHANGED lockVars) \/ FinishCoro(c)

-----------------------------------------------------------------------------
(* Properties.                                                             *)

\* At most one party is told that it owns the lock, and locked_ is set while
\* there is one: await_resume, try_acquire and the guard of a cancelled holder
\* agree, whatever is cancelled in between.
MutualExclusion ==
  /\ \A a, b \in holders : a = b
  /\ holders # {} => lock.locked

\* None of Lock's internal checks ("resumed without ownership", "release while
\* ownership handoff is pending", "release an unlocked Lock") fires when only
\* holders release.
NoAbort == ~aborted

\* A free lock has no live waiter: ownership is never dropped while somebody
\* waits for it.
NoLostHandoff ==
  ~lock.locked => \A c \in Coros : status[c] # "parked"

\* Nobody overtakes a live waiter: a newcomer gets the lock only when nobody
\* is parked, a waiter only when nobody parked is in front of it.
NoBarging ==
  [][\A o \in holders' \ holders :
       \A d \in Waiters(lock.waiters) :
         status[d] = "parked" =>
           o \in Waiters(lock.waiters) /\ d \notin lock.waiters[o]]_vars

\* The inductive strengthening.  The fields L are consistent with the statuses
\* and with H as the set of owners: at most one reservation, pending exactly
\* then; locked_ exactly while there is an owner or a reservation; every parked
\* coroutine is in the list, and nobody is parked on a free lock.
Consistent(L, H) ==
  /\ L.reserved \subseteq Waiters(L.waiters)
  /\ \A a, b \in L.reserved : a = b
  /\ L.handoff <=> L.reserved # {}
  /\ L.locked <=> (H # {} \/ L.handoff)
  /\ H # {} => ~L.handoff
  /\ \A c \in Coros : status[c] = "parked" =>
                       L.locked /\ c \in Waiters(L.waiters)
  /\ \A c \in Waiters(L.waiters) :
       /\ status[c] \in {"parked", "ready", "cancelled"}
       /\ status[c] = "ready" => c \in L.reserved

AwaiterInv ==
  /\ Waiters(lock.waiters) \subseteq awaiter
  /\ \A c \in awaiter :
       /\ c \notin holders
       /\ status[c] \in {"parked", "ready", "cancelled"}
       /\ status[c] = "ready" => c \in lock.reserved
  /\ \A c \in lock.reserved : status[c] # "parked"
  /\ \A a, b \in holders : a = b

StateInv == TypeOK /\ Consistent(lock, holders) /\ AwaiterInv /\ ~aborted

\* Nobody parked is in front of a waiter that has the reservation.
Ordered(L) ==
  /\ IsWaitList(L.waiters)
  /\ \A c \in L.reserved : \A d \in L.waiters[c] : status[d] # "parked"

IInv == StateInv /\ Ordered(lock)

\* When nothing runs, the ownership is not parked at a cancelled coroutine:
\* cancellation returned the handoff that was reserved for it.
HandoffReturned ==
  pc = "idle" => \A c \in lock.reserved : Live(c)

\* A waiter does not wait for ever, provided drains end and holders release.
Served ==
  []<>(pc = "idle") =>
    \A c \in Coros : status[c] = "parked" ~> status[c] # "parked"
=============================================================================
