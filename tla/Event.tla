-------------------------------- MODULE Event --------------------------------
(***************************************************************************)
(* cpptb::coro::Event on the scheduler's drain loop, and the refinement    *)
(* that shows it to be a Latch.  waiters_ keeps the registrations of       *)
(* coroutines that were cancelled until cleanup() finds them dead: a slot  *)
(* in the list may meanwhile be free or belong to another coroutine.       *)
(***************************************************************************)
EXTENDS Coroutines, WaitList

VARIABLES
  set,      \* set_
  waiters,  \* waiters_
  bound     \* scheduler_ # nullptr

eventVars == <<set, waiters, bound>>
vars == <<schedVars, eventVars>>

TypeOK ==
  /\ SchedTypeOK
  /\ set \in BOOLEAN
  /\ waiters \in ListsOver(Coros)
  /\ bound \in BOOLEAN

Init == SchedInit /\ set = FALSE /\ waiters = EmptyList /\ bound = FALSE

-----------------------------------------------------------------------------
\* external_wait_alive: the wait registered in the list is still going on.  A
\* coroutine is parked in this Event only by its newest registration.
Alive(c) == status[c] = "parked"

\* Event::cleanup
Cleaned(w) == EraseAll(w, {c \in Waiters(w) : ~Alive(c)})

\* Awaiter::await_ready and suspend
Suspend(c) ==
  /\ Running(c) /\ ~set
  /\ waiters' = PushBack(Cleaned(waiters), c)
  /\ bound' = TRUE
  /\ status' = [status EXCEPT ![c] = "parked"]
  /\ pc' = "apply"
  /\ UNCHANGED <<ready, pending, roots, children, outer, set>>

\* Mutant: the waiters are woken, the flag stays as it was.
SetPulse ==
  LET W == Cleaned(waiters)
  IN /\ pc \in {"run", "idle"}
     /\ waiters' = EmptyList /\ bound' = FALSE
     /\ status' = Wake(status, Waiters(W))
     /\ ready' = ready \o InOrder(W, Waiters(W))
     /\ Flush(Waiters(W))
     /\ UNCHANGED <<pending, roots, children, outer, set>>

\* Event::set, called by a coroutine or between two drains
Set ==
  LET W == Cleaned(waiters)
  IN /\ pc \in {"run", "idle"}
     /\ set' = TRUE
     /\ waiters' = EmptyList /\ bound' = FALSE
     /\ status' = Wake(status, Waiters(W))
     /\ ready' = ready \o InOrder(W, Waiters(W))
     /\ Flush(Waiters(W))
     /\ UNCHANGED <<pending, roots, children, outer>>

\* Event::clear
Clear ==
  /\ pc \in {"run", "idle"}
  /\ set' = FALSE
  /\ waiters' = Cleaned(waiters)
  /\ bound' = (bound /\ Waiters(waiters') # {})
  /\ UNCHANGED schedVars

Next ==
  \/ \E c \in Coros : Suspend(c)
  \/ Set \/ Clear
  \/ /\ \/ \E c \in Coros : Resume(c, {}, <<>>) \/ Finish(c) \/ Destroy(c, {}, <<>>)
        \/ Housekeeping \/ Elsewhere
     /\ UNCHANGED eventVars

Spec == Init /\ [][Next]_vars

-----------------------------------------------------------------------------
(* Properties.                                                             *)

Promise == INSTANCE Latch WITH
  Clients <- Coros, flag <- set, waiting <- {c \in Coros : status[c] = "parked"}

\* Event implements the latch: set() releases every coroutine that waits, at
\* once, past waiters that were cancelled and slots that were reused.
IsLatch == Promise!Spec

\* A waiting coroutine is listed, the list is in the order of the calls and
\* belongs to a scheduler: set() finds everybody it has to wake.
Listed ==
  /\ IsWaitList(waiters)
  /\ \A c \in Coros : status[c] = "parked" => c \in Waiters(waiters)
  /\ Waiters(waiters) # {} => bound

\* Nobody who waits is forgotten, and nobody waits for an event that is set.
NobodyForgotten ==
  /\ TypeOK
  /\ Listed
  /\ set => \A c \in Coros : status[c] # "parked"
=============================================================================
