-------------------------------- MODULE Queue --------------------------------
(***************************************************************************)
(* cpptb::coro::Queue<T> on the scheduler's drain loop.                    *)
(*                                                                         *)
(* An item that arrives while consumers wait is reserved for the oldest of *)
(* them, a slot that becomes free for the oldest waiting producer; the     *)
(* reservation is a flag on the waiter and a count in the queue            *)
(* (reserved_items_, reserved_put_slots_).  The items themselves are       *)
(* abstracted to their number: the deque is used first in, first out, and  *)
(* a reservation always stands for the items at its front.                 *)
(*                                                                         *)
(* get() and put() are tasks of their own, so every waiter waits in a      *)
(* child frame: instances take Children = Coros.                           *)
(***************************************************************************)
EXTENDS Coroutines, WaitList

CONSTANTS
  MaxSize,    \* maxsize_: the capacity, 0 for none
  ItemBound   \* bound: items in a queue without a capacity

\* What an instance gives the constants.
SizeAssumption ==
  MaxSize \in Nat /\ ItemBound \in Nat /\ MaxSize <= ItemBound

VARIABLES
  q,         \* the fields of the queue
  getting,   \* coroutines whose frame holds an active, registered GetAwaiter
  putting,   \* the same for PutAwaiter
  aborted    \* one of Queue's internal checks called std::abort

queueVars == <<q, getting, putting, aborted>>
vars == <<schedVars, queueVars>>

\* The fields, when consumers G and producers P are listed.
QueueType(G, P) ==
  [gets : [G -> SUBSET Coros], greserved : SUBSET Coros,  \* get_waiters_
   puts : [P -> SUBSET Coros], preserved : SUBSET Coros,  \* put_waiters_
   items : 0..ItemBound,                               \* items_.size()
   ritems : Nat,                                       \* reserved_items_
   rslots : Nat]                                       \* reserved_put_slots_

TypeOK ==
  /\ SchedTypeOK
  /\ \E G, P \in SUBSET Coros : q \in QueueType(G, P)
  /\ getting \subseteq Coros
  /\ putting \subseteq Coros
  /\ aborted \in BOOLEAN

Init ==
  /\ SchedInit
  /\ q = [gets |-> EmptyList, greserved |-> {}, puts |-> EmptyList,
          preserved |-> {}, items |-> 0, ritems |-> 0, rslots |-> 0]
  /\ getting = {}
  /\ putting = {}
  /\ aborted = FALSE

-----------------------------------------------------------------------------
(* The member functions, as functions of the queue's fields.  A function   *)
(* wakes exactly the waiters it newly reserves.                            *)

\* A waiter leaves its list; its reservation, if any, is given up with it.
EraseGets(Q, S) ==
  [Q EXCEPT !.gets = EraseAll(Q.gets, S),
            !.greserved = Q.greserved \ S,
            !.ritems = Q.ritems - Cardinality(Q.greserved \cap S)]

ErasePuts(Q, S) ==
  [Q EXCEPT !.puts = EraseAll(Q.puts, S),
            !.preserved = Q.preserved \ S,
            !.rslots = Q.rslots - Cardinality(Q.preserved \cap S)]

\* Queue::cleanup: drop the waiters whose wait is over.  It wakes nobody.
Cleanup(Q) ==
  LET Dead(w) == {c \in Waiters(w) : ~Live(c)}
  IN  ErasePuts(EraseGets(Q, Dead(Q.gets)), Dead(Q.puts))

HasUnreservedItem(Q) == Q.items > Q.ritems

\* Mutant: slots reserved for producers count as free.
FreeSlotsUnreserved(Q) == MaxSize - Q.items

FreeSlots(Q) == MaxSize - (Q.items + Q.rslots)
HasUnreservedSlot(Q) == MaxSize = 0 \/ FreeSlots(Q) > 0

\* Mutant: the newest consumers are served first.
WakeNewestConsumers(Q) ==
  LET C == Cleanup(Q)
      open == {c \in Waiters(C.gets) \ C.greserved : status[c] = "parked"}
      lucky == {c \in open :
                  Cardinality({d \in open : c \in C.gets[d]}) < C.items - C.ritems}
  IN  [C EXCEPT !.greserved = @ \cup lucky, !.ritems = @ + Cardinality(lucky)]

\* Queue::wake_consumers and Queue::wake_producers.  A waiter whose wake fails
\* stays in the list unreserved.
WakeConsumers(Q) ==
  LET C == Cleanup(Q)
      open == {c \in Waiters(C.gets) \ C.greserved : status[c] = "parked"}
      lucky == FirstOf(C.gets, open, C.items - C.ritems)
  IN  [C EXCEPT !.greserved = @ \cup lucky, !.ritems = @ + Cardinality(lucky)]

WakeProducers(Q) ==
  LET C == Cleanup(Q)
      open == {c \in Waiters(C.puts) \ C.preserved : status[c] = "parked"}
      lucky == IF MaxSize = 0 THEN open ELSE FirstOf(C.puts, open, FreeSlots(C))
  IN  [C EXCEPT !.preserved = @ \cup lucky, !.rslots = @ + Cardinality(lucky)]

\* Queue::consume_get of a registered waiter, with its check
ResumedWithoutItem(Q, c) == c \notin Q.greserved \/ Q.items = 0

\* Mutant: a consumer that frees a slot wakes no producer.
ConsumeGetSilently(Q, c) ==
  WakeConsumers(Cleanup(EraseGets([Q EXCEPT !.items = @ - 1], {c})))

ConsumeGet(Q, c) ==
  LET R == EraseGets([Q EXCEPT !.items = @ - 1], {c})
  IN  WakeProducers(WakeConsumers(Cleanup(R)))

\* Queue::produce of a registered waiter, with its check
ResumedWithoutCapacity(Q, c) == c \notin Q.preserved

Produce(Q, c) ==
  LET R == ErasePuts([Q EXCEPT !.items = @ + 1], {c})
  IN  WakeConsumers(Cleanup(R))

\* Queue::abandon_get and Queue::abandon_put, called by the awaiters'
\* destructors: a waiter that cleanup() has dropped is not looked for further.
AbandonGet(Q, c) ==
  IF c \notin Waiters(Q.gets) THEN Q
  ELSE WakeConsumers(Cleanup(EraseGets(Q, {c})))

AbandonPut(Q, c) ==
  IF c \notin Waiters(Q.puts) THEN Q
  ELSE WakeProducers(Cleanup(ErasePuts(Q, {c})))

\* The coroutines an operation wakes, as a set and in the order of the wakes
Woken(Q) == (Q.greserved \ q.greserved) \cup (Q.preserved \ q.preserved)

WakeOrder(Q) ==
  InOrder(Q.gets, Q.greserved \ q.greserved)
    \o InOrder(Q.puts, Q.preserved \ q.preserved)

-----------------------------------------------------------------------------
(* The actions.                                                            *)

\* A coroutine, or code outside the scheduler, operates on the queue and goes
\* on.  Every operation drains, if it does, as its last statement.
Operate(Q) ==
  /\ pc \in {"run", "idle"}
  /\ q' = Q
  /\ status' = Wake(status, Woken(Q))
  /\ ready' = ready \o WakeOrder(Q)
  /\ Flush(Woken(Q))
  /\ UNCHANGED <<pending, roots, children, outer, getting, putting, aborted>>

\* size(), empty(), full()
Poll == Operate(Cleanup(q))

\* put_nowait, and put() that finds a slot: await_ready, then produce
PutNow ==
  LET Q == Cleanup(q)
  IN  /\ HasUnreservedSlot(Q) /\ Q.items < ItemBound
      /\ Operate(WakeConsumers([Q EXCEPT !.items = @ + 1]))

\* get_nowait, and get() that finds an item: await_ready, then consume_get
GetNow ==
  LET Q == Cleanup(q)
  IN  /\ HasUnreservedItem(Q)
      /\ Operate(WakeProducers([Q EXCEPT !.items = @ - 1]))

\* get() and put() that suspend; nothing runs between await_ready and the
\* second test in suspend_get or suspend_put.
Park(c) ==
  /\ Running(c)
  /\ status' = [status EXCEPT ![c] = "parked"]
  /\ pc' = "apply"
  /\ UNCHANGED <<ready, pending, roots, children, outer, aborted>>

SuspendGet(c) ==
  LET Q == Cleanup(q)
  IN  /\ Park(c)
      /\ ~HasUnreservedItem(Q)
      /\ q' = [Q EXCEPT !.gets = PushBack(@, c)]
      /\ getting' = getting \cup {c}
      /\ UNCHANGED putting

SuspendPut(c) ==
  LET Q == Cleanup(q)
  IN  /\ Park(c)
      /\ ~HasUnreservedSlot(Q)
      /\ q' = [Q EXCEPT !.puts = PushBack(@, c)]
      /\ putting' = putting \cup {c}
      /\ UNCHANGED getting

\* The coroutine resumes; consume_get or produce runs first when it waited here.
ResumeCoro(c) ==
  \/ /\ c \notin getting \cup putting
     /\ Resume(c, {}, <<>>)
     /\ UNCHANGED queueVars
  \/ LET Q == ConsumeGet(q, c)
     IN  /\ c \in getting
         /\ Resume(c, Woken(Q), WakeOrder(Q))
         /\ q' = Q
         /\ aborted' = (aborted \/ ResumedWithoutItem(q, c))
         /\ getting' = getting \ {c}
         /\ UNCHANGED putting
  \/ LET Q == Produce(q, c)
     IN  /\ c \in putting
         /\ Resume(c, Woken(Q), WakeOrder(Q))
         /\ q' = Q
         /\ aborted' = (aborted \/ ResumedWithoutCapacity(q, c))
         /\ putting' = putting \ {c}
         /\ UNCHANGED getting

FinishCoro(c) == Finish(c) /\ UNCHANGED queueVars

\* A frame is destroyed and the destructor of its awaiter abandons the wait.
DestroyCoro(c) ==
  \/ /\ c \notin getting \cup putting
     /\ Destroy(c, {}, <<>>)
     /\ UNCHANGED queueVars
  \/ LET Q == IF c \in getting THEN AbandonGet(q, c) ELSE AbandonPut(q, c)
     IN  /\ c \in getting \cup putting
         /\ Destroy(c, Woken(Q), WakeOrder(Q))
         /\ q' = Q
         /\ getting' = getting \ {c}
         /\ putting' = putting \ {c}
         /\ UNCHANGED aborted

Next ==
  \/ \E c \in Coros :
       SuspendGet(c) \/ SuspendPut(c) \/ ResumeCoro(c) \/ FinishCoro(c)
         \/ DestroyCoro(c)
  \/ Poll
  \/ PutNow
  \/ GetNow
  \/ (Housekeeping \/ Elsewhere) /\ UNCHANGED queueVars

Spec == Init /\ [][Next]_vars

-----------------------------------------------------------------------------
(* Properties.                                                             *)

\* Every reservation is backed: the counts are the numbers of reserved waiters,
\* a reserved consumer has an item, a reserved producer has a slot, and items
\* and reserved slots together stay within the capacity.
Counted(Q) ==
  /\ Q.ritems = Cardinality(Q.greserved)
  /\ Q.rslots = Cardinality(Q.preserved)
  /\ Q.ritems <= Q.items
  /\ MaxSize > 0 => Q.items + Q.rslots <= MaxSize

Backed == Counted(q)

\* "Queue consumer resumed without an item" and "Queue producer resumed without
\* capacity" never happen.
NoAbort == ~aborted

\* Items and slots go to the oldest waiter: one is reserved only when no parked
\* waiter in front of it stays unreserved.
OldestFirst ==
  [][/\ \A c \in q'.greserved \ q.greserved :
          \A d \in q'.gets[c] : status[d] = "parked" => d \in q'.greserved
     /\ \A c \in q'.preserved \ q.preserved :
          \A d \in q'.puts[c] : status[d] = "parked" => d \in q'.preserved]_vars

\* When nothing runs, no consumer is parked beside an item nobody reserved, and
\* no producer beside a free slot: an abandoned wait released its reservation to
\* the next waiter.
NoneStranded ==
  pc = "idle" =>
    \A c \in Coros :
      status[c] = "parked" =>
        /\ c \in getting => ~HasUnreservedItem(q)
        /\ c \in putting => ~HasUnreservedSlot(q)

\* The inductive strengthening.  A list of waiters agrees with the statuses and
\* with the reservations: a listed waiter that runs again has a reservation.
Listed(w, reserved) ==
  /\ IsWaitList(w)
  /\ reserved \subseteq Waiters(w)
  /\ \A c \in Waiters(w) :
       /\ status[c] \in {"parked", "ready", "cancelled"}
       /\ status[c] = "ready" => c \in reserved

\* So do both lists of Q, which hold every parked coroutine in one of them.
Consistent(Q) ==
  /\ Listed(Q.gets, Q.greserved)
  /\ Listed(Q.puts, Q.preserved)
  /\ Waiters(Q.gets) \cap Waiters(Q.puts) = {}
  /\ \A c \in Coros :
       status[c] = "parked" => c \in Waiters(Q.gets) \cup Waiters(Q.puts)
  /\ Counted(Q)

\* A registered awaiter waits in its list, or was taken off it by cleanup()
\* after its coroutine was cancelled.  Without a capacity nobody waits to put.
AwaiterInv ==
  /\ Waiters(q.gets) \subseteq getting
  /\ Waiters(q.puts) \subseteq putting
  /\ getting \cap putting = {}
  /\ \A c \in q.greserved \cup q.preserved : status[c] # "parked"
  /\ \A c \in getting \cup putting :
       /\ status[c] \in {"parked", "ready", "cancelled"}
       /\ status[c] = "ready" => c \in q.greserved \cup q.preserved
  /\ MaxSize = 0 => putting = {}

IInv == TypeOK /\ Consistent(q) /\ AwaiterInv /\ ~aborted

ReservationsBacked == IInv /\ Backed /\ NoAbort

\* Without cancellation nobody waits for what is there, whatever runs.
CalmInv ==
  /\ pending = <<>>
  /\ \A c \in Coros :
       /\ status[c] # "cancelled"
       /\ status[c] = "parked" =>
            /\ c \in getting => ~HasUnreservedItem(q)
            /\ c \in putting => ~HasUnreservedSlot(q)

NobodyForgotten == IInv /\ CalmInv /\ NoneStranded
==============================================================================
