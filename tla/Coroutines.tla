----------------------------- MODULE Coroutines -----------------------------
(***************************************************************************)
(* The drain loop of cpptb::coro::Scheduler as the synchronisation         *)
(* primitives (Lock, Semaphore, Queue, Event) see it.  One OS thread runs  *)
(* everything: a coroutine runs until it suspends, cancellation requested  *)
(* by a coroutine is applied when it suspends, and the frame of a finished *)
(* or cancelled coroutine is destroyed later, at a point that depends on   *)
(* whether the coroutine is a root process or an awaited child:            *)
(*                                                                         *)
(*   drain_ready_queue:  pop, resume, apply_pending_cancellations,         *)
(*                       collect_finished_roots, pop, ...                  *)
(*   scheduler_boundary: collect_finished_roots, collect_finished_states   *)
(*                                                                         *)
(* Destroying a frame runs the destructor of the awaiter in it, which may  *)
(* wake other coroutines.  At the boundary that starts a nested drain,     *)
(* during which reclaiming_ is set and no frame is destroyed.              *)
(*                                                                         *)
(* A coroutine is named by its slot in states_.  A member of Coros is at   *)
(* most in one wait at a time, so the wait generation of a registration    *)
(* is represented by the primitive's own record of who is awaiting it.     *)
(***************************************************************************)
EXTENDS Naturals, Sequences, FiniteSets

CONSTANTS
  Coros,     \* the slots of states_
  Children,  \* those that wait in an awaited child frame (co_await of a Task,
             \* Join, with_timeout), reclaimed later than a process's own frame
  Cancellable, \* those that are ever cancelled
  MaxReady   \* bound: nothing is spawned while ready holds this many entries

ASSUME CorosAssumption == IsFiniteSet(Coros)
ASSUME ChildrenAssumption == Children \subseteq Coros
ASSUME CancellableAssumption == Cancellable \subseteq Coros
ASSUME MaxReadyAssumption == MaxReady \in Nat

VARIABLES
  status,    \* what the slot's coroutine is doing
  ready,     \* ready_ from ready_cursor_ on: slots, stale ones included
  pending,   \* pending_cancellations_
  roots,     \* finished_root_states_ that are not yet reclaimed
  children,  \* finished_states_ that are not yet reclaimed
  pc,        \* where the scheduler is
  outer      \* the reclaim loop the current drain is nested in, or "none"

schedVars == <<status, ready, pending, roots, children, pc, outer>>

\* "sleeping": waits on a trigger of the simulator or on an Event;
\* "parked": waits on the primitive; "cancelled", "done": state.done is set and
\* the frame still exists; "gone": the slot is free.
Statuses ==
  {"gone", "ready", "running", "sleeping", "parked", "cancelled", "done"}

Places == {"idle", "drain", "run", "apply", "collect", "roots", "children"}

SchedTypeOK ==
  /\ status \in [Coros -> Statuses]
  /\ ready \in Seq(Coros)
  /\ pending \in Seq(Coros)
  /\ roots \in Seq(Coros)
  /\ children \in Seq(Coros)
  /\ pc \in Places
  /\ outer \in {"none", "roots", "children"}

SchedInit ==
  /\ status = [c \in Coros |-> "gone"]
  /\ ready = <<>>
  /\ pending = <<>>
  /\ roots = <<>>
  /\ children = <<>>
  /\ pc = "idle"
  /\ outer = "none"

\* state.handle && !state.done
Live(c) == status[c] \in {"ready", "running", "sleeping", "parked"}

\* state.handle && state.done: what reclaim_finished_state insists on
Done(c) == status[c] \in {"cancelled", "done"}

Running(c) == pc = "run" /\ status[c] = "running"

\* resume_registration and make_ready of the waiters in S.  The operators below
\* that wake take S and, as W, the same waiters in the order of the wakes.
Wake(st, S) == [c \in Coros |-> IF c \in S THEN "ready" ELSE st[c]]

\* flush_external_wakes: drain_ready() does nothing inside a drain.
Flush(S) == pc' = IF pc = "idle" /\ S # {} THEN "drain" ELSE pc

-----------------------------------------------------------------------------
(* What a coroutine, or the simulator when nothing runs, does.             *)

\* spawn, spawn_detached and start_join: adopt, make_ready, drain_ready.
Spawn(c) ==
  /\ pc \in {"run", "idle"}
  /\ status[c] = "gone"
  /\ Len(ready) < MaxReady
  /\ status' = [status EXCEPT ![c] = "ready"]
  /\ ready' = Append(ready, c)
  /\ Flush({c})
  /\ UNCHANGED <<pending, roots, children, outer>>

\* A trigger fires: an Event set by the running coroutine, an edge, a timer or
\* a phase dispatched by the simulator.
Trigger(c) ==
  /\ pc \in {"run", "idle"}
  /\ status[c] = "sleeping"
  /\ status' = [status EXCEPT ![c] = "ready"]
  /\ ready' = Append(ready, c)
  /\ Flush({c})
  /\ UNCHANGED <<pending, roots, children, outer>>

\* co_await of a trigger
Sleep(c) ==
  /\ Running(c)
  /\ status' = [status EXCEPT ![c] = "sleeping"]
  /\ pc' = "apply"
  /\ UNCHANGED <<ready, pending, roots, children, outer>>

\* Scheduler::finish at the final suspend point
Finish(c) ==
  /\ Running(c)
  /\ status' = [status EXCEPT ![c] = "done"]
  /\ roots' = IF c \in Children THEN roots ELSE Append(roots, c)
  /\ children' = IF c \in Children THEN Append(children, c) ELSE children
  /\ pc' = "apply"
  /\ UNCHANGED <<ready, pending, outer>>

\* cancel_state: the state is done at once, its frame is reclaimed later.
CancelState(c) ==
  /\ status' = [status EXCEPT ![c] = "cancelled"]
  /\ roots' = IF c \in Children THEN roots ELSE Append(roots, c)
  /\ children' = IF c \in Children THEN Append(children, c) ELSE children

\* cancel_process while draining_: cancellation_requested is set once.  For a
\* child it is the process that awaits it which is cancelled; cancel_state takes
\* the child with it.
RequestCancel(c) ==
  /\ pc = "run"
  /\ c \in Cancellable /\ Live(c)
  /\ \A i \in DOMAIN pending : pending[i] # c
  /\ pending' = Append(pending, c)
  /\ UNCHANGED <<status, ready, roots, children, pc, outer>>

\* cancel_process outside a drain: cancel_state, then drain_ready.
CancelFromOutside(c) ==
  /\ pc = "idle"
  /\ c \in Cancellable /\ Live(c)
  /\ CancelState(c)
  /\ pc' = "drain"
  /\ UNCHANGED <<ready, pending, outer>>

\* cancel_awaited: a running parent whose deadline passed cancels its child.
CancelAwaited(c) ==
  /\ pc = "run"
  /\ c \in Cancellable \cap Children
  /\ Live(c) /\ status[c] # "running"
  /\ CancelState(c)
  /\ UNCHANGED <<ready, pending, pc, outer>>

\* An edge or a phase nobody waits for: resume_edge and resume_phase still pass
\* the scheduler boundary.
PassBoundary ==
  /\ pc = "idle"
  /\ pc' = "roots"
  /\ UNCHANGED <<status, ready, pending, roots, children, outer>>

-----------------------------------------------------------------------------
(* The scheduler's own steps.                                              *)

\* drain_ready_queue skips an entry whose state is not ready any more.
SkipStale ==
  /\ pc = "drain"
  /\ ready # <<>>
  /\ status[Head(ready)] # "ready"
  /\ ready' = Tail(ready)
  /\ UNCHANGED <<status, pending, roots, children, pc, outer>>

\* drain_ready_queue resumes c, whose await_resume wakes the members of S.
Resume(c, S, W) ==
  /\ pc = "drain"
  /\ ready # <<>>
  /\ c = Head(ready)
  /\ status[c] = "ready"
  /\ status' = Wake([status EXCEPT ![c] = "running"], S)
  /\ ready' = Tail(ready) \o W
  /\ pc' = "run"
  /\ UNCHANGED <<pending, roots, children, outer>>

\* apply_pending_cancellations, one process at a time
ApplyPending ==
  /\ pc = "apply"
  /\ pending # <<>>
  /\ IF Live(Head(pending))
     THEN CancelState(Head(pending))
     ELSE UNCHANGED <<status, roots, children>>
  /\ pending' = Tail(pending)
  /\ UNCHANGED <<ready, pc, outer>>

AppliedAll ==
  /\ pc = "apply"
  /\ pending = <<>>
  /\ pc' = "collect"
  /\ UNCHANGED <<status, ready, pending, roots, children, outer>>

\* collect_finished: reclaim_finished_state of the next root, inside a drain.
\* Nothing is reclaimed while reclaiming_ is set by an outer loop.
CollectRoot(c, S, W) ==
  /\ pc = "collect"
  /\ outer = "none"
  /\ roots # <<>>
  /\ c = Head(roots) /\ Done(c)
  /\ status' = Wake([status EXCEPT ![c] = "gone"], S)
  /\ ready' = ready \o W
  /\ roots' = Tail(roots)
  /\ UNCHANGED <<pending, children, pc, outer>>

CollectedRoots ==
  /\ pc = "collect"
  /\ outer # "none" \/ roots = <<>>
  /\ pc' = "drain"
  /\ UNCHANGED <<status, ready, pending, roots, children, outer>>

\* The drain is over.  A nested one returns to the destructor it came from,
\* the outermost one goes on to scheduler_boundary.
DrainEnd ==
  /\ pc = "drain"
  /\ ready = <<>>
  /\ pc' = IF outer = "none" THEN "roots" ELSE outer
  /\ outer' = "none"
  /\ UNCHANGED <<status, ready, pending, roots, children>>

\* scheduler_boundary: the same reclaim loop, not draining.  A destructor that
\* wakes somebody drains before the loop goes on.
Reclaimed(S) ==
  IF S # {} THEN pc' = "drain" /\ outer' = pc
              ELSE UNCHANGED <<pc, outer>>

ReclaimRoot(c, S, W) ==
  /\ pc = "roots"
  /\ roots # <<>>
  /\ c = Head(roots) /\ Done(c)
  /\ status' = Wake([status EXCEPT ![c] = "gone"], S)
  /\ ready' = ready \o W
  /\ roots' = Tail(roots)
  /\ Reclaimed(S)
  /\ UNCHANGED <<pending, children>>

ReclaimChild(c, S, W) ==
  /\ pc = "children"
  /\ children # <<>>
  /\ c = Head(children) /\ Done(c)
  /\ status' = Wake([status EXCEPT ![c] = "gone"], S)
  /\ ready' = ready \o W
  /\ children' = Tail(children)
  /\ Reclaimed(S)
  /\ UNCHANGED <<pending, roots>>

ReclaimedAll ==
  \/ /\ pc = "roots"
     /\ roots = <<>>
     /\ pc' = "children"
     /\ UNCHANGED <<status, ready, pending, roots, children, outer>>
  \/ /\ pc = "children"
     /\ children = <<>>
     /\ pc' = "idle"
     /\ UNCHANGED <<status, ready, pending, roots, children, outer>>

\* reclaim_finished_state of c at whichever point the scheduler is.
Destroy(c, S, W) == CollectRoot(c, S, W) \/ ReclaimRoot(c, S, W) \/ ReclaimChild(c, S, W)

\* The steps in which no coroutine and no destructor runs.
Housekeeping ==
  SkipStale \/ ApplyPending \/ AppliedAll \/ CollectedRoots \/ DrainEnd
    \/ ReclaimedAll

\* Steps of coroutines and of the simulator that do not touch a primitive.
Elsewhere ==
  \/ \E c \in Coros :
       Spawn(c) \/ Trigger(c) \/ Sleep(c) \/ RequestCancel(c)
         \/ CancelFromOutside(c) \/ CancelAwaited(c)
  \/ PassBoundary
=============================================================================
