--------------------------- MODULE CoroutineProofs ---------------------------
(***************************************************************************)
(* What the proofs about Lock, Semaphore, Queue and Event share: the       *)
(* effect of the scheduler's steps on the statuses and on the scheduler's  *)
(* queues.                                                                 *)
(***************************************************************************)
EXTENDS Coroutines, WaitListProofs

-----------------------------------------------------------------------------
(* The scheduler.                                                          *)

\* cancel_state of a live coroutine
LEMMA CancelStep ==
  ASSUME SchedTypeOK, NEW c \in Coros, Live(c), CancelState(c)
  PROVE  /\ status' \in [Coros -> Statuses]
         /\ roots' \in Seq(Coros)
         /\ children' \in Seq(Coros)
         /\ \A d \in Coros : \/ status'[d] = status[d]
                             \/ Live(d) /\ status'[d] = "cancelled"
<1>1. /\ status' = [status EXCEPT ![c] = "cancelled"]
      /\ roots' = roots \/ roots' = Append(roots, c)
      /\ children' = children \/ children' = Append(children, c)
  BY DEF CancelState
<1>2. roots' \in Seq(Coros) /\ children' \in Seq(Coros)
  BY <1>1, SeqType, Zenon DEF SchedTypeOK
<1>3. /\ status' \in [Coros -> Statuses]
      /\ \A d \in Coros : \/ status'[d] = status[d]
                          \/ Live(d) /\ status'[d] = "cancelled"
  BY <1>1 DEF SchedTypeOK, Statuses, Live
<1> QED
  BY <1>2, <1>3

\* The steps that leave the lock alone keep the scheduler's types, and they
\* change statuses only in these ways.
LEMMA SchedulerStep ==
  ASSUME SchedTypeOK, Housekeeping \/ Elsewhere
  PROVE  /\ SchedTypeOK'
         /\ \A c \in Coros :
              \/ status'[c] = status[c]
              \/ Live(c) /\ status'[c] = "cancelled"
              \/ /\ status[c] \in {"gone", "sleeping", "running"}
                 /\ status'[c] \in {"ready", "sleeping"}
<1> USE DEF SchedTypeOK, Statuses, Places
<1>1. CASE SkipStale
  BY <1>1 DEF SkipStale
<1>2. CASE ApplyPending
  <2>1. Head(pending) \in Coros /\ pending' \in Seq(Coros)
    BY <1>2 DEF ApplyPending
  <2>2. CASE Live(Head(pending))
    BY <1>2, <2>1, <2>2, CancelStep DEF ApplyPending
  <2>3. CASE ~Live(Head(pending))
    BY <1>2, <2>1, <2>3 DEF ApplyPending
  <2> QED
    BY <2>2, <2>3
<1>3. CASE AppliedAll
  BY <1>3 DEF AppliedAll
<1>4. CASE CollectedRoots
  BY <1>4 DEF CollectedRoots
<1>5. CASE DrainEnd
  BY <1>5 DEF DrainEnd
<1>6. CASE ReclaimedAll
  BY <1>6 DEF ReclaimedAll
<1>7. CASE \E c \in Coros : Spawn(c) \/ Trigger(c)
  <2>1. PICK c \in Coros : Spawn(c) \/ Trigger(c)
    BY <1>7
  <2>2. /\ status[c] \in {"gone", "sleeping"}
        /\ status' = [status EXCEPT ![c] = "ready"]
        /\ ready' = Append(ready, c)
        /\ pc' = "drain" \/ pc' = pc
        /\ UNCHANGED <<pending, roots, children, outer>>
    BY <2>1 DEF Spawn, Trigger, Flush
  <2>3. ready' \in Seq(Coros)
    BY <2>2
  <2> QED
    BY <2>2, <2>3
<1>8. CASE \E c \in Coros : Sleep(c)
  BY <1>8 DEF Sleep, Running
<1>9. CASE \E c \in Coros : RequestCancel(c)
  BY <1>9 DEF RequestCancel
<1>10. CASE \E c \in Coros : CancelFromOutside(c) \/ CancelAwaited(c)
  <2>1. PICK c \in Coros : CancelFromOutside(c) \/ CancelAwaited(c)
    BY <1>10
  <2>2. /\ Live(c) /\ CancelState(c)
        /\ pc' = "drain" \/ pc' = pc
        /\ UNCHANGED <<ready, pending, outer>>
    BY <2>1 DEF CancelFromOutside, CancelAwaited
  <2> QED
    BY <2>2, CancelStep
<1>11. CASE PassBoundary
  BY <1>11 DEF PassBoundary
<1> QED
  BY <1>1, <1>2, <1>3, <1>4, <1>5, <1>6, <1>7, <1>8, <1>9, <1>10, <1>11
     DEF Housekeeping, Elsewhere

\* So does resuming a coroutine.
LEMMA ResumeType ==
  ASSUME SchedTypeOK, NEW c \in Coros, NEW S, NEW W \in Seq(Coros),
         Resume(c, S, W)
  PROVE  SchedTypeOK'
<1>1. ready' \in Seq(Coros)
  BY DEF Resume, SchedTypeOK
<1>2. status' \in [Coros -> Statuses]
  BY DEF Resume, SchedTypeOK, Wake, Statuses
<1> QED
  BY <1>1, <1>2 DEF Resume, SchedTypeOK, Places

\* So does destroying a frame, whose coroutine is done and leaves its slot.
LEMMA DestroyStep ==
  ASSUME SchedTypeOK, NEW c \in Coros, NEW S, NEW W \in Seq(Coros),
         Destroy(c, S, W)
  PROVE  /\ SchedTypeOK'
         /\ Done(c)
         /\ status' = Wake([status EXCEPT ![c] = "gone"], S)
<1>1. /\ Done(c)
      /\ status' = Wake([status EXCEPT ![c] = "gone"], S)
      /\ ready' = ready \o W
      /\ pending' = pending
      /\ roots' = roots \/ (roots # <<>> /\ roots' = Tail(roots))
      /\ children' = children \/ (children # <<>> /\ children' = Tail(children))
      /\ pc' \in {pc, "drain"}
      /\ outer' = outer \/ (outer' = pc /\ pc \in {"roots", "children"})
  BY DEF Destroy, CollectRoot, ReclaimRoot, ReclaimChild, Reclaimed
<1>2. /\ ready' \in Seq(Coros)
      /\ roots' \in Seq(Coros)
      /\ children' \in Seq(Coros)
  BY <1>1, SeqType, Zenon DEF SchedTypeOK
<1>3. status' \in [Coros -> Statuses]
  BY <1>1 DEF SchedTypeOK, Wake, Statuses
<1> QED
  BY <1>1, <1>2, <1>3 DEF SchedTypeOK, Places

\* The wakes of an operation keep the scheduler's types.
LEMMA WakeType ==
  ASSUME SchedTypeOK, NEW st \in [Coros -> Statuses], NEW S,
         NEW W \in Seq(Coros), status' = Wake(st, S), ready' = ready \o W,
         pc' \in Places, outer' \in {"none", "roots", "children"},
         UNCHANGED <<pending, roots, children>>
  PROVE  SchedTypeOK'
<1>1. ready' \in Seq(Coros)
  BY DEF SchedTypeOK
<1>2. status' \in [Coros -> Statuses]
  BY DEF Wake, Statuses
<1> QED
  BY <1>1, <1>2 DEF SchedTypeOK

\* A coroutine that ends keeps the scheduler's types.
LEMMA FinishStep ==
  ASSUME SchedTypeOK, NEW c \in Coros, Finish(c)
  PROVE  /\ SchedTypeOK'
         /\ status[c] = "running"
         /\ \A d \in Coros : \/ status'[d] = status[d]
                             \/ d = c /\ status'[d] = "done"
<1>1. /\ status[c] = "running"
      /\ status' = [status EXCEPT ![c] = "done"]
      /\ roots' = roots \/ roots' = Append(roots, c)
      /\ children' = children \/ children' = Append(children, c)
      /\ pc' = "apply"
      /\ UNCHANGED <<ready, pending, outer>>
  BY DEF Finish, Running
<1>2. roots' \in Seq(Coros) /\ children' \in Seq(Coros)
  BY <1>1, SeqType, Zenon DEF SchedTypeOK
<1> QED
  BY <1>1, <1>2 DEF SchedTypeOK, Statuses, Places

\* Where nobody is ever cancelled, no step cancels.
LEMMA UncancelledStep ==
  ASSUME SchedTypeOK, Cancellable = {}, pending = <<>>, Housekeeping \/ Elsewhere
  PROVE  /\ pending' = <<>>
         /\ \A c \in Coros : status'[c] = "cancelled" => status[c] = "cancelled"
<1> USE DEF SchedTypeOK
<1>1. CASE Housekeeping
  BY <1>1 DEF Housekeeping, SkipStale, ApplyPending, AppliedAll, CollectedRoots,
              DrainEnd, ReclaimedAll
<1>2. CASE Elsewhere
  <2>1. CASE PassBoundary
    BY <2>1 DEF PassBoundary
  <2>2. CASE \E c \in Coros : Spawn(c) \/ Trigger(c) \/ Sleep(c)
    <3>1. PICK c \in Coros : Spawn(c) \/ Trigger(c) \/ Sleep(c)
      BY <2>2
    <3>2. /\ pending' = pending
          /\ \/ status' = [status EXCEPT ![c] = "ready"]
             \/ status' = [status EXCEPT ![c] = "sleeping"]
      BY <3>1 DEF Spawn, Trigger, Sleep
    <3> QED
      BY <3>2
  <2> QED
    BY <1>2, <2>1, <2>2
       DEF Elsewhere, RequestCancel, CancelFromOutside, CancelAwaited
<1> QED
  BY <1>1, <1>2

\* These steps take at most one coroutine out of its wait.
LEMMA OneLeaves ==
  ASSUME SchedTypeOK, Housekeeping \/ Elsewhere
  PROVE  LET Parked == {c \in Coros : status[c] = "parked"}
         IN  Parked' = Parked \/ \E c \in Parked : Parked' = Parked \ {c}
<1> DEFINE Parked == {c \in Coros : status[c] = "parked"}
<1> USE DEF SchedTypeOK
<1>1. ASSUME NEW c \in Coros, CancelState(c)
      PROVE  Parked' = Parked \/ \E d \in Parked : Parked' = Parked \ {d}
  <2>1. status' = [status EXCEPT ![c] = "cancelled"]
    BY <1>1 DEF CancelState
  <2>2. Parked' = Parked \ {c}
    BY <2>1
  <2> QED
    BY <2>2
<1>2. CASE Housekeeping
  <2>1. CASE ApplyPending
    <3>1. CASE Live(Head(pending))
      <4>1. Head(pending) \in Coros /\ CancelState(Head(pending))
        BY <2>1, <3>1 DEF ApplyPending
      <4> QED
        BY <1>1, <4>1
    <3>2. CASE ~Live(Head(pending))
      BY <2>1, <3>2 DEF ApplyPending
    <3> QED
      BY <3>1, <3>2
  <2> QED
    BY <1>2, <2>1 DEF Housekeeping, SkipStale, AppliedAll, CollectedRoots,
                      DrainEnd, ReclaimedAll
<1>3. CASE Elsewhere
  <2>1. CASE PassBoundary
    BY <2>1 DEF PassBoundary
  <2>2. CASE \E c \in Coros : Spawn(c) \/ Trigger(c) \/ Sleep(c)
    <3>1. PICK c \in Coros : Spawn(c) \/ Trigger(c) \/ Sleep(c)
      BY <2>2
    <3>2. /\ status[c] # "parked"
          /\ \/ status' = [status EXCEPT ![c] = "ready"]
             \/ status' = [status EXCEPT ![c] = "sleeping"]
      BY <3>1 DEF Spawn, Trigger, Sleep, Running
    <3>3. Parked' = Parked
      BY <3>2
    <3> QED
      BY <3>3
  <2>3. CASE \E c \in Coros : RequestCancel(c)
    BY <2>3 DEF RequestCancel
  <2>4. CASE \E c \in Coros : CancelFromOutside(c) \/ CancelAwaited(c)
    BY <1>1, <2>4 DEF CancelFromOutside, CancelAwaited
  <2> QED
    BY <1>3, <2>1, <2>2, <2>3, <2>4 DEF Elsewhere
<1> QED
  BY <1>2, <1>3
=============================================================================
