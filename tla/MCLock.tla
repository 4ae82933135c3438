------------------------------- MODULE MCLock -------------------------------
(* A Lock and a Semaphore on the same coroutines.  A run explores them one   *)
(* beside the other: the initial state chooses the subject, and only the     *)
(* subject moves.                                                            *)
EXTENDS Lock, TLC

CONSTANTS
  Subjects,        \* what the run explores
  InitialPermits,
  MaxPermits

VARIABLES
  subject,
  sem, permitAwaiter, owed, credit, permitAborted,  \* the semaphore's variables
  sstatus, sready, spending, sroots, schildren, spc, souter  \* its scheduler's

semVariables == <<sem, permitAwaiter, owed, credit, permitAborted,
                  sstatus, sready, spending, sroots, schildren, spc, souter>>

Sem == INSTANCE Semaphore WITH
  awaiter <- permitAwaiter, aborted <- permitAborted, status <- sstatus,
  ready <- sready, pending <- spending, roots <- sroots,
  children <- schildren, pc <- spc, outer <- souter

ASSUME Sem!PermitsAssumption

MCInit == subject \in Subjects /\ Init /\ Sem!Init
MCNext ==
  \/ subject = "lock" /\ Next /\ UNCHANGED <<subject, semVariables>>
  \/ subject = "semaphore" /\ Sem!Next /\ UNCHANGED <<subject, vars>>
MCSpec == MCInit /\ [][MCNext]_<<subject, vars, semVariables>>

\* The semaphore: every permit is banked, reserved for one waiter or on its way
\* in an abandon(), none is banked while somebody is parked, and the check of
\* finish_acquire never fires.
PermitsKept == Sem!PermitsKept

\* The semaphore: permits go to the oldest waiter that is still there.
OldestFirst == Sem!OldestFirst

\* Slots of the same kind that may be cancelled are interchangeable.
Symmetry == Permutations(Cancellable \ Children)
            \cup Permutations(Cancellable \cap Children)
=============================================================================
