---------------------------- MODULE MCSimulator ----------------------------
(* What the scheduler waits for in the simulator: edges of observed and      *)
(* locally driven signals, edges of a clock, delays, and phases under each   *)
(* of the two host loops.  A run explores them one beside the other: the     *)
(* initial state chooses the subject, and only the subject moves.            *)
EXTENDS Timers, TLC

CONSTANTS
  Subjects,                      \* what the run explores
  Waiters, Clocks, Observers, Locals, Primary, Cancellable, CompactThreshold,
  MaxTriggers, MaxGeneration,              \* those of EdgeWaits
                                 \* (Waiters is Coros)
  ClockObservers, Withdrawing, ClockGeneration,
                                 \* beside the clock: the observed signals, the
                                 \* coroutines whose waits are cancelled, and
                                 \* MaxGeneration
  DirectTime, VpiTime, PhaseQueue          \* MaxTime and MaxQueue of Phases

VARIABLES
  subject,
  \* EdgeWaits
  life, gen, awaits, nextGen, queue, entries, stale, counts, falling, published,
  changes, table, lost, where,
  \* Phases
  phaseNow, place, phaseStep, phase, waits, asked, due, phaseQueue, count, armed,
  deferred, dirty, done, aborted

edgeVariables == <<life, gen, awaits, nextGen, queue, entries, stale, counts,
                   falling, published, changes, table, lost, where>>
phaseVariables == <<phaseNow, place, phaseStep, phase, waits, asked, due,
                    phaseQueue, count, armed, deferred, dirty, done, aborted>>

\* Waits on observed and locally driven signals
Edge == INSTANCE EdgeWaits WITH Coros <- Waiters

\* Waits on the clock, one trigger and more waits
Clock == INSTANCE EdgeWaits WITH
  MaxTriggers <- 1, MaxGeneration <- ClockGeneration,
  Coros <- Waiters, Clocks <- {Primary}, Observers <- ClockObservers, Locals <- {},
  Cancellable <- Withdrawing

\* A wait for ReadWrite, for ReadOnly, or for an edge alone is among these with the
\* other trigger not coming first.
PhaseWaits == {{"nts"}, {"delay"}, {"ro", "nts"}, {"rw", "edge"}}

Direct == INSTANCE Phases WITH
  Coros <- Waiters, Backend <- "direct", Waits <- PhaseWaits, MaxTime <- DirectTime,
  MaxQueue <- PhaseQueue, MaxWrites <- 1, now <- phaseNow,
  stepping <- phaseStep, queue <- phaseQueue

Vpi == INSTANCE Phases WITH
  Coros <- Waiters, Backend <- "vpi", Waits <- PhaseWaits, MaxTime <- VpiTime,
  MaxQueue <- PhaseQueue, MaxWrites <- 1, now <- phaseNow,
  stepping <- phaseStep, queue <- phaseQueue

ASSUME /\ Edge!EdgeAssumption /\ Clock!EdgeAssumption
       /\ TimersAssumption
       /\ Direct!PhasesAssumption /\ Vpi!PhasesAssumption

MCInit ==
  /\ subject \in Subjects
  /\ IF subject = "clock" THEN Clock!Init ELSE Edge!Init
  /\ Init
  /\ Direct!Init

MCNext ==
  \/ /\ \/ subject = "edge" /\ Edge!Next
        \/ subject = "clock" /\ Clock!Next
     /\ UNCHANGED <<subject, vars, phaseVariables>>
  \/ /\ subject = "delay" /\ Next
     /\ UNCHANGED <<subject, edgeVariables, phaseVariables>>
  \/ /\ \/ subject = "direct" /\ Direct!Next
        \/ subject = "vpi" /\ Vpi!Next
     /\ UNCHANGED <<subject, edgeVariables, vars>>

MCSpec ==
  MCInit /\ [][MCNext]_<<subject, edgeVariables, vars, phaseVariables>>

\* No registration is lost and none is miscounted: every trigger of a current wait
\* has its entry after other waits were resumed, cancelled and compacted away,
\* the counters of the edge and phase queues agree with their entries, and
\* next_timer_ is the earliest of its heap.
BooksAgree ==
  /\ subject = "edge" => Edge!BooksAgree
  /\ subject = "clock" => Clock!BooksAgree
  /\ subject = "delay" => IInv
  /\ subject = "direct" => Direct!BooksAgree
  /\ subject = "vpi" => Vpi!BooksAgree

\* While the simulator runs, the wrapper delivers what is awaited: it observes
\* exactly the awaited edges of a signal, and every awaited edge of the clock but
\* those lost when a wait began and ended within one step.
InterestKnown ==
  /\ subject = "edge" => Edge!InterestKnown
  /\ subject = "clock" => Clock!InterestKnown

\* Every awaited edge of the clock, as scheduling.md says.
ClocksKnown == subject = "clock" => Clock!ClocksDelivered

\* Under both host loops ReadOnly observes a settled design, nothing of a time
\* step is left over when it ends, and NextTimeStep ends by the start of the next
\* one, not in its own but for what a due Delay resumed in the NextTimeStep step.
PhasesInOrder ==
  /\ subject = "direct" => Direct!PhasesInOrder
  /\ subject = "vpi" => Vpi!PhasesInOrder

\* A registration that a finished wait has left behind resumes nobody.
NoStaleResume == Edge!NoStaleResume

\* Coroutines are interchangeable.
Symmetry == Permutations(Waiters)
=============================================================================
