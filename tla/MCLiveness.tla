----------------------------- MODULE MCLiveness -----------------------------
(* What must happen in the end: a Lock, Delays, an APB bus, the stream       *)
(* components and a registered test.  A run explores them one beside the     *)
(* other: the initial state chooses the subject, only the subject moves, and *)
(* the fairness of each component is asked for while it is the subject.      *)
EXTENDS Lock, TLC

CONSTANTS
  Subjects,     \* what the run explores
  c1, c2,       \* clients of the APB bus
  Nobody, Word, \* of Apb
  Caller, None  \* of TestRun

VARIABLES
  subject,
  \* Timers
  now, state, timer, sequence, next, heap, changed, stepping, deadline, target,
  timerOwner, wakeups, finished,
  \* Apb
  clk, bus, busLock, client, req, waits, answer, watcher, checker, stall, budget,
  transfers,
  \* Stream
  point, driver, sink, monitor, wire, store, cancels, history,
  \* TestRun
  sched, cancellations, stack, calls, place, root, references, alive, cleanups,
  result, expected, reported, spawned

timerVariables == <<now, state, timer, sequence, next, heap, changed, stepping,
                    deadline, target, timerOwner, wakeups, finished>>
busVariables == <<clk, bus, busLock, client, req, waits, answer, watcher, checker,
                  stall, budget, transfers>>
streamVariables == <<point, driver, sink, monitor, wire, store, cancels, history>>
testVariables == <<sched, cancellations, stack, calls, place, root, references,
                   alive, cleanups, result, expected, reported, spawned>>
others == <<timerVariables, busVariables, streamVariables, testVariables>>

Delay == INSTANCE Timers WITH
  Coros <- {1, 2}, Delays <- {1, 2}, Forever <- 4, MaxTime <- 2, MaxTimers <- 2,
  owner <- timerOwner

Bus == INSTANCE Apb WITH
  Clients <- {c1, c2}, Values <- {Word}, Transfers <- 1, Stalls <- 1, Cancels <- 1,
  Starts <- 0, MaxWaitCycles <- 0, HasStrobe <- FALSE, DeferredWrites <- TRUE,
  lock <- busLock, pc <- client, monitor <- watcher, history <- transfers

Words == INSTANCE Stream WITH
  Words <- 2, Depth <- 1, Cancels <- 0, DriverDelay <- FALSE, SinkDelay <- FALSE,
  MonitorDelay <- FALSE, MonitorEdge <- "rising", MonitorSide <- "out",
  DeferredWrites <- TRUE

Test == INSTANCE TestRun WITH
  Slots <- {1, 2}, Registered <- TRUE, HasTimeout <- FALSE, SimLogs <- FALSE,
  MaxSpawns <- 2, pending <- cancellations, pc <- place, holders <- references

ASSUME /\ Delay!TimersAssumption /\ Bus!ApbAssumption /\ Words!StreamAssumption
       /\ Test!TestRunAssumption

MCInit ==
  /\ subject \in Subjects
  /\ Init /\ Delay!Init /\ Bus!Init /\ watcher.at = "off" /\ ~checker.on
  /\ Words!Init /\ Test!Init
  /\ ~expected

MCNext ==
  \/ /\ subject = "lock" /\ Next
     /\ UNCHANGED <<subject, others>>
  \/ /\ subject = "delay" /\ Delay!Next
     /\ UNCHANGED <<subject, vars, busVariables, streamVariables,
                    testVariables>>
  \/ /\ subject = "bus" /\ Bus!Next
     /\ UNCHANGED <<subject, vars, timerVariables, streamVariables,
                    testVariables>>
  \/ /\ subject = "stream" /\ Words!Next
     /\ UNCHANGED <<subject, vars, timerVariables, busVariables,
                    testVariables>>
  \/ /\ subject = "test" /\ Test!Next
     /\ UNCHANGED <<subject, vars, timerVariables, busVariables, streamVariables>>

MCSpec == MCInit /\ [][MCNext]_<<subject, vars, others>>

\* The drain loop runs to its end by itself; a coroutine that runs suspends or
\* ends at some point; the simulator keeps firing triggers; holders release.
LockFairness ==
  /\ WF_vars(/\ subject = "lock"
             /\ \/ Housekeeping /\ UNCHANGED lockVars
                \/ \E c \in Coros : ResumeCoro(c) \/ DestroyCoro(c)
                \/ \E c \in Coros : Suspends(c))
  /\ \A c \in Coros : SF_vars(subject = "lock" /\ Trigger(c) /\ UNCHANGED lockVars)
  /\ \A o \in Coros \cup {Main} : SF_vars(subject = "lock" /\ Release(o))
\* A coroutine returns to the scheduler, a step returns to the simulator, and
\* the simulator runs its processes and leaves a time slot after finitely many
\* events: strong fairness, because steps of the design interrupt all of them.
DelayFairness ==
  /\ \A c \in {1, 2} : WF_timerVariables(subject = "delay" /\ Delay!Run(c))
  /\ SF_timerVariables(subject = "delay" /\ Delay!EndStep)
  /\ SF_timerVariables(subject = "delay" /\ Delay!OwnerNext)
  /\ SF_timerVariables(subject = "delay" /\ Delay!WakeupNext)
  /\ SF_timerVariables(subject = "delay" /\ Delay!NextSlot)
\* The clocks run, and the coroutine that takes words from the sink's queue
\* takes those it finds.
ComponentFairness ==
  /\ WF_busVariables(subject = "bus" /\ Bus!Rise) /\ WF_busVariables(subject = "bus" /\ Bus!Fall)
  /\ WF_streamVariables(subject = "stream" /\ Words!Clock)
  /\ WF_streamVariables(subject = "stream" /\ Words!Receive)
\* What the scheduler has begun it carries on with, and a reference the caller
\* holds for the length of a call is dropped when the call returns.
TestFairness ==
  /\ WF_testVariables(subject = "test" /\ Test!SchedulerStep)
  /\ WF_testVariables(subject = "test" /\ Test!CallerDrops)
MCFairSpec ==
  MCSpec /\ LockFairness /\ DelayFairness /\ ComponentFairness /\ TestFairness

\* A Delay within the bound of simulation time ends.
DelaysEnd == Delay!DelaysEnd

\* A call on the bus and a send into the stream return, whoever dies holding the
\* lock and however full the device was.
CallsReturn == Bus!CallsReturn /\ Words!SendsReturn

\* A registered test that is over gives back its state.
Freed == Test!Freed
=============================================================================
