------------------------------ MODULE MCQueue ------------------------------
(* A Queue whose waits are cancelled, a larger Queue whose waits are not,    *)
(* and an Event.  A run explores them one beside the other: the initial      *)
(* state chooses the subject, and only the subject moves.                    *)
EXTENDS Queue, TLC

CONSTANTS
  Subjects,                               \* what the run explores
  CalmReady, CalmSize, CalmBound,         \* MaxReady, MaxSize and ItemBound of
                                          \* the queue nobody abandons
  EventCoros, EventChildren, EventReady   \* the event's coroutines

VARIABLES
  subject,
  calm, cgetting, cputting, caborted,     \* those of the queue nobody abandons,
  cstatus, cready, cpending, croots, cchildren, cpc, couter,  \* its scheduler's,
  set, waiters, bound,                                        \* the event's,
  estatus, eready, epending, eroots, echildren, epc, eouter   \* and its scheduler's

calmVars == <<calm, cgetting, cputting, caborted, cstatus, cready, cpending, croots,
              cchildren, cpc, couter>>
eventVars == <<set, waiters, bound, estatus, eready, epending, eroots, echildren,
               epc, eouter>>

Calm == INSTANCE Queue WITH
  Cancellable <- {}, MaxReady <- CalmReady, MaxSize <- CalmSize,
  ItemBound <- CalmBound, q <- calm, getting <- cgetting, putting <- cputting,
  aborted <- caborted, status <- cstatus, ready <- cready, pending <- cpending,
  roots <- croots, children <- cchildren, pc <- cpc, outer <- couter

Ev == INSTANCE Event WITH
  Coros <- EventCoros, Children <- EventChildren, Cancellable <- EventCoros,
  MaxReady <- EventReady, status <- estatus, ready <- eready,
  pending <- epending, roots <- eroots, children <- echildren, pc <- epc,
  outer <- eouter

ASSUME SizeAssumption /\ Calm!SizeAssumption

MCInit == subject \in Subjects /\ Init /\ Calm!Init /\ Ev!Init

MCNext ==
  \/ subject = "queue" /\ Next /\ UNCHANGED <<subject, calmVars, eventVars>>
  \/ subject = "calm" /\ Calm!Next /\ UNCHANGED <<subject, vars, eventVars>>
  \/ subject = "event" /\ Ev!Next /\ UNCHANGED <<subject, vars, calmVars>>

MCSpec == MCInit /\ [][MCNext]_<<subject, vars, calmVars, eventVars>>

\* Nobody waits for what is there: without cancellation every reservation is backed
\* as well, no consumer is parked beside an item nobody reserved and no producer
\* beside a free slot, and Event::set() finds every coroutine that waits for the
\* event.
WaitersRemembered ==
  /\ subject = "calm" => Calm!NobodyForgotten /\ Calm!Backed
  /\ subject = "event" => Ev!NobodyForgotten

\* The event implements the latch.
IsLatch == Ev!IsLatch

\* Every waiter of the queue waits in a child frame: the slots that may be
\* cancelled are interchangeable.
Symmetry == Permutations(Cancellable)
=============================================================================
