# cpptb: TLA+ models, model checking and proofs

cpptb is a C++20 testbench library for RTL simulation. Tests are coroutines;
one scheduler (`src/include/cpptb/coro_runtime.hpp`) runs them on the
simulator's thread, and a generated SystemVerilog wrapper connects it to the
simulator through DPI (`src/include/cpptb/dpi_runtime.hpp`,
`src/tools/codegen/cpptb_codegen/generate_dpi_bindings.py`). On top of it stand
the test API (`test_api.hpp`) and the verification components
(`src/include/cpptb_vc`). This directory models all of them whose correctness
depends on the order of many small steps or on rules with many cases.

## 1. Inventory

| Part | State | Operations | What makes it correct |
|---|---|---|---|
| Scheduler, drain loop | `states_`, `ready_`, `pending_cancellations_`, the two finished lists, `draining_`, `reclaiming_` | spawn, park, resume, finish, cancel, drain, reclaim | a frame is destroyed once, after its coroutine is done; cancellation returns what was reserved |
| Scheduler, edge waits | `edge_waiters_` and the counters that shadow it, `wait_generation` | begin/end of a wait, notify edge, compaction | stale registrations resume nobody; the simulator knows which edges are awaited |
| Scheduler, timers | timer heap, `next_timer_`, `timer_schedule_changed_` | Delay, `advance_time`, `next_timer_deadline` | no live deadline is missed, none ends early |
| Scheduler, phases | phase queues, counters, `current_phase_` | await and dispatch of ReadWrite, ReadOnly, NextTimeStep | ReadOnly sees a settled design; nothing of a time step is left over |
| Lock, Semaphore, Queue, Event | waiter lists, reservations, the value guarded | acquire, release, get, put, set, wait, abandon | exclusion, conservation, order, nobody stranded |
| Task, Process, Join, with_timeout | process controls, join states, frames | co_await, spawn, cancel, time out | one outcome, exceptions delivered once, no orphans |
| DPI runtime, wrapper, timing loop | interest table, timer owner and wake-ups, phase pump | step, `service_requests` | steps exactly when C++ waits for something |
| Test API | `TestRunState`, its references, processes and result | run, spawn, check, skip, finish, time out | one verdict; the state outlives its users; nothing runs after the end |
| Register model | mirror, staged values, validity, write-once bits, address maps | read, write, update, mirror, predict, route, alias | mirror and device agree wherever the mirror claims to know |
| Register memories, expected memories | regions, bytes, the call in progress | read, write, blocks, callbacks, predict | an access lands where it is named, changes the elements it reports and no others |
| Register sequences, coverage | progress, counters, decode table | reset check, access check, bit bash; observe, sample | defects found and nothing else changed; accesses counted exactly |
| APB, stream | bus signals, callers, monitors, checker | write, read, send, receive, watch | each transfer once, observed as it was answered |
| Analysis port, scoreboards, recorder | slots, buffer, queues, sinks | write, connect, expect, observe, publish | the audience is served; pass means equal; traces tell their gaps |
| Wait graph, coverage, randomisation, bit vectors, logging, discovery, generators, build tools | — | — | see section 7 |

Everything runs on one thread, so there are no data races. The hard behaviours
are of another kind. A coroutine is woken in one step and runs in a later one,
and between the two it may be cancelled. A cancelled coroutine's frame is
destroyed later still, at a point that depends on whether it is a process or an
awaited child. The destructor of an awaiter in that frame may wake others and
start a drain inside the loop that destroys frames. Slots are recycled while old
registrations that name them are still queued. The simulator sees the
scheduler's wishes only at the end of a step. Values read before a `co_await` of
a bus transfer are used after it. Subscribers, sinks and callbacks re-enter the
object that called them, or throw. `PROJECT.json` lists these hazards at the
lines where they bite.

## 2. Modules

### Scheduler and primitives

`WaitList` is the deque of waiters. A deque without duplicates is the function
from each waiter to the set of waiters in front of it: `PushBack`, `EraseAll`,
`Oldest` and `FirstOf` need no recursion, and the proofs no induction.

`Coroutines` is the drain loop as a primitive sees it: `ready`, `pending`, the
two finished lists, and `pc`, the place the scheduler is at. `"idle"` is the
simulator, `"drain"` the pop in `drain_ready_queue`, `"run"` a coroutine,
`"apply"` `apply_pending_cancellations`, `"collect"` `collect_finished_roots`
inside the drain, `"roots"` and `"children"` the halves of `scheduler_boundary`.
`outer` remembers the half a nested drain was started from: while it is set
`reclaiming_` is set and `collect_finished` returns at once. Coroutines in
`Children` wait in an awaited child frame, the others in a process's own.

`Lock`, `Semaphore`, `Queue`, `Event` extend `Coroutines`: one operator per
member function, as a function of the object's fields, and one action per
operation. `awaiter` (`getting`, `putting`) is the set of coroutines whose frame
holds a registered awaiter, that is, whose destructor will call `abandon`. A
check that calls `std::abort` sets `aborted`. `holders` and `credit` are the
clients' view. Code outside the scheduler uses the objects too (`MainPoll`,
`MainTryAcquire`). In `Semaphore` the `cleanup()` inside `abandon()` may drain
before the abandoned permit is dispatched: `owed` holds that permit. `Event`
keeps the registrations of dead coroutines until `cleanup()` finds them.

`Latch` is the abstract specification of `Event`: a flag, and a set of clients
that wait for it. `Event` implements it under
`flag <- set, waiting <- {c : status[c] = "parked"}` (`IsLatch`).

`Tasks` is `spawn`, `cancel`, `co_await` of a process or a task, `Join` and
`with_timeout`. `stack` is the chain of activations: the drain loop's, that of an
await that started a process inline (`run_process_if_only_ready`), that of
`start_timeout`. `link` is what a coroutine reports to when it ends, `awaits`
what it waits for. Slots are reused. The completion waiters of a process are a
`WaitList`. `cancel_state` calls itself for each child: the frames it ends are the
least set that holds the cancelled one and, with each member, its live children
(`CancelSet`), which is the same set for any finite family and needs no recursion.
Where the code skips the frame itself among its children, `ChildrenOf` need not:
nobody is his own descendant (`Rooted`, proved).

`EdgeWaits` is a wait for an edge on its way to the wrapper and the edge on its
way back: `Await`, `ResumeEdge`, `EndWaits`, `Compact`, the interest masks, the
sticky masks of clocks, `EndStep` and `WrapperEdge`. Every step calls `set_time`
first: when Delays are due (`DueDelays`) their coroutines run, and the scheduler
passes a boundary (`EndDue`), before the edge or phase is notified; a wait may
begin and end in one step without anybody being cancelled. `lost` remembers the
edges of clocks whose interest ended before the wrapper read it. Generations are numbers, as
in the code. A queue of `edge_waiters_` is the set of its registrations: a dispatch
takes all of it and compaction keeps its order, so that order shows in nothing but
the order of the resumed coroutines, which is left open. The deque of changed
signals is a set for the same reason.

`Timers` is `Delay` on the scheduler, the report of a DPI step, and the
SystemVerilog processes `timer_owner` and `timer_wakeup`, which interleave where
they block. A registration is valid while the wait that made it lasts; a wake-up
is current while `timer_generation` is the one it was forked with.

`Phases` is the host loop of `verilator_timing_main.cpp` with the scheduler's
phase queues and the queued writes of `Testbench`, for both backends (`"direct"`
asks before each dispatch, `"vpi"` dispatches what was registered earlier). Its
steps have two halves too: that of NextTimeStep or of an edge resumes the Delays
due first (`ResumeDue`), that of ReadWrite applies the queued writes first.

### Test run and components

`TestRun` is the life of one `TestRunState`: the references to it, the processes
it owns, checks, verdict, time limit, cancellation and release. `calls` is the
C++ call stack below the coroutines (drain, collection, the loops that cancel
processes outside of a drain), `stack` the coroutines inside it.

`RegisterBits` holds the rules of `register_model.hpp`: what a handle predicts,
encodes and compares, for each access policy and effect. A value is the set of
its one bits. The header implements the rules twice (whole fields with masks, and
bit by bit); so does the module, and `WideAgrees` compares them. `RegisterBus`
is the device, the bus and the calls that return at once. Of those `peek`, `poke`
and `reset` do not take the lock, and where `Overlap` is TRUE they fall into
transfers: `InFlight` are the bits the device has changed and the model not yet
predicted, `doubted` those of which the model was told something that the
prediction under way will spoil, until they are read, peeked or reset again.
`Register` and `WideRegister` add the coroutines of the two handle classes, one action from one
`co_await` to the next. `AddressMap` is `RegisterAddressMap` and
`RegisterPredictor`. `MemoryBus` with `RegisterMemory` or `WideRegisterMemory` is
the two memory handles.

`SparseMemory` is `memory_model.hpp`: regions that keep only the bytes which
differ from the fill value, words in either byte order, callbacks, and the
predictor. `before_access` may veto or rewrite an access, `after_access` may
translate the status and the data read when the bytes are loaded or stored
already: an access has what was `decided` and what was answered. `FlatMemory` is
what it promises, an array of cells; the refinement mapping is `Cell`/`Flat`
(`FlatSpec`).

`RegisterSequences` is the three sequences on one register of a device that may
have a defect. `RegisterCoverage` decodes a transaction by its table and by its
scan, and counts beside them (`told`) what the map itself says.

`Apb` is a shared master, a monitor and a protocol checker on one bus, by clock
edges. `Stream` is driver, sink and monitor around a device that queues words,
with four points in each cycle. `AnalysisPort` is `write` with subscribers that
connect, disconnect, re-enter and throw; `Erased`, the slots that stay when the
last write ends, in their order, is defined by how many stay in front of each. `Scoreboards` is an in-order and a keyed
scoreboard behind a bounded buffer and its consumer. `TransactionRecorder` is the
recorder with sinks that fail. A file is written through the buffer of its
`std::ofstream`: `kept` are the lines the stream took, `written` how many of them
are in the file, `torn` whether it ends inside a line. Any write or flush may
write out any part of the buffer, or fail and lose the rest.

### Mutants

A definition whose comment starts with "Mutant" is a variant of the definition it
stands beside, with a plausible mistake. Each property is violated when its
mutant replaces that definition.

## 3. Runs

A run explores several subjects one beside the other: the initial state chooses
`subject`, and only the subject's module moves. Nothing is shared between
subjects; what is composed inside one module (lock and callers, port and buffer,
scheduler and wrapper) is in that module.

| Run | Subjects | Distinct states |
|---|---|---|
| `lock` | a `Lock` and a `Semaphore` (up to 2 permits), each with 2 processes, 2 child tasks and an outside user; one child's frame is never destroyed early | 1.0 million |
| `queue` | a `Queue` of capacity 1 with 4 tasks, 3 of them cancellable; one of capacity 2 nobody abandons; an `Event` with 3 coroutines | 0.9 million |
| `simulator` | edges of an observed and a driven signal, 2 triggers a wait; a clock and an observed signal, one trigger a wait; 2 coroutines with Delays; phases under each host loop | 1.6 million |
| `tasks` | 4 of 5 slots, 2 processes, 1 of 2 `JoinState`s; 5 slots, 1 process, 2 nested `JoinState`s | 0.2 million |
| `registers` | both register handles: one client with every call (and each effect in one transfer), two clients, a monitor, each also with peeks, pokes and resets in transfers; an address map with an alias; narrow and wide memories; an expected memory and its predictor; sequences; coverage by table and by scan | 1.0 million |
| `testbench` | APB in both write models; streams around two devices; a port; two scoreboard settings; the recorder; a registered test with a time limit; a bare context with a log sink that throws | 1.6 million |
| `liveness` | a `Lock` of 2 processes, Delays, an APB bus, a stream, a registered test | 24 000 |

What they show:

- `lock`: `IInv` (the inductive invariant of section 5), `MutualExclusion`,
  `NoAbort`, `NoLostHandoff` and `NoBarging` for `Lock`; `PermitsKept` and
  `OldestFirst` for `Semaphore`.
- `queue`: reservations are backed by items and slots (`ReservationsBacked`), go
  to the oldest waiter (`OldestFirst`); without cancellation no waiter is parked
  beside what it waits for and an event's `set()` finds every waiter
  (`WaitersRemembered`); `Event` implements `Latch` (`IsLatch`).
- `simulator`: the books of edges, timers and phases agree with the queues
  (`BooksAgree`), the wrapper observes exactly what is awaited of a signal, and of
  a clock at least that, but for edges a wait for which once began and ended
  within one step (`InterestKnown`), a process is under way to every deadline (`DeadlinesArmed`), ReadOnly is last and
  nothing of a time step is left (`PhasesInOrder`), stale registrations resume
  nobody (`NoStaleResume`), Delays end on time (`OnTime`).
- `tasks`: no orphan, no zombie, nobody waits in vain (`FamiliesIntact`); a Join
  returns when all have ended, with the first exception (`JoinReturns`).
- `registers`: mirror and device agree but for the bits of transfers a peek, a
  poke or a reset fell into (`MirrorsExact`), an update writes what
  leads to the staged value and both implementations agree (`RulesAgree`),
  converges and keeps what a failed transfer did not reach, and `mirror()` raises
  no false alarm (`UpdatesHonest`); an access of a memory handle goes to the
  elements it names, and one that fails or throws has done exactly those before
  the one it stopped at; the narrow handle throws before its first transfer only
  (`MemoriesExact`); `MapExact`, `SequencesHonest`, `CoverageExact`;
  `SparseMemory` implements `FlatMemory` (`FlatSpec`).
- `testbench`: a call on the bus is one transfer, observed as it was answered,
  or none (`TransfersOnce`); every word of a stream is accepted, received and
  published once, in order (`StreamsExact`); `AudienceServed`, `ScoreboardsExact`;
  a trace misses only records whose publication threw, and, in a file that is not
  final, lines at its end (`TracesHonest`); `TestRunState` outlives its users (`StateOutlives`), a test
  that is over stays still (`StoppedAtOnce`) with one verdict (`OneVerdict`), and
  finished results and traces do not change (`FinishedStays`).
- `liveness`: a waiter gets the lock (`Served`), a Delay ends (`DelaysEnd`), a
  call on the bus and a send return (`CallsReturn`), a finished test gives its
  state back (`Freed`).

### Bounds

Scheduler. `MaxReady` limits spawning while the ready queue is long; wakes are
not limited. With four slots a holder or releaser, a reserved waiter, a waiter
behind it and a canceller are there at once, with two of each kind of frame.
`MaxPermits = 2` lets `release(2)` reserve for two waiters. One child of the
lock and one task of the queue are never cancelled: the others meet every
cancellation beside a waiter that stays. In `EdgeWaits` `MaxGeneration = 3` is a
wait, its cancellation and a new wait in the recycled slot (4 for the clock,
whose waits have one trigger each: a wait lost within a step, its cancellation
and a later wait; a `First` of a clock and a signal is left to the theorem), and `CompactThreshold` is 2 instead of 64 so that compaction
happens with live entries left. Waits on phases are a NextTimeStep, a Delay and two that
mix phases with each other or with an edge. In `Timers` `Delays = {1, 3, 7}` are
a short one, a long one and one that saturates at `Forever`. `MaxInline = 1`
reaches both the inline start and its fallback. In the nested subject of `tasks`
plain tasks are left to the other subject (`InBounds`).

Components. Registers have two bits, each a byte lane, so that a transfer may
carry all of a field, half of it or none. The layouts are each read and write
effect on a field over both bits (in one transfer), and mixtures of write-once,
write-only, read-only, cleared-on-read and volatile fields in two transfers.
Peeks, pokes and resets during transfers have subjects of their own: a toggling
field, one cleared by a read, write-once bits in two transfers, with the narrow
handle, the wide one, and a monitor. The memories of three elements in windows that end at and beyond the address type
reach every refusal. APB calls and stalls are bounded so that a transfer
completes, fails, times out or is killed beside a queued one; on the bus without
a time limit monitor and checker are on from the start or never. Streams carry
three words through devices of one and two. A port has three subscriptions alive
in frames three deep. Tests have up to three processes, those with an expected
failure two.

Symmetry is used only in runs without liveness, for slots of one kind.
Deadlock is checked in `lock` and `queue`, whose systems never stop; the other
runs end in states where simulation time, calls or tests are used up.

### Fairness

`MCLiveness` states the fairness of each component over that component's
variables. The drain loop is a loop of the program: weak fairness of its steps
and of a running coroutine suspending or ending (one that never suspends hangs
the simulation). The simulator keeps firing triggers, and holders release: strong
fairness, as both are enabled only now and then. The SystemVerilog processes and
the time slots of the simulator: strong fairness, since steps of the design
interrupt them. The clocks run: weak fairness of the edges, and of the coroutine
that takes words from the sink. A finished test: weak fairness of the scheduler
and of the caller dropping its reference. Nothing is assumed of the design: a
stalled device is bounded by its number of stalls. `Served` also assumes that
drains end (`[]<>(pc = "idle")`): coroutines that wake each other for ever keep
time from advancing.

## 4. Findings

Each has a run that shows it.

1. `queue_abandon`. `Queue::cleanup()` gives up a dead waiter's reservation and
   wakes nobody; `abandon_get`/`abandon_put` then do not find the waiter. The
   next waiter stays parked beside a free item or slot. `Lock::cleanup` and
   `Semaphore::cleanup` pass the reservation on.
2. `lock_reclaim`. A process cancelled in a drain that was started by the
   destruction of a child frame at the boundary is not reclaimed in that
   boundary; a lock handoff reserved for it stays with it while the scheduler is
   idle.
3. `edge_withdraw`. A wait for a clock edge that ends in the DPI step in which it
   began marks the direction as published, but the wrapper reads an empty mask;
   later waits for that direction announce nothing. It needs no cancellation: a
   Delay due at the beginning of the step (`dpi_runtime.hpp:367`) can begin the
   wait, and the edge the step was called for (388) end it.
4. `register_lost_write`. An `update()` commits the state it computed before its
   transfers; a field another coroutine staged meanwhile is overwritten, and that
   coroutine's `write()` succeeds without a transfer.
5. `test_run_sim_log`. A log sink that throws outside of a drain makes `finish`
   cancel the root, whose frame holds the last reference to the state `finish`
   is working on.

Further disagreements met while modelling, which the runs step around as noted:

- `register_model.hpp:3150`: predicting a write of a register without fields
  copies the whole mirror to staged, so a chunk that failed loses its staged
  value. The narrow subject has no layout without fields.
- `register_model.hpp:4453`: the wide handle leaves the staged value of a bit
  that is written once already; `needs_update()` may hold after every `update()`.
  `ConvergesStep` is not asked of the wide handle.
- `dpi_runtime.hpp:367`: a coroutine whose Delay is due in the NextTimeStep step
  itself and that then awaits `NextTimeStep{}` is resumed in the same step, as
  the queue is taken only after the Delays have run. `docs/scheduling.md:32` and
  `:111-113` promise the next time step. `NextStepReached` names this case.
- `register_model.hpp:3091-3103`: a `peek()` or `poke()` during a transfer is told
  to the model at once, and the prediction or commit of the transfer is applied on
  top: a toggling field is toggled twice, a poked value is overwritten by what an
  update computed before. `docs/memory-register-models.md:265` says "Updates the
  mirror immediately"; the mirror then differs from the device until the next
  read. `MirrorExact` leaves out these bits (`doubted`) and no others.
- `register_model.hpp:2638-2699`: the wide memory handle looks up the address of
  each element inside the loop of a block, where the narrow one has checked the
  whole block before. When a map has no address for a later element, the call
  throws with the earlier ones transferred, and their count is lost with the
  exception. `PrefixExact` says what has then been done; `NoThrowMidBlock` is
  asked of the narrow handle only. Nor are addresses compared with the address
  type (2651); the wide memory's own window ends inside it here.
- `transaction_recording.hpp:388-399`: a line that `write` accepted is in the
  buffer of a stream; when a later write or the flush of `finalize` fails it is
  lost, although its publication did not throw: the error is that of a later
  call. `NoSilentGap` lets a file that is not final miss
  its last lines.
- `ports.hpp:259`: under `DropOldest`, when every item is promised to a consumer,
  the new observation is dropped. `BufferAccounted` counts it either way.
- `stream.hpp:57`: with a sample delay the driver reads `ready` after the edge;
  if the word filled the device it is sent twice. `DriverDelay` is FALSE.
- `register_coverage.hpp:616`: the first field of a transfer is kept in 8 bits;
  beyond 256 fields the table counts wrong ones. The blocks here are smaller.
- `test_api.hpp:394`: `skip()` after a failed expectation counts as success.
  `VerdictSound` says what the code does.
- `test_api.hpp:455`: when the scheduler is draining the result is reported
  before the remaining processes stop. `StoppedAtOnce` speaks of afterwards.

## 5. Proofs

Each theorem holds for every value of the constants that the named assumption of
its module allows: any finite set of coroutines, any bounds, any capacity, any
thresholds. The argument is the same throughout: an inductive invariant `IInv`,
one lemma for the effect of each operation on the component's fields, one for
each action, and the properties as consequences of `IInv` or, for action
properties, of `IInv` and one step. Every `IInv` was checked on the instance of
its component's run before it was proved; the runs `lock` and `simulator` still
check theirs, the others check the properties it implies.

`WaitListProofs` has the facts about wait lists: types, order, the oldest members
and how many they are. `CoroutineProofs` has the effect of each step of the drain
loop on statuses and queues, which the four primitives share.

- `LockProofs`: `LockInvariant`, `LockTypeOK`, `LockMutualExclusion`,
  `LockNoAbort`, `LockNoLostHandoff`, `LockNoBarging`. Mutual exclusion alone is
  not inductive: that the resumed waiter is the only owner depends on `locked_`
  and `handoff_pending_` telling the truth about reservations, and that on every
  awaiter in a ready coroutine being reserved. `Consistent` and `AwaiterInv` say
  so. Order needs in addition that the list is ordered and its dead entries are
  skipped.
- `SemaphoreProofs` (`PermitsAssumption`): `SemaphoreInvariant`,
  `SemaphorePermitsKept`, `SemaphoreOldestFirst`. The permit that `abandon()` holds
  back while `cleanup()` drains (`owed`) is part of the sum.
- `QueueProofs` (`SizeAssumption`): `QueueInvariant`, `QueueReservationsBacked`,
  `QueueOldestFirst`, and `QueueNobodyForgotten`, which also assumes
  `Cancellable = {}`: with cancellation it is false (finding 1). Consumers and
  producers obey the same rules, so the lemmas are about one side of the queue.
- `QueueProofs`, for `Event` on the same scheduler: `EventNobodyForgotten` and the refinement
  `EventIsLatch`: the initial state maps to `Latch`'s, and every step to a step of
  `Latch` or to a stutter.
- `TestbenchProofs`, for `Apb` (`ApbAssumption`): `ApbInvariant` and
  `ApbTransfersOnce`, for any number of clients, any limit of wait cycles or none,
  with and without PSTRB and in both write models. `TransfersOnce` speaks of
  finished calls; what makes it inductive is what holds in the middle of one.
  `Locked` gives the bus to one caller at a time, `Driven` says that the signals
  are the request of the caller on the bus, or what a killed one left, and
  `Counts` that master and device count the same wait cycles, below the limit, so
  that a time-out and a late answer never meet: in immediate writes the caller
  that gives up withdraws at the falling edge of the same cycle. `Settled` says
  that nothing has happened for a call that still waits. `Monitored` and `Checked`
  say that an observer that has seen the setup phase holds what is on the bus,
  and that the checker's flags name the phase the bus is in unless there is an
  excuse already.
- `TestbenchProofs`, for `AnalysisPort` (`PortAssumption`): `PortInvariant` and
  `PortServesAudience`, what the run checks as `AudienceServed`, for any number of
  connections and any depth of re-entrant writes. Whom a write still has to call
  is read off the slots, so the proof rests on slots being erased only when no
  write is under way: `Nested` says that a port that is written to exists, that
  every write but the innermost is inside a call, and that a disconnected slot is
  remembered in `compact_pending` until the last write ends.
- `TestbenchProofs`, for `TransactionRecorder` (`RecorderAssumption`):
  `RecorderInvariant`, `RecorderTracesHonest` (what the run checks as
  `TracesHonest`) and `RecorderFinalStays`. `NumbersTaken` makes them inductive: a
  number in a sink is below its stream's next one, so that a publication adds a
  number no sink has, wherever in the list of sinks it is cut short. What a sink
  took and what its file holds are kept apart: `Accounted` is about the first, and
  `InOrder` says that the file has a prefix of it, and all of it once it is final.
- `SimulatorProofs`, for `Timers` (`TimersAssumption`): `TimersInvariant`, `TimersDeadlinesArmed`,
  `TimersOnTime`. The invariant ties three layers together: the heap has one
  registration, with its own number, for each Delay awaited; the report says the
  earliest of them unless it is about to be renewed; and an owner or a current
  wake-up of the wrapper sleeps until no later than what was reported.
- `SimulatorProofs`, for `EdgeWaits` (`EdgeAssumption`): `EdgeInvariant`, `EdgeBooksAgree`,
  `EdgeInterestKnown`, `EdgeNoStaleResume`. Generations only grow, so that a
  registration and the wait it was made for are distinguished even when a slot has
  a new owner; the counters are compared with the queues by one-to-one functions
  between live registrations and awaited edges. Of clocks `InterestKnown` says
  what the code keeps (`ClocksDeliveredOrLost`): an awaited edge is in the
  wrapper's table unless it is in `lost`. Without `lost` it is `ClocksDelivered`,
  which is false (finding 3).
- `SimulatorProofs`, for `Phases` (`PhasesAssumption`): `PhasesInvariant`, `PhasesBooksAgree`,
  `PhasesKeepOrder`. `NextStepReached`, a part of it, has the exception of section
  4 for a Delay due in the NextTimeStep step. The order of phases depends on the counters: a backend leaves
  a phase out when its counter is 0, and only because the counter is exact, and, of
  the backend `"vpi"`, because a callback is held for every phase awaited between
  steps, does that mean that nobody waits for it.
- `TasksProofs` (`TasksAssumption`: finitely many slots): `TasksInvariant`,
  `TasksFamiliesIntact`, `TasksJoinReturns`, for any number of slots, processes
  and `JoinState`s and any depth of inline starts. Neither property is inductive.
  That no child outlives its parent depends on how the parent ends: when a child
  reports, by being alone (`Calls`, `JoinBooks`), and when it is cancelled, by
  everything below it being cancelled with it, up to a frame that is not in the
  cancelled set and has no child in it. `Rooted` makes the families finite trees
  (each set of slots has a member that is no member's child), so that
  each cancelled frame but the first hangs on a cancelled one, and the cancelled
  process is the only process among them. `ProcessBooks` ties each process that
  has not completed to one live coroutine, which is what `cancel` looks up.
  `JoinBooks` counts: children that live and children that have ended make two
  (one, for `with_timeout`), so a parent is woken by the last. `Activity` says
  that every activation but the innermost is suspended inside the await that
  started the next, and that there is none while the scheduler drains or applies
  cancellations; a process's own frame never waits for a deadline (`FramesFit`),
  so that an inline start cancels nothing, and no activation's frame is ever
  cancelled.

What stays with TLC, and why:

- `Served`, `DelaysEnd`, `CallsReturn`, `Freed`: liveness under fairness is
  beyond the prover.
- The properties of `registers`: values are small sets of bits and layouts are
  enumerated; the modules fold over fields, chunks and bytes with recursive
  definitions.
- Of `testbench`, the properties of `Stream`, `Scoreboards` and `TestRun`,
  which are checked on instances only. The scoreboards compare what a sequence
  was filtered and folded to, which is induction over data; the others run many
  processes through a time step whose invariants are not proved here.

## 6. What the models assume

- `Apb`: everyone on the bus samples the same values at a rising edge, and the
  clock runs.
- `Stream`: who resumes at an edge samples what was there before it; a sample
  delay ends before the next edge.
- `Register`, `RegisterSequences`: the bus answers every request, with a
  response or an error; a transfer takes effect at one instant between the two.
  A sequence has its register to itself.
- `TestRun`: nobody holds a handle to the root process; a context passed by
  reference is used only while somebody holds it; a log sink throws only outside
  of drains. `NothingLeft` is asked of registered tests.
- `Queue`: finding 1 limits what is asked of waiters (`WaitersRemembered`) to a
  queue nobody abandons.
- `SparseMemory`: a callback may change data, lanes and status; it does not
  replace the spans of its event, nor use the memory it is called from. The
  predictor's design may answer anything, and one that answers an error with data
  other than zero is a mismatch that is counted, as the code counts it.
- `TransactionRecorder`: a file sink that is destroyed without `finalize()`, and
  what closing a failed file again writes, are left out.
- `RegisterCoverage`: observations that did not complete are left out; the code
  ignores them (`register_coverage.hpp:183`).
- A device, a bus master, a subscriber or a sink from outside `src/` does
  anything its interface allows; such definitions are marked external.

## 7. Not modelled

- Wait graph (`wait_graph.hpp`): `snapshot()` reads the scheduler and changes
  nothing; its verdict is a function of the list it returns.
- Static edge sources: only hand-written hosts configure them. Clock
  registration and value transport of the DPI runtime: start-up and copying.
- Coverage (`coverage.hpp`): bins counted by the call that samples them; the rest
  is matching of values and reports.
- Randomisation: constraints go to an SMT solver, streams to a generator of
  random numbers.
- Bit vectors, fixed point: pure conversions without state.
- Logging, diagnostics, probes: formatting and output; what a throwing sink does
  to a test is in `TestRun`.
- Discovery and hierarchy: bound once, at elaboration; nothing changes later.
- Code generators, build files, scripts, examples: text in, text out. The tasks
  the generated wrapper runs are in `EdgeWaits` and `Timers`.
- Registration and selection of tests, their metadata and the JSON report:
  tables and text.
- Values that tasks and queues carry, the checks of register descriptors when a
  model is built, and the planning of bursts beyond one transfer a piece.
