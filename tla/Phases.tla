------------------------------- MODULE Phases -------------------------------
(***************************************************************************)
(* The simulator phases: the host loop of verilator_timing_main.cpp, which *)
(* dispatches NextTimeStep, evaluates the design, dispatches ReadWrite     *)
(* until nobody asks for it any more, and then dispatches ReadOnly; the    *)
(* phase queues and counters of the scheduler; and the queued writes of    *)
(* cpptb::coro::Testbench.  Both supported timing backends are covered:    *)
(* "direct" asks the runtime before each dispatch which phases are         *)
(* pending, "vpi" dispatches a phase for which a callback was registered   *)
(* at the end of an earlier step.  A DPI step first sets the time, which   *)
(* resumes the Delays that are due and drains what they made ready, and    *)
(* then dispatches the phase or edge it was called for.                    *)
(*                                                                         *)
(* A registration in a phase queue is live while the wait that made it     *)
(* lasts, which is what the wait generation decides in the code.           *)
(***************************************************************************)
EXTENDS Naturals, Sequences, FiniteSets

CONSTANTS
  Coros,
  Backend,    \* "direct" or "vpi"
  Waits,      \* what one co_await can wait for: sets of phases, "edge", "delay"
  MaxTime,    \* bound on simulation time
  MaxQueue,   \* bound on the length of a phase queue
  MaxWrites   \* bound on the number of queued writes

Kinds == {"rw", "ro", "nts"}

\* What an instance gives the constants.
PhasesAssumption ==
  /\ Waits \subseteq (SUBSET (Kinds \cup {"edge", "delay"})) \ {{}}
  /\ IsFiniteSet(Coros)
  /\ Backend \in {"direct", "vpi"}
  /\ MaxTime \in Nat /\ MaxQueue \in Nat /\ MaxWrites \in Nat

VARIABLES
  now,
  place,      \* where the host loop is
  stepping,   \* the kind of the DPI step under way, "none" between steps; "flush",
              \* "dueNts" and "dueEdge" are the first halves of "rw", "nts", "edge"
  phase,      \* current_phase_
  waits,      \* what each coroutine waits for, {} while it runs
  asked,      \* when its wait began (history)
  due,        \* the coroutines whose Delay is due and has not been resumed
  queue,      \* phase_waiters_: the coroutine and whether its wait still lasts
  count,      \* phase_waiter_counts_
  armed,      \* PhaseCallbackData::pending, of the backend "vpi"
  deferred,   \* the number of deferred_writes_
  dirty,      \* a write was applied that the design has not evaluated
  done,       \* the coroutines that have returned
  aborted     \* std::abort was called

loopVars == <<now, place>>
waitVars == <<waits, asked, queue, count, done>>
vars == <<now, place, stepping, phase, waits, asked, due, queue, count, armed,
          deferred, dirty, done, aborted>>

FirstHalves == {"flush", "dueNts", "dueEdge"}
Steps == Kinds \cup {"edge"} \cup FirstHalves

TypeOK ==
  /\ now \in 0..MaxTime
  /\ place \in {"next", "eval", "rw", "ro", "time"}
  /\ stepping \in Steps \cup {"none"}
  /\ phase \in Kinds \cup {"evaluation"}
  /\ waits \in [Coros -> Waits \cup {{}}]
  /\ asked \in [Coros -> 0..MaxTime]
  /\ due \subseteq Coros
  /\ queue \in [Kinds -> Seq([coro: Coros, live: BOOLEAN])]
  /\ count \in [Kinds -> 0..Cardinality(Coros)]
  /\ armed \subseteq Kinds
  /\ deferred \in 0..MaxWrites
  /\ dirty \in BOOLEAN
  /\ done \subseteq Coros
  /\ aborted \in BOOLEAN

\* The tests start in the step PHASE_INIT, inside the first evaluation.
Init ==
  /\ now = 0
  /\ place = "eval" /\ stepping = "edge" /\ phase = "evaluation"
  /\ waits = [c \in Coros |-> {}]
  /\ asked = [c \in Coros |-> 0]
  /\ due = {}
  /\ queue = [k \in Kinds |-> <<>>]
  /\ count = [k \in Kinds |-> 0]
  /\ armed = {} /\ deferred = 0 /\ dirty = FALSE
  /\ done = {} /\ aborted = FALSE

Ready == {c \in Coros \ done : waits[c] = {}}

-----------------------------------------------------------------------------
(* The scheduler.                                                          *)

\* end_wait of the coroutines in S: their registrations become stale and are
\* taken out of the counters, in every queue they are in.
EndWait(q, S) ==
  /\ queue' = [k \in Kinds |-> [i \in DOMAIN q[k] |->
                 [q[k][i] EXCEPT !.live = @ /\ q[k][i].coro \notin S]]]
  /\ count' = [k \in Kinds |->
                 count[k] - Cardinality({c \in S : k \in waits[c]})]
  /\ waits' = [c \in Coros |-> IF c \in S THEN {} ELSE waits[c]]

\* resume_phase: the whole queue is taken; what is registered from now on
\* belongs to the next dispatch.
ResumePhase(k) ==
  LET resumed == {queue[k][i].coro : i \in {j \in DOMAIN queue[k] : queue[k][j].live}}
  IN  EndWait([queue EXCEPT ![k] = <<>>], resumed)

\* has_read_write_waiters, has_read_only_waiters, has_next_time_step_waiters
HasWaiters(k) == count[k] # 0 \/ (k = "rw" /\ deferred # 0)

\* dispatch_if_pending, or the callbacks a VPI simulator holds
Pending(k) == IF Backend = "direct" THEN HasWaiters(k) ELSE k \in armed

\* Awaiting ReadWrite or ReadOnly after ReadOnly in the same time step aborts.
Forbidden(S) == phase = "ro" /\ S \cap {"rw", "ro"} # {}

\* co_await: register_wait for each alternative
Await(c, S) ==
  /\ ~aborted /\ stepping # "none"
  /\ c \in Ready
  /\ \A k \in S \cap Kinds : Len(queue[k]) < MaxQueue
  /\ IF Forbidden(S)
     THEN /\ aborted' = TRUE
          /\ UNCHANGED waitVars
     ELSE /\ waits' = [waits EXCEPT ![c] = S]
          /\ asked' = [asked EXCEPT ![c] = now]
          /\ queue' = [k \in Kinds |-> IF k \in S
                         THEN Append(queue[k], [coro |-> c, live |-> TRUE])
                         ELSE queue[k]]
          /\ count' = [k \in Kinds |-> count[k] + IF k \in S THEN 1 ELSE 0]
          /\ UNCHANGED <<done, aborted>>
  /\ UNCHANGED <<loopVars, stepping, phase, due, armed, deferred, dirty>>

\* An Event or a driven signal resumes a coroutine in the step under way; a
\* coroutine is cancelled where it waits.
Interrupt(c) ==
  /\ ~aborted /\ stepping # "none"
  /\ waits[c] # {}
  /\ EndWait(queue, {c})
  /\ done' \in {done, done \cup {c}}
  /\ UNCHANGED <<loopVars, stepping, phase, asked, due, armed, deferred, dirty,
                 aborted>>

Return(c) ==
  /\ ~aborted /\ stepping # "none"
  /\ c \in Ready
  /\ done' = done \cup {c}
  /\ UNCHANGED <<loopVars, stepping, phase, waits, asked, due, queue, count, armed,
                 deferred, dirty, aborted>>

\* set() queues a write, set_now() applies one: require_write_allowed first, which
\* knows the phase the step was called for.
Set(c) ==
  /\ ~aborted /\ stepping # "none"
  /\ c \in Ready
  /\ IF stepping = "ro"
     THEN aborted' = TRUE /\ UNCHANGED <<deferred, dirty>>
     ELSE \/ /\ deferred < MaxWrites
             /\ deferred' = deferred + 1
             /\ UNCHANGED <<dirty, aborted>>
          \/ /\ dirty' = TRUE
             /\ UNCHANGED <<deferred, aborted>>
  /\ UNCHANGED <<loopVars, stepping, phase, waitVars, due, armed>>

-----------------------------------------------------------------------------
(* The host loop.                                                          *)

\* set_time -> advance_time with Delays due, at the beginning of a step: their
\* coroutines run before the step does what it was called for.
ResumeDue(first) ==
  /\ stepping' = first
  /\ phase' = "evaluation"
  /\ EndWait(queue, due)
  /\ due' = {}

\* A step in which no Delay is due.  set_time resets current_phase_; then
\* notify_read_only, notify_next_time_step, or the first half of
\* notify_read_write: the queued writes are swapped out and applied, and signals
\* driven by them have edges.
Dispatch(k) ==
  /\ IF k = "rw"
     THEN /\ stepping' = "flush"
          /\ phase' = "evaluation"
          /\ deferred' = 0
          /\ dirty' = (dirty \/ deferred # 0)
          /\ \E S \in SUBSET {c \in Coros : deferred # 0 /\ "edge" \in waits[c]} :
               EndWait(queue, S)
     ELSE /\ stepping' = k
          /\ phase' = k
          /\ ResumePhase(k)
          /\ UNCHANGED <<deferred, dirty>>
  /\ UNCHANGED due

\* phase_callback or dispatch_if_pending: the step of phase k, or the half of it
\* that resumes the Delays due.  Those are resumed early in a time step: none is
\* due any more when ReadWrite or ReadOnly is dispatched.
StepOf(k) ==
  /\ stepping = "none"
  /\ armed' = armed \ {k}
  /\ IF k = "nts" /\ due # {}
     THEN ResumeDue("dueNts") /\ UNCHANGED <<deferred, dirty>>
     ELSE Dispatch(k)
  /\ UNCHANGED <<now, asked, done, aborted>>

\* The drain of the first half of a step of phase k is over: its waiters resume.
SecondHalf(first, k) ==
  /\ ~aborted
  /\ stepping = first
  /\ Ready = {}
  /\ stepping' = k
  /\ phase' = k
  /\ ResumePhase(k)
  /\ UNCHANGED <<loopVars, asked, due, armed, deferred, dirty, done, aborted>>

ResumeReadWrite == SecondHalf("flush", "rw")
ResumeNextTimeStep == SecondHalf("dueNts", "nts")

\* schedule_phase_callbacks at the end of a step
EndStep ==
  /\ ~aborted
  /\ stepping \notin {"none"} \cup FirstHalves
  /\ Ready = {}
  /\ stepping' = "none"
  /\ armed' = IF Backend = "vpi" THEN armed \cup {k \in Kinds : HasWaiters(k)} ELSE {}
  /\ UNCHANGED <<loopVars, phase, waitVars, due, deferred, dirty, aborted>>

NextTimeStep ==
  /\ ~aborted /\ stepping = "none"
  /\ place = "next"
  /\ place' = "eval"
  /\ IF Pending("nts")
     THEN StepOf("nts")
     ELSE UNCHANGED <<now, stepping, phase, waitVars, due, armed, deferred, dirty,
                      aborted>>

\* notify_edge: a step resumes some of those who wait for edges.
NotifyEdge(S) ==
  /\ S \subseteq {c \in Coros : "edge" \in waits[c]}
  /\ stepping' = "edge"
  /\ phase' = "evaluation"
  /\ EndWait(queue, S)
  /\ UNCHANGED <<loopVars, asked, armed, deferred, dirty, done, aborted>>

\* eval() reaches an edge of the design, or the delay of the wrapper's timer is over.
Edge ==
  /\ ~aborted /\ stepping = "none"
  /\ place = "eval"
  /\ IF due # {}
     THEN /\ ResumeDue("dueEdge")
          /\ UNCHANGED <<loopVars, asked, armed, deferred, dirty, done, aborted>>
     ELSE /\ \E S \in SUBSET Coros : S # {} /\ NotifyEdge(S)
          /\ UNCHANGED due

\* The second half of a step of an edge, or, with nobody more, of a Delay
ResumeEdge ==
  /\ ~aborted
  /\ stepping = "dueEdge"
  /\ Ready = {}
  /\ \E S \in SUBSET Coros : NotifyEdge(S)
  /\ UNCHANGED due

\* eval() returns: the design has settled on every write applied so far, and the
\* wrapper's timer has resumed every Delay that was due in this time step.
Evaluated ==
  /\ ~aborted /\ stepping = "none"
  /\ place = "eval"
  /\ due = {}
  /\ dirty' = FALSE
  /\ place' = "rw"
  /\ UNCHANGED <<now, stepping, phase, waitVars, due, armed, deferred, aborted>>

\* Mutant: ReadWrite is dispatched once and the design not evaluated again.
AfterReadWriteOnce == "ro"

\* do ... while (read_write_called): the design is evaluated after every
\* ReadWrite step.
AfterReadWrite == "eval"

ReadWrite ==
  /\ ~aborted /\ stepping = "none"
  /\ place = "rw"
  /\ IF Pending("rw")
     THEN place' = AfterReadWrite /\ StepOf("rw")
     ELSE /\ place' = "ro"
          /\ UNCHANGED <<now, stepping, phase, waitVars, due, armed, deferred, dirty,
                         aborted>>

ReadOnly ==
  /\ ~aborted /\ stepping = "none"
  /\ place = "ro"
  /\ place' = "time"
  /\ IF Pending("ro")
     THEN StepOf("ro")
     ELSE UNCHANGED <<now, stepping, phase, waitVars, due, armed, deferred, dirty,
                      aborted>>

\* The next time slot: the deadlines that are reached in it are due.
AdvanceTime ==
  /\ ~aborted /\ stepping = "none"
  /\ place = "time"
  /\ now < MaxTime
  /\ now' = now + 1
  /\ place' = "next"
  /\ due' \in SUBSET {c \in Coros : "delay" \in waits[c]}
  /\ UNCHANGED <<stepping, phase, waitVars, armed, deferred, dirty, aborted>>

Next ==
  \/ \E c \in Coros :
       (\E S \in Waits : Await(c, S)) \/ Interrupt(c) \/ Return(c) \/ Set(c)
  \/ ResumeReadWrite \/ ResumeNextTimeStep \/ ResumeEdge \/ EndStep
  \/ NextTimeStep \/ Edge \/ Evaluated \/ ReadWrite \/ ReadOnly \/ AdvanceTime

Spec == Init /\ [][Next]_vars

-----------------------------------------------------------------------------
(* The invariant.                                                          *)

LiveIn(k) == {i \in DOMAIN queue[k] : queue[k][i].live}

WaitingFor(k) == {c \in Coros : k \in waits[c]}

\* A coroutine that waits for a phase has exactly one live registration in its
\* queue, nobody else has one, and the counter counts those who wait.
Registered ==
  \A k \in Kinds :
    /\ \A i \in LiveIn(k) : k \in waits[queue[k][i].coro]
    /\ \A c \in WaitingFor(k) : \E i \in LiveIn(k) : queue[k][i].coro = c
    /\ \A i, j \in LiveIn(k) : queue[k][i].coro = queue[k][j].coro => i = j
    /\ count[k] = Cardinality(WaitingFor(k))

\* Where the host loop is while a DPI step is under way.
StepsInPlace ==
  /\ stepping # "none" => place \in {"eval", "time"}
  /\ stepping = "ro" => place = "time" /\ phase = "ro"
  /\ place = "time" => stepping \in {"none", "ro"}
  /\ due # {} => stepping = "none" /\ place \in {"next", "eval"}

\* Between steps a VPI simulator holds a callback for every phase awaited.
CallbacksHeld ==
  (Backend = "vpi" /\ stepping = "none") => \A k \in Kinds : HasWaiters(k) => k \in armed

\* What the host loop has settled when it is at each place.
Settled ==
  /\ place \in {"rw", "ro", "time"} => ~dirty
  /\ place \in {"ro", "time"} => deferred = 0 /\ WaitingFor("rw") = {}
  /\ place = "time" => WaitingFor("ro") = {}

\* A NextTimeStep wait ends at the start of the time step after the one it was made
\* in: none is left over when an evaluation starts, and none ends in its own time
\* step, unless a Delay that was due in the NextTimeStep step itself resumed the
\* coroutine that made it: the queue is taken only afterwards.
NextStepReached ==
  \A c \in WaitingFor("nts") :
    \/ asked[c] = now /\ place # "next"
    \/ asked[c] + 1 = now /\ (place = "next" \/ stepping = "dueNts")

IInv == TypeOK /\ Registered /\ StepsInPlace /\ CallbacksHeld /\ Settled /\ NextStepReached

-----------------------------------------------------------------------------
(* Properties.                                                             *)

\* phase_waiter_counts_, from which the backends decide whether a phase is
\* dispatched at all, counts the live registrations of the queue, and a
\* coroutine that waits for a phase has exactly one there.
Counted ==
  \A k \in Kinds :
    /\ count[k] = Cardinality(LiveIn(k))
    /\ {queue[k][i].coro : i \in LiveIn(k)} = WaitingFor(k)

\* No registration of a phase is lost and none is miscounted.
BooksAgree == IInv /\ Counted

\* ReadOnly observes a settled design: no write is queued or waits to be
\* evaluated, and nobody is still to be resumed in ReadWrite.
SettledReadOnly ==
  (stepping = "ro" /\ ~aborted) => ~dirty /\ deferred = 0 /\ count["rw"] = 0

\* A ReadWrite or ReadOnly wait ends, and a queued write is applied, in the
\* time step in which it was made.
NothingLeft ==
  (place = "time" /\ stepping = "none" /\ ~aborted) =>
    /\ deferred = 0 /\ ~dirty
    /\ \A c \in Coros : waits[c] \cap {"rw", "ro"} = {}

\* ReadOnly observes a settled design, nothing of a time step is left over when it
\* ends, and NextTimeStep ends by the start of the next one.
PhasesInOrder == SettledReadOnly /\ NothingLeft /\ NextStepReached
=============================================================================
