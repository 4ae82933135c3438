------------------------------- MODULE TestRun -------------------------------
(***************************************************************************)
(* The life of one test run: TestRunState (test_api.hpp), the references   *)
(* TestContexts hold to it, the processes it owns, its result, and the     *)
(* parts of the scheduler that decide when an owned process stops and when *)
(* its frame goes (coro_runtime.hpp).                                      *)
(*                                                                         *)
(* Everything runs on one thread.  calls is the C++ call stack below the   *)
(* coroutines: a drain of the ready queue, the collection of finished      *)
(* roots after it, and the loops that cancel processes outside of a drain, *)
(* each cancellation draining in turn.  stack holds the coroutines that    *)
(* run inside the drain: an awaited process may be started inline.         *)
(***************************************************************************)
EXTENDS Naturals, Sequences, FiniteSets, SequencesExt, FiniteSetsExt

CONSTANTS
  Slots,       \* indices of process_controls_
  Caller,      \* whoever created the state, outside of the scheduler
  None,
  Registered,  \* the run was made by run_registered_test, not by a bare TestContext
  HasTimeout,  \* a simulation-time limit is set
  SimLogs,     \* a log sink may throw while the simulator evaluates
  MaxSpawns    \* bound on the processes spawned

\* What an instance gives the constants.
TestRunAssumption ==
  /\ IsFiniteSet(Slots) /\ Slots \subseteq Nat /\ MaxSpawns \in Nat
  /\ Caller \notin Slots /\ None \notin Slots
  /\ {Registered, HasTimeout, SimLogs} \subseteq BOOLEAN

VARIABLES
  sched,     \* the scheduler's view of the processes, see Scheduler
  pending,   \* pending_cancellations_
  stack,     \* the running coroutines, the innermost last
  calls,     \* the call stack below them
  pc,        \* where the drain is
  root,      \* the process that runs the registered test
  holders,   \* who holds a TestRunStatePtr; references_ is their number
  alive,     \* TestRunState has not been deleted
  cleanups,  \* number of deferred_owner_cleanups_
  result,    \* TestResult, a failure reduced to its kind
  expected,  \* expected_failure_
  reported,  \* history: the status of every test_finished
  spawned

vars == <<sched, pending, stack, calls, pc, root, holders, alive, cleanups,
          result, expected, reported, spawned>>
stateVars == <<holders, alive, cleanups>>
resultVars == <<result, expected, reported>>

-----------------------------------------------------------------------------
Phases == {"free", "ready", "running", "waiting", "awaiting", "done"}
Kinds == {"requirement", "expectation", "exception", "timeout", "unexpected_pass"}
Statuses == {"running", "passed", "failed", "error", "skipped", "expected_failure",
             "unexpected_pass", "timed_out"}
Scopes == {"drain", "boundary", "cleanup", "finish", "release", "cancel"}

\* waiters: has_completion_waiter and extra_completion_waiters, in order
Scheduler == [phase: [Slots -> Phases], ready: Seq(Slots), roots: Seq(Slots),
              waiters: [Slots -> Seq(Slots)], requested: SUBSET Slots, threw: SUBSET Slots]

TypeOK ==
  /\ sched \in Scheduler
  /\ pending \in Seq(Slots) /\ stack \in Seq(Slots)
  /\ calls \in Seq([scope: Scopes, victims: Seq(Slots)])
  /\ pc \in {"next", "run", "return", "reap", "apply", "collect"}
  /\ root \in Slots \cup {None}
  /\ holders \subseteq Slots \cup {Caller}
  /\ alive \in BOOLEAN /\ cleanups \in 0..1
  /\ result \in [status: Statuses, kinds: SUBSET Kinds, finished: BOOLEAN]
  /\ expected \in BOOLEAN
  /\ reported \in Seq(Statuses)
  /\ spawned \in 0..MaxSpawns
  /\ IsInjective(sched.ready) /\ IsInjective(sched.roots)
  /\ \A p \in Slots : /\ p \in ToSet(sched.ready) <=> sched.phase[p] = "ready"
                      /\ p \in ToSet(sched.roots) <=> sched.phase[p] = "done"
                      /\ p \in ToSet(stack) => sched.phase[p] # "free"

Init ==
  /\ sched = [phase |-> [p \in Slots |-> "free"], ready |-> <<>>, roots |-> <<>>,
              waiters |-> [p \in Slots |-> <<>>], requested |-> {}, threw |-> {}]
  /\ pending = <<>> /\ stack = <<>> /\ calls = <<>> /\ pc = "next"
  /\ root = None
  /\ holders = {Caller} /\ alive = TRUE /\ cleanups = 0
  /\ result = [status |-> "running", kinds |-> {}, finished |-> FALSE]
  /\ expected \in BOOLEAN
  /\ reported = <<>>
  /\ spawned = 0

Scope(s, v) == [scope |-> s, victims |-> v]
Drain == Scope("drain", <<>>)
TopCall == IF calls = <<>> THEN "none" ELSE Last(calls).scope
Within(s) == \E i \in DOMAIN calls : calls[i].scope = s
Draining == Within("drain")

\* process_controls_ still refers to it; the state is its owner
Owned(s) == {p \in Slots : s.phase[p] # "free"}
Live(s) == {p \in Slots : s.phase[p] \notin {"free", "done"}}

Without(q, p) == SelectSeq(q, LAMBDA x : x # p)
InSlotOrder(S) == SetToSortSeq(S, LAMBDA a, b : a < b)

-----------------------------------------------------------------------------
(* Completion and cancellation of a process.                               *)

\* complete_process: the completion waiters become ready.
Completed(s, p) ==
  [s EXCEPT !.phase = [x \in Slots |-> IF x = p THEN "done"
                                       ELSE IF x \in ToSet(s.waiters[p]) THEN "ready"
                                       ELSE @[x]],
            !.ready = @ \o s.waiters[p],
            !.waiters[p] = <<>>,
            !.roots = Append(@, p),
            !.requested = @ \ {p}]

\* cancel_state of a process that may have ended in the meantime
Cancelled(s, p) ==
  IF p \notin Live(s) THEN s
  ELSE Completed([s EXCEPT !.ready = Without(@, p),
                           !.waiters = [q \in Slots |-> Without(@[q], p)]], p)

\* spawn_owned, up to the drain
Spawned(s, p) == [s EXCEPT !.phase[p] = "ready", !.ready = Append(@, p)]

\* cancel_process for every process in S while the scheduler drains: those not
\* yet requested are noted in pending_cancellations_.
NewlyRequested(s, S) == InSlotOrder((S \cap Live(s)) \ s.requested)
Requested(s, S) == [s EXCEPT !.requested = @ \cup (S \cap Live(s))]

-----------------------------------------------------------------------------
(* The result.                                                             *)

\* record_failure
WithFailure(r, k) ==
  IF r.finished THEN r ELSE [r EXCEPT !.kinds = @ \cup {k}, !.status = "failed"]

\* Mutant: an expected failure swallows whatever ends the test.
FinishedAsLax(r, requested) ==
  IF expected /\ r.kinds # {}
  THEN [r EXCEPT !.status = "expected_failure", !.finished = TRUE]
  ELSE [r EXCEPT !.status = requested, !.finished = TRUE]

\* TestRunState::finish, up to the cancellation of the processes
FinishedAs(r, requested) ==
  LET judged == IF requested \in {"passed", "failed"} /\ expected
                THEN IF r.kinds # {} THEN [r EXCEPT !.status = "expected_failure"]
                     ELSE [WithFailure(r, "unexpected_pass") EXCEPT !.status = "unexpected_pass"]
                ELSE IF requested = "passed" /\ r.kinds # {}
                THEN [r EXCEPT !.status = IF @ = "error" THEN "error" ELSE "failed"]
                ELSE [r EXCEPT !.status = requested]
  IN [judged EXCEPT !.finished = TRUE]

\* What the ways a process can end do to the result: invoke_registered_test
\* for the root process, finish_owned_process for the others.
Outcome(r, p, how) ==
  IF r.finished THEN r
  ELSE CASE how = "returns" -> IF p = root THEN FinishedAs(r, "passed") ELSE r
         [] how = "requires" -> FinishedAs(WithFailure(r, "requirement"), "failed")
         [] how = "skips" -> FinishedAs(r, "skipped")
         [] how = "throws" -> FinishedAs(WithFailure(r, "exception"), "error")
         [] how = "times_out" -> FinishedAs(WithFailure(r, "timeout"), "timed_out")

-----------------------------------------------------------------------------
(* Steps outside of the scheduler.                                         *)

Idle == calls = <<>>

\* run_registered_test returns as soon as its drain is over.
Settled == Idle /\ (Registered => Caller \notin holders)

Entered(s) == sched' = s /\ calls' = Append(calls, Drain) /\ pc' = "next"

\* run_registered_test spawns the root process ...
RunRegistered(p) ==
  /\ Registered /\ Idle /\ root = None /\ ~result.finished
  /\ Entered(Spawned(sched, p))
  /\ root' = p /\ holders' = holders \cup {p}
  /\ spawned' = spawned + 1
  /\ UNCHANGED <<pending, stack, alive, cleanups, resultVars>>

\* ... or ends the test at once when its metadata says to skip it.
RunSkipped ==
  /\ Registered /\ Idle /\ root = None /\ ~result.finished
  /\ result' = FinishedAs(result, "skipped")
  /\ reported' = Append(reported, "skipped")
  /\ UNCHANGED <<sched, pending, stack, calls, pc, root, stateVars, expected, spawned>>

\* TestContext::spawn outside of a drain: the process runs first, and is then
\* cancelled when the test is over.
CallerSpawns(p, keeps) ==
  /\ ~Registered /\ Idle /\ Caller \in holders
  /\ sched.phase[p] = "free" /\ spawned < MaxSpawns
  /\ sched' = Spawned(sched, p)
  /\ calls' = IF result.finished THEN <<Scope("cancel", <<p>>), Drain>> ELSE <<Drain>>
  /\ pc' = "next"
  /\ holders' = IF keeps THEN holders \cup {p} ELSE holders
  /\ spawned' = spawned + 1
  /\ UNCHANGED <<pending, stack, root, alive, cleanups, resultVars>>

\* Mutant: the last reference deletes the state whatever still runs.
ReleasedEagerly(h, s, below) ==
  /\ holders' = holders \ {h}
  /\ alive' = (alive /\ holders # {h})
  /\ calls' = below
  /\ UNCHANGED <<cleanups, pending>> /\ sched' = s

\* TestRunState::release by h; below is the call stack to return to.
Released(h, s, below) ==
  LET last == holders = {h}
      defer == last /\ Owned(s) # {}
  IN /\ holders' = holders \ {h}
     /\ alive' = (alive /\ (last => defer))
     /\ cleanups' = IF defer THEN cleanups + 1 ELSE cleanups
     /\ IF defer /\ Draining
        THEN /\ pending' = pending \o NewlyRequested(s, Slots)
             /\ sched' = Requested(s, Slots) /\ calls' = below
        ELSE /\ calls' = IF defer THEN Append(below, Scope("release", InSlotOrder(Live(s))))
                         ELSE below
             /\ sched' = s /\ UNCHANGED pending

CallerDrops ==
  /\ Idle /\ Caller \in holders
  /\ Registered => root # None \/ result.finished
  /\ Released(Caller, sched, calls)
  /\ UNCHANGED <<stack, pc, root, resultVars, spawned>>

\* The simulator calls back: the waiting processes in q resume.
Wake(q) ==
  /\ Settled /\ q # <<>>
  /\ \A p \in ToSet(q) : sched.phase[p] = "waiting"
  /\ Entered([sched EXCEPT !.phase = [p \in Slots |-> IF p \in ToSet(q) THEN "ready" ELSE @[p]],
                           !.ready = q])
  /\ UNCHANGED <<pending, stack, root, stateVars, resultVars, spawned>>

\* record_sim_log while the simulator evaluates: the sink throws, and finish
\* cancels the processes one by one.
SimLogThrows ==
  /\ SimLogs /\ Settled /\ alive /\ ~result.finished
  /\ result' = FinishedAs(WithFailure(result, "exception"), "error")
  /\ calls' = <<Scope("finish", InSlotOrder(Live(sched)))>>
  /\ UNCHANGED <<sched, pending, stack, pc, root, stateVars, expected, reported, spawned>>

-----------------------------------------------------------------------------
(* What a running process does.                                            *)

Runs(p) == TopCall = "drain" /\ pc = "run" /\ Last(stack) = p

\* A TestContext it can use: its own, or one somebody else still holds
HasContext == holders # {}

Expects(p) ==
  /\ Runs(p) /\ HasContext
  /\ result' = WithFailure(result, "expectation")
  /\ UNCHANGED <<sched, pending, stack, calls, pc, root, stateVars, expected, reported, spawned>>

Suspends(p) ==
  /\ Runs(p)
  /\ sched' = [sched EXCEPT !.phase[p] = "waiting"] /\ pc' = "return"
  /\ UNCHANGED <<pending, stack, calls, root, stateVars, resultVars, spawned>>

\* co_await of a process: started inline when it is all there is to run
AwaitsInline(p, q) ==
  /\ Runs(p) /\ sched.ready = <<q>>
  /\ sched' = [sched EXCEPT !.phase[q] = "running", !.ready = <<>>]
  /\ stack' = Append(stack, q)
  /\ UNCHANGED <<pending, calls, pc, root, stateVars, resultVars, spawned>>

Parked(s, p, q) == [s EXCEPT !.phase[p] = "awaiting", !.waiters[q] = Append(@, p)]

Awaits(p, q) ==
  /\ Runs(p) /\ p # q /\ q \in Live(sched) /\ sched.ready # <<q>>
  /\ sched' = Parked(sched, p, q) /\ pc' = "return"
  /\ UNCHANGED <<pending, stack, calls, root, stateVars, resultVars, spawned>>

\* Process::cancel.  Nobody has a handle of the root process.
CancelsProcess(p, q) ==
  /\ Runs(p) /\ q # root /\ q \in Live(sched) \ sched.requested
  /\ sched' = Requested(sched, {q}) /\ pending' = Append(pending, q)
  /\ UNCHANGED <<stack, calls, pc, root, stateVars, resultVars, spawned>>

Spawns(p, q, keeps) ==
  /\ Runs(p) /\ HasContext /\ ~result.finished
  /\ sched.phase[q] = "free" /\ spawned < MaxSpawns
  /\ sched' = Spawned(sched, q)
  /\ holders' = IF keeps THEN holders \cup {q} ELSE holders
  /\ spawned' = spawned + 1
  /\ UNCHANGED <<pending, stack, calls, pc, root, alive, cleanups, resultVars>>

\* A spawn after the end of the test: handle_finished_spawn cancels the new
\* process and throws AbortTest through the one that spawned it.
SpawnsLate(p, q, keeps) ==
  /\ Runs(p) /\ HasContext /\ result.finished
  /\ sched.phase[q] = "free" /\ spawned < MaxSpawns
  /\ LET s == Requested(Spawned(sched, q), {q})
     IN sched' = [Completed(s, p) EXCEPT !.threw = @ \cup {p}]
  /\ pending' = Append(pending, q)
  /\ holders' = IF keeps THEN holders \cup {q} ELSE holders
  /\ spawned' = spawned + 1
  /\ pc' = "return"
  /\ UNCHANGED <<stack, calls, root, alive, cleanups, resultVars>>

Possible(p, how) ==
  /\ how = "requires" => HasContext
  /\ how = "times_out" => HasTimeout /\ p = root

\* The process ends, and may end the test with it.  The root calls finish
\* itself, before it counts as done; the others are done by then.  A root that
\* ended by an exception has caught it.
Ends(p, how) ==
  /\ Runs(p) /\ Possible(p, how)
  /\ result' = Outcome(result, p, how)
  /\ LET over == result'.finished /\ ~result.finished
         others == IF p = root THEN Slots ELSE Slots \ {p}
         s == IF over THEN Requested(sched, others) ELSE sched
     IN /\ pending' = IF over THEN pending \o NewlyRequested(sched, others) ELSE pending
        /\ reported' = IF over THEN Append(reported, result'.status) ELSE reported
        /\ sched' = [Completed(s, p) EXCEPT
                       !.threw = IF how # "returns" /\ p # root THEN @ \cup {p} ELSE @]
  /\ pc' = "return"
  /\ UNCHANGED <<stack, calls, root, stateVars, expected, spawned>>

-----------------------------------------------------------------------------
(* The scheduler.                                                          *)

\* drain_ready_queue takes the next coroutine, or drain_ready ends.
TakesNext ==
  /\ TopCall = "drain" /\ pc = "next"
  /\ IF sched.ready # <<>>
     THEN /\ sched' = [sched EXCEPT !.phase[Head(sched.ready)] = "running", !.ready = Tail(@)]
          /\ stack' = <<Head(sched.ready)>> /\ pc' = "run"
          /\ UNCHANGED calls
     ELSE /\ calls' = Append(Front(calls), Scope("boundary", <<>>))
          /\ UNCHANGED <<sched, stack, pc>>
  /\ UNCHANGED <<pending, root, stateVars, resultVars, spawned>>

\* The innermost coroutine gives back control.  An awaited process that was
\* started inline and is not done leaves its parent waiting for it.
Returns ==
  /\ TopCall = "drain" /\ pc = "return"
  /\ LET p == Last(stack)
         below == Front(stack)
     IN /\ stack' = below
        /\ IF below = <<>>
           THEN pc' = "apply" /\ UNCHANGED sched
           ELSE IF sched.phase[p] = "done"
           THEN pc' = "reap" /\ UNCHANGED sched
           ELSE sched' = Parked(sched, Last(below), p) /\ UNCHANGED pc
  /\ UNCHANGED <<pending, calls, root, stateVars, resultVars, spawned>>

\* Mutant: the parent goes on although the test may be over.
ResumesParentAtOnce ==
  /\ TopCall = "drain" /\ pc = "reap" /\ (sched.roots = <<>> \/ Within("boundary"))
  /\ pc' = "run"
  /\ sched' = [sched EXCEPT !.threw = {}]
  /\ UNCHANGED <<pending, stack, calls, root, stateVars, resultVars, spawned>>

\* run_process_if_only_ready: the parent of an inline process that is done goes
\* on, unless there is an exception, a cancellation or another coroutine to see
\* to first.
ResumesParent ==
  /\ TopCall = "drain" /\ pc = "reap" /\ (sched.roots = <<>> \/ Within("boundary"))
  /\ LET p == Last(stack)
         s == [sched EXCEPT !.threw = {}]
     IN IF sched.threw # {} \/ pending # <<>> \/ sched.ready # <<>>
        THEN /\ sched' = [s EXCEPT !.phase[p] = "ready", !.ready = Append(@, p)]
             /\ pc' = "return"
        ELSE sched' = s /\ pc' = "run"
  /\ UNCHANGED <<pending, stack, calls, root, stateVars, resultVars, spawned>>

\* apply_pending_cancellations
Applies ==
  /\ TopCall = "drain" /\ pc = "apply"
  /\ sched' = [FoldLeft(Cancelled, sched, pending) EXCEPT !.threw = {}]
  /\ pending' = <<>> /\ pc' = "collect"
  /\ UNCHANGED <<stack, calls, root, stateVars, resultVars, spawned>>

\* collect_finished_roots is over, or another one is under way.
Collects ==
  /\ TopCall = "drain" /\ pc = "collect" /\ (sched.roots = <<>> \/ Within("boundary"))
  /\ pc' = "next"
  /\ UNCHANGED <<sched, pending, stack, calls, root, stateVars, resultVars, spawned>>

Reclaiming ==
  /\ sched.roots # <<>>
  /\ \/ TopCall = "drain" /\ pc \in {"reap", "collect"} /\ ~Within("boundary")
     \/ TopCall = "boundary" /\ Cardinality({i \in DOMAIN calls : calls[i].scope = "boundary"}) = 1

\* reclaim_finished_state: the control leaves process_controls_, so that no
\* loop finds it any more, and the frame is destroyed with the references in it.
Reclaims ==
  /\ Reclaiming
  /\ LET p == Head(sched.roots)
         s == [sched EXCEPT !.phase[p] = "free", !.roots = Tail(@)]
         below == Append([i \in DOMAIN calls |-> [calls[i] EXCEPT !.victims = Without(@, p)]],
                         Scope("cleanup", <<>>))
     IN IF p \in holders
        THEN Released(p, s, below)
        ELSE sched' = s /\ calls' = below /\ UNCHANGED <<pending, stateVars>>
  /\ UNCHANGED <<stack, pc, root, resultVars, spawned>>

\* Mutant: the entry is dropped although a process is left.
CleansUpOnce ==
  /\ TopCall = "cleanup"
  /\ calls' = Front(calls)
  /\ cleanups' = 0 /\ alive' = (alive /\ (cleanups = 0 \/ Owned(sched) # {}))
  /\ UNCHANGED <<sched, pending, stack, pc, root, holders, resultVars, spawned>>

\* run_owner_cleanups, after a frame has gone
CleansUp ==
  /\ TopCall = "cleanup"
  /\ calls' = Front(calls)
  /\ IF cleanups > 0 /\ Owned(sched) = {} THEN cleanups' = 0 /\ alive' = FALSE
     ELSE UNCHANGED <<cleanups, alive>>
  /\ UNCHANGED <<sched, pending, stack, pc, root, holders, resultVars, spawned>>

\* scheduler_boundary has collected what it may.
Leaves ==
  /\ TopCall = "boundary" /\ ~Reclaiming
  /\ calls' = Front(calls)
  /\ UNCHANGED <<sched, pending, stack, pc, root, stateVars, resultVars, spawned>>

\* cancel_process outside of a drain, for the next of the processes
CancelsNext ==
  /\ TopCall \in {"finish", "release", "cancel"} /\ Last(calls).victims # <<>>
  /\ LET v == Head(Last(calls).victims)
         rest == Append(Front(calls), [Last(calls) EXCEPT !.victims = Tail(@)])
     IN IF v \in Live(sched)
        THEN sched' = Cancelled(sched, v) /\ calls' = Append(rest, Drain) /\ pc' = "next"
        ELSE calls' = rest /\ UNCHANGED <<sched, pc>>
  /\ UNCHANGED <<pending, stack, root, stateVars, resultVars, spawned>>

\* The loop is over; finish goes on to report.  What it reads of a state that
\* is gone may be anything.
LoopEnds ==
  /\ TopCall \in {"finish", "release", "cancel"} /\ Last(calls).victims = <<>>
  /\ calls' = Front(calls)
  /\ IF TopCall = "finish"
     THEN \/ reported' = Append(reported, result.status)
          \/ ~alive /\ UNCHANGED reported
     ELSE UNCHANGED reported
  /\ UNCHANGED <<sched, pending, stack, pc, root, stateVars, result, expected, spawned>>

-----------------------------------------------------------------------------
Hows == {"returns", "requires", "skips", "throws", "times_out"}

Body(p) ==
  \/ Expects(p) \/ Suspends(p)
  \/ \E q \in Slots : AwaitsInline(p, q) \/ Awaits(p, q) \/ CancelsProcess(p, q)
  \/ \E q \in Slots, keeps \in BOOLEAN : Spawns(p, q, keeps) \/ SpawnsLate(p, q, keeps)
  \/ \E how \in Hows : Ends(p, how)

Outside ==
  \/ \E p \in Slots : RunRegistered(p)
  \/ RunSkipped
  \/ \E p \in Slots, keeps \in BOOLEAN : CallerSpawns(p, keeps)
  \/ CallerDrops
  \/ \E S \in SUBSET Slots : \E q \in SetToSeqs(S) : Wake(q)
  \/ SimLogThrows

SchedulerStep ==
  \/ TakesNext \/ Returns \/ ResumesParent \/ Applies \/ Collects
  \/ Reclaims \/ CleansUp \/ Leaves \/ CancelsNext \/ LoopEnds

Next == Outside \/ (\E p \in Slots : Body(p)) \/ SchedulerStep

Spec == Init /\ [][Next]_vars

-----------------------------------------------------------------------------
(* Properties.                                                             *)

\* As long as process_controls_ holds a process of the test, and as long as
\* somebody holds a reference, the state is there: the processes keep no
\* reference, so only defer_owner_cleanup stands between release and a
\* provenance that points to a deleted owner.
OwnerOutlives == Owned(sched) # {} \/ holders # {} => alive

\* Nothing is left behind: when the scheduler rests and nobody holds a
\* reference, the deferred deletion has taken place.
NothingLeft == Idle /\ holders = {} => ~alive /\ cleanups = 0 /\ Owned(sched) = {}

\* Once a test is over its processes are gone when the scheduler comes to rest:
\* those cancelled by finish, those spawned meanwhile, and those resumed because
\* the process they awaited was cancelled.
FinishedQuiet == result.finished /\ Idle => Owned(sched) = {}

\* After finish no process of the test executes another step: the requests
\* recorded during the drain are applied before any other coroutine is resumed,
\* the parent of an inline process included.
StoppedAtOnce == result.finished => ~\E p \in Slots : Runs(p)

\* A pending cancellation reaches the process it was asked for: the entries are
\* bare pointers, and the slot of one that ended meanwhile may have been reused.
NoStrayCancel == \A p \in ToSet(pending) : p \in Live(sched) => p \in sched.requested

\* The status agrees with what was recorded: no failure passes, an expected
\* failure is one of a check (never an exception or a timeout), and an error or
\* a timeout has its record.
VerdictSound ==
  result.finished =>
    CASE result.status = "passed" -> result.kinds = {}
      [] result.status = "failed" -> ~expected /\ result.kinds # {}
      [] result.status = "expected_failure" ->
           expected /\ result.kinds # {} /\ result.kinds \subseteq {"expectation", "requirement"}
      [] result.status = "unexpected_pass" -> expected /\ result.kinds = {"unexpected_pass"}
      [] result.status = "error" -> "exception" \in result.kinds
      [] result.status = "timed_out" -> "timeout" \in result.kinds
      [] OTHER -> TRUE

\* test_finished is called once, with the status the result keeps.  (A state
\* that was deleted under finish reports or not, see AliveWhileFinishing.)
ReportedOnce ==
  /\ Len(reported) <= 1
  /\ result.finished /\ alive /\ ~Within("finish") => reported = <<result.status>>

\* A finished result does not change any more, whichever process still runs.
Final == [][result.finished => result' = result]_vars

\* A registered test that is over gives back its state.
Freed == Registered /\ result.finished ~> ~alive

\* finish does not outlive the state it works on.  Stated by the unit test of a
\* throwing sink, "SV sink failure terminates the test cleanly"; see the README.
AliveWhileFinishing == Within("finish") => alive
=============================================================================
