-------------------------------- MODULE Tasks --------------------------------
(***************************************************************************)
(* Structured concurrency on cpptb::coro::Scheduler: processes (spawn,     *)
(* co_await, cancel), awaited tasks (co_await of a Task), Join and         *)
(* with_timeout.  Everything runs on one thread.  A coroutine runs in an   *)
(* activation that drain_ready_queue started, that an await of a process   *)
(* started inline (run_process_if_only_ready), or that with_timeout        *)
(* started (start_timeout); activations nest, and stack holds the          *)
(* coroutine each one is running.  A co_await of a Task transfers the      *)
(* activation to the child and back.                                       *)
(*                                                                         *)
(* Slots of states_ are reused.  A registration of a wait that is over is  *)
(* left out where the code keeps it and finds it invalid; a frame that is  *)
(* finished or cancelled stays in its slot until the scheduler reclaims it.*)
(***************************************************************************)
EXTENDS Naturals, Sequences, FiniteSets, WaitList

CONSTANTS
  Slots,      \* indices of states_
  Processes,  \* ProcessControls, one for each spawn
  Joins,      \* JoinStates
  None,
  MaxInline   \* kMaxInlineProcessDepth

ASSUME TasksAssumption ==
  IsFiniteSet(Slots) /\ None \notin Slots /\ MaxInline \in Nat

VARIABLES
  status,    \* of the coroutine in each slot
  link,      \* what its promise and process_by_state_ say it belongs to
  awaits,    \* the await expression it is suspended in
  control,   \* the ProcessControls
  join,      \* the JoinStates; an exception is known by the ordinal of the child
             \* that threw it, in the order in which the children finish
  thrown,    \* history: for each JoinState, which of the children finished so
             \* far threw
  ready,     \* ready_ from ready_cursor_ on
  pending,   \* pending_cancellations_
  roots,     \* finished_root_states_
  finished,  \* finished_states_
  stack,     \* the activations, the innermost one last
  pc         \* where the scheduler is

frameVars == <<status, link, awaits>>
vars == <<frameVars, control, join, thrown, ready, pending, roots, finished, stack, pc>>

-----------------------------------------------------------------------------
\* "called": suspended in the co_await of a Task, neither waiting nor ready.
\* "done": finished or cancelled, its frame not yet reclaimed.
Statuses == {"free", "ready", "running", "called", "waiting", "done"}

Nothing == [kind |-> "none", id |-> None]
Ref(k, x) == [kind |-> k, id |-> x]

Links == {Nothing} \cup {Ref("process", p) : p \in Processes}
         \cup {Ref("task", s) : s \in Slots} \cup {Ref("join", j) : j \in Joins}

Awaits == {Nothing, Ref("trigger", None)} \cup {Ref("process", p) : p \in Processes}
          \cup {Ref(k, j) : k \in {"join", "starting", "timeout"}, j \in Joins}

Activations == [slot: Slots, by: {"drain", "inline", "timeout"}, id: {None} \cup Processes]

NoControl == [spawned |-> FALSE, done |-> FALSE, cancelled |-> FALSE,
              requested |-> FALSE, threw |-> FALSE, waiters |-> EmptyList]

\* The ProcessControls with the waiters in W
ControlsOf(W) == [spawned: BOOLEAN, done: BOOLEAN, cancelled: BOOLEAN,
                  requested: BOOLEAN, threw: BOOLEAN, waiters: [W -> SUBSET Slots]]

NoJoin == [remaining |-> 0, parent |-> None, threw |-> 0]

TypeOK ==
  /\ status \in [Slots -> Statuses]
  /\ link \in [Slots -> Links]
  /\ awaits \in [Slots -> Awaits]
  /\ control = [p \in Processes |-> control[p]]
  /\ \A p \in Processes : \E W \in SUBSET Slots : control[p] \in ControlsOf(W)
  /\ join \in [Joins -> [remaining: 0..2, parent: {None} \cup Slots, threw: 0..2]]
  /\ thrown \in [Joins -> Seq(BOOLEAN)]
  /\ ready \in Seq(Slots)
  /\ pending \in Seq(Processes)
  /\ roots \subseteq Slots /\ finished \subseteq Slots
  /\ stack \in Seq(Activations)
  /\ pc \in {"idle", "fire", "drain", "run", "return", "apply"}

Init ==
  /\ status = [s \in Slots |-> "free"]
  /\ link = [s \in Slots |-> Nothing]
  /\ awaits = [s \in Slots |-> Nothing]
  /\ control = [p \in Processes |-> NoControl]
  /\ join = [j \in Joins |-> NoJoin]
  /\ thrown = [j \in Joins |-> <<>>]
  /\ ready = <<>> /\ pending = <<>>
  /\ roots = {} /\ finished = {}
  /\ stack = <<>>
  /\ pc = "idle"

Live(s) == status[s] \notin {"free", "done"}
Top == stack[Len(stack)]
Running(s) == pc = "run" /\ Top.slot = s
Free(s) == status[s] = "free"

\* live_ready_count_
LiveReady == Cardinality({s \in Slots : status[s] = "ready"})

\* The JoinStates some frame still refers to
JoinsInUse == {link[s].id : s \in {t \in Slots : link[t].kind = "join"}}
              \cup {awaits[s].id : s \in Slots}
FreshJoin == CHOOSE j \in Joins : j \notin JoinsInUse

\* make_ready of the coroutines in S
Readied(st, S) == [s \in Slots |-> IF s \in S THEN "ready" ELSE st[s]]

Suspended == pc' = "return" /\ UNCHANGED stack

-----------------------------------------------------------------------------
(* Completion of a process and cancellation.                               *)

\* complete_process: every registered waiter that still waits is resumed.
Complete(ctl, p, cancelled, x) ==
  [ctl EXCEPT ![p] = [@ EXCEPT !.done = TRUE, !.cancelled = cancelled,
                               !.requested = FALSE, !.threw = x,
                       !.waiters = EmptyList]]

WaitersOf(ctl, s) ==
  IF link[s].kind = "process" THEN ctl[link[s].id].waiters ELSE EmptyList

\* Those who wait in w, in the order in which they are resumed
Woken(w) == InOrder(w, Waiters(w))

Completed(ctl, s, cancelled, x) ==
  IF link[s].kind = "process" THEN Complete(ctl, link[s].id, cancelled, x) ELSE ctl

\* The coroutines whose promise names s as continuation or as the join's parent;
\* s is never one of them (Rooted).
ChildrenOf(s) ==
  {t \in Slots : Live(t) /\ \/ link[t] = Ref("task", s)
                            \/ link[t].kind = "join" /\ join[link[t].id].parent = s}

\* Mutant: the children of children are left alone.
CancelSetShallow(s) == {s} \cup ChildrenOf(s)

\* cancel_state visits the live descendants of s, then s.
ClosedBelow(D) == \A t \in D : ChildrenOf(t) \subseteq D
CancelSet(s) ==
  LET Closed == {D \in SUBSET Slots : s \in D /\ ClosedBelow(D)}
  IN {t \in Slots : \A D \in Closed : t \in D}

\* Waits that end leave nothing behind that could be resumed.
Withdrawn(D) ==
  [p \in Processes |-> [control[p] EXCEPT !.waiters = EraseAll(@, D)]]

\* cancel_state of s.  At that point the statuses are st, ready_ is q, and the
\* frames in F have been reclaimed.
CancelState(s, st, F, q) ==
  LET D == CancelSet(s)
      ctl == Withdrawn(D)
      W == WaitersOf(ctl, s)
  IN /\ status' = Readied([t \in Slots |-> IF t \in D THEN "done" ELSE st[t]],
                         Waiters(W))
     /\ link' = [t \in Slots |-> IF t \in F \/ (t \in D /\ link[t].kind # "process")
                                 THEN Nothing ELSE link[t]]
     /\ awaits' = [t \in Slots |-> IF t \in D \cup F THEN Nothing ELSE awaits[t]]
     /\ control' = Completed(ctl, s, TRUE, FALSE)
     /\ ready' = q \o Woken(W)
     /\ roots' = roots \cup {t \in D : link[t].kind = "process"}
     /\ finished' = finished \cup {t \in D : link[t].kind # "process"}

\* The slot of a process
SlotOf(p) == CHOOSE s \in Slots : link[s] = Ref("process", p) /\ ~Free(s)

\* Process::cancel while a coroutine runs: the request is applied when the
\* running coroutine suspends.
Cancel(p) ==
  /\ pc = "run"
  /\ control[p].spawned /\ ~control[p].done /\ ~control[p].requested
  /\ control' = [control EXCEPT ![p].requested = TRUE]
  /\ pending' = Append(pending, p)
  /\ UNCHANGED <<frameVars, join, thrown, ready, roots, finished, stack, pc>>

\* Process::cancel between two drains
CancelOutside(p) ==
  /\ pc = "idle"
  /\ control[p].spawned /\ ~control[p].done
  /\ CancelState(SlotOf(p), status, {}, ready)
  /\ pc' = "drain"
  /\ UNCHANGED <<join, thrown, pending, stack>>

\* apply_pending_cancellations, one at a time
ApplyPending ==
  /\ pc = "apply" /\ pending # <<>>
  /\ pending' = Tail(pending)
  /\ IF control[Head(pending)].done
     THEN UNCHANGED <<frameVars, control, ready, roots, finished>>
     ELSE CancelState(SlotOf(Head(pending)), status, {}, ready)
  /\ UNCHANGED <<join, thrown, stack, pc>>

\* What is left of the frame variables when the slots in S are reclaimed
Reclaim(st, aw, S) ==
  /\ status' = [s \in Slots |-> IF s \in S THEN "free" ELSE st[s]]
  /\ link' = [s \in Slots |-> IF s \in S THEN Nothing ELSE link[s]]
  /\ awaits' = [s \in Slots |-> IF s \in S THEN Nothing ELSE aw[s]]

\* The end of drain_ready_queue's round: collect_finished_roots
CollectRoots ==
  /\ pc = "apply" /\ pending = <<>>
  /\ Reclaim(status, awaits, {s \in roots : status[s] = "done"})
  /\ roots' = {}
  /\ pc' = "drain"
  /\ UNCHANGED <<control, join, thrown, ready, pending, finished, stack>>

-----------------------------------------------------------------------------
(* Activations.                                                            *)

\* The coroutine that runs when the one in s is resumed: a with_timeout
\* coroutine only returns to the one that awaits it.
Continues(s) == IF awaits[s].kind = "timeout" THEN link[s].id ELSE s

\* handle.resume() and the await_resume of the coroutine in s.  A Process, a
\* trigger and a Join only report; with_timeout reclaims the child that has
\* finished, or cancels it (cancel_awaited), and returns.
Activate(s, q) ==
  LET child == CHOOSE c \in Slots : link[c] = Ref("join", awaits[s].id)
      st == [status EXCEPT ![s] = "free", ![Continues(s)] = "running"]
  IN /\ \/ /\ awaits[s].kind # "timeout"
           /\ status' = st
           /\ awaits' = [awaits EXCEPT ![s] = Nothing]
           /\ ready' = q
           /\ UNCHANGED <<link, control, roots, finished>>
        \/ /\ awaits[s].kind = "timeout" /\ status[child] = "done"
           /\ Reclaim(st, awaits, {s, child})
           /\ finished' = finished \ {child}
           /\ ready' = q
           /\ UNCHANGED <<control, roots>>
        \/ /\ awaits[s].kind = "timeout" /\ status[child] # "done"
           /\ CancelState(child, st, {s}, q)
     /\ pc' = "run"
     /\ UNCHANGED <<join, thrown, pending>>

\* drain_ready_queue: the next entry, skipped when it is stale
Pop ==
  /\ pc = "drain" /\ ready # <<>>
  /\ IF status[Head(ready)] = "ready"
     THEN /\ Activate(Head(ready), Tail(ready))
          /\ stack' = <<[slot |-> Continues(Head(ready)), by |-> "drain", id |-> None]>>
     ELSE /\ ready' = Tail(ready)
          /\ UNCHANGED <<frameVars, control, join, thrown, pending, roots, finished, stack, pc>>

\* drain_ready ends: scheduler_boundary
DrainEnd ==
  /\ pc = "drain" /\ ready = <<>>
  /\ Reclaim(status, awaits, {s \in roots \cup finished : status[s] = "done"})
  /\ roots' = {} /\ finished' = {}
  /\ pc' = "idle"
  /\ UNCHANGED <<control, join, thrown, ready, pending, stack>>

Inlines == Cardinality({i \in DOMAIN stack : stack[i].by = "inline"})

\* The conditions of run_process_if_only_ready
OnlyReady(p) ==
  /\ Inlines < MaxInline
  /\ status[SlotOf(p)] = "ready"
  /\ LiveReady = 1

\* co_await of a process that has not completed: it is run inside the await.
AwaitInline(s, p) ==
  /\ Running(s)
  /\ control[p].spawned /\ ~control[p].done /\ OnlyReady(p)
  /\ Activate(SlotOf(p), <<>>)
  /\ stack' = Append(stack, [slot |-> Continues(SlotOf(p)), by |-> "inline", id |-> p])

\* park_process, when nothing was run inline
AwaitProcess(s, p) ==
  /\ Running(s)
  /\ control[p].spawned /\ ~control[p].done /\ ~OnlyReady(p)
  /\ status' = [status EXCEPT ![s] = "waiting"]
  /\ awaits' = [awaits EXCEPT ![s] = Ref("process", p)]
  /\ control' = [control EXCEPT ![p].waiters = PushBack(@, s)]
  /\ Suspended
  /\ UNCHANGED <<link, join, thrown, ready, pending, roots, finished>>

\* The activation of the drain loop is over.
ReturnDrain ==
  /\ pc = "return" /\ Top.by = "drain"
  /\ stack' = <<>>
  /\ pc' = "apply"
  /\ UNCHANGED <<frameVars, control, join, thrown, ready, pending, roots, finished>>

\* run_process_if_only_ready returns to the await of process p: the finished
\* processes are reclaimed, then the awaiting coroutine goes on at once, or
\* behind what is ready, or is parked.
ReturnInline ==
  LET p == Top.id
      s == stack[Len(stack) - 1].slot
      defer == control[p].threw \/ pending # <<>> \/ LiveReady # 0
      parked == ~control[p].done
      deferred == control[p].done /\ defer
  IN /\ pc = "return" /\ Top.by = "inline"
     /\ Reclaim([status EXCEPT ![s] = IF parked THEN "waiting" ELSE IF deferred THEN "ready" ELSE @],
                [awaits EXCEPT ![s] = IF parked THEN Ref("process", p) ELSE @],
                {t \in roots : status[t] = "done"})
     /\ roots' = {}
     /\ stack' = SubSeq(stack, 1, Len(stack) - 1)
     /\ pc' = IF parked \/ deferred THEN "return" ELSE "run"
     /\ ready' = IF deferred THEN Append(ready, s) ELSE ready
     /\ control' = IF parked THEN [control EXCEPT ![p].waiters = PushBack(@, s)] ELSE control
     /\ UNCHANGED <<join, thrown, pending, finished>>

-----------------------------------------------------------------------------
(* What a running coroutine does.                                          *)

\* Scheduler::spawn
Spawn(t, p) ==
  /\ pc \in {"run", "idle"}
  /\ Free(t) /\ ~control[p].spawned
  /\ status' = [status EXCEPT ![t] = "ready"]
  /\ link' = [link EXCEPT ![t] = Ref("process", p)]
  /\ control' = [control EXCEPT ![p].spawned = TRUE]
  /\ ready' = Append(ready, t)
  /\ pc' = IF pc = "idle" THEN "drain" ELSE pc
  /\ UNCHANGED <<awaits, join, thrown, pending, roots, finished, stack>>

\* co_await of an edge, a delay, a phase or an Event
AwaitTrigger(s) ==
  /\ Running(s)
  /\ status' = [status EXCEPT ![s] = "waiting"]
  /\ awaits' = [awaits EXCEPT ![s] = Ref("trigger", None)]
  /\ Suspended
  /\ UNCHANGED <<link, control, join, thrown, ready, pending, roots, finished>>

\* Task::Awaiter: the activation goes on in the child.
AwaitTask(s, t) ==
  /\ Running(s) /\ Free(t)
  /\ status' = [status EXCEPT ![s] = "called", ![t] = "running"]
  /\ link' = [link EXCEPT ![t] = Ref("task", s)]
  /\ stack' = [stack EXCEPT ![Len(stack)].slot = t]
  /\ UNCHANGED <<awaits, control, join, thrown, ready, pending, roots, finished, pc>>

\* start_join: the children are queued, none of them runs yet.
AwaitJoin(s, t, u) ==
  LET j == FreshJoin
  IN /\ Running(s) /\ t # u /\ Free(t) /\ Free(u)
     /\ Joins \ JoinsInUse # {}
     /\ status' = [status EXCEPT ![s] = "waiting", ![t] = "ready", ![u] = "ready"]
     /\ link' = [link EXCEPT ![t] = Ref("join", j), ![u] = Ref("join", j)]
     /\ awaits' = [awaits EXCEPT ![s] = Ref("join", j)]
     /\ join' = [join EXCEPT ![j] = [remaining |-> 2, parent |-> s, threw |-> 0]]
     /\ thrown' = [thrown EXCEPT ![j] = <<>>]
     /\ ready' = ready \o <<t, u>>
     /\ Suspended
     /\ UNCHANGED <<control, pending, roots, finished>>

\* co_await of with_timeout, a Task in w, up to the child.resume() of
\* start_timeout: the child in t runs inside the await.
AwaitTimeout(s, w, t) ==
  LET j == FreshJoin
  IN /\ Running(s) /\ w # t /\ Free(w) /\ Free(t)
     /\ Joins \ JoinsInUse # {}
     /\ status' = [status EXCEPT ![s] = "called", ![w] = "waiting", ![t] = "running"]
     /\ link' = [link EXCEPT ![w] = Ref("task", s), ![t] = Ref("join", j)]
     /\ awaits' = [awaits EXCEPT ![w] = Ref("starting", j)]
     /\ join' = [join EXCEPT ![j] = [remaining |-> 1, parent |-> w, threw |-> 0]]
     /\ thrown' = [thrown EXCEPT ![j] = <<>>]
     /\ stack' = Append([stack EXCEPT ![Len(stack)].slot = w],
                        [slot |-> t, by |-> "timeout", id |-> None])
     /\ UNCHANGED <<control, ready, pending, roots, finished, pc>>

\* The rest of start_timeout: the deadline counts only if the wait is not over,
\* that is while the parent is still waiting.
ReturnTimeout ==
  LET s == stack[Len(stack) - 1].slot
  IN /\ pc = "return" /\ Top.by = "timeout"
     /\ awaits' = [awaits EXCEPT ![s] = Ref("timeout", @.id)]
     /\ stack' = SubSeq(stack, 1, Len(stack) - 1)
     /\ UNCHANGED <<status, link, control, join, thrown, ready, pending, roots, finished, pc>>

\* Mutant: the last exception is kept.
JoinAfterLast(j, x) ==
  [join[j] EXCEPT !.remaining = @ - 1, !.threw = IF x THEN Len(thrown[j]) + 1 ELSE @]

\* finish_join_child
JoinAfter(j, x) ==
  [join[j] EXCEPT !.remaining = @ - 1,
                  !.threw = IF x /\ @ = 0 THEN Len(thrown[j]) + 1 ELSE @]

\* Scheduler::finish and FinalAwaiter; x says whether the body threw.
FinishProcess(s, x) ==
  LET W == WaitersOf(control, s)
  IN /\ Running(s) /\ link[s].kind \in {"process", "none"}
     /\ status' = Readied([status EXCEPT ![s] = "done"], Waiters(W))
     /\ control' = Completed(control, s, FALSE, x)
     /\ ready' = ready \o Woken(W)
     /\ roots' = roots \cup {s}
     /\ Suspended
     /\ UNCHANGED <<link, awaits, join, thrown, pending, finished>>

\* The awaiting coroutine goes on at once and reclaims the child.
FinishTask(s) ==
  /\ Running(s) /\ link[s].kind = "task"
  /\ LET parent == link[s].id
     IN /\ status' = [status EXCEPT ![s] = "free", ![parent] = "running"]
        /\ stack' = [stack EXCEPT ![Len(stack)].slot = parent]
  /\ link' = [link EXCEPT ![s] = Nothing]
  /\ UNCHANGED <<awaits, control, join, thrown, ready, pending, roots, finished, pc>>

FinishJoined(s, x) ==
  /\ Running(s) /\ link[s].kind = "join"
  /\ LET j == link[s].id
         parent == join[j].parent
         wakes == JoinAfter(j, x).remaining = 0 /\ status[parent] = "waiting"
     IN /\ join' = [join EXCEPT ![j] = JoinAfter(j, x)]
        /\ status' = Readied([status EXCEPT ![s] = "done"], IF wakes THEN {parent} ELSE {})
        /\ ready' = IF wakes THEN Append(ready, parent) ELSE ready
  /\ thrown' = [thrown EXCEPT ![link[s].id] = Append(@, x)]
  /\ finished' = finished \cup {s}
  /\ Suspended
  /\ UNCHANGED <<link, awaits, control, pending, roots>>

Finish(s) ==
  (\E x \in BOOLEAN : FinishProcess(s, x) \/ FinishJoined(s, x)) \/ FinishTask(s)

\* A trigger or a deadline: several coroutines may be resumed before the drain
\* starts.  A running coroutine triggers others by setting an Event.
Fire(s) ==
  /\ status[s] = "waiting"
  /\ \/ pc \in {"idle", "fire"} /\ awaits[s].kind \in {"trigger", "timeout"} /\ pc' = "fire"
     \/ pc = "run" /\ awaits[s].kind = "trigger" /\ UNCHANGED pc
  /\ status' = [status EXCEPT ![s] = "ready"]
  /\ ready' = Append(ready, s)
  /\ UNCHANGED <<link, awaits, control, join, thrown, pending, roots, finished, stack>>

StartDrain ==
  /\ pc = "fire"
  /\ pc' = "drain"
  /\ UNCHANGED <<frameVars, control, join, thrown, ready, pending, roots, finished, stack>>

-----------------------------------------------------------------------------
Scheduler ==
  ApplyPending \/ CollectRoots \/ Pop \/ DrainEnd \/ ReturnDrain \/ ReturnInline
    \/ ReturnTimeout \/ StartDrain

Next ==
  \/ Scheduler
  \/ \E p \in Processes : Cancel(p) \/ CancelOutside(p)
  \/ \E s \in Slots :
       \/ AwaitTrigger(s) \/ Finish(s) \/ Fire(s)
       \/ \E p \in Processes : AwaitInline(s, p) \/ AwaitProcess(s, p) \/ Spawn(s, p)
       \/ \E t \in Slots : AwaitTask(s, t)
       \/ \E t, u \in Slots : AwaitTimeout(s, t, u) \/ AwaitJoin(s, t, u)

Spec == Init /\ [][Next]_vars

-----------------------------------------------------------------------------
(* Properties.                                                             *)

\* Every live child has a live parent that is still in the await that started
\* it: no coroutine outlives a parent that was cancelled, finished or timed
\* out, and no child reports to a stranger that reuses its parent's slot.
NoOrphans ==
  \A t \in Slots : Live(t) =>
    /\ link[t].kind = "task" => status[link[t].id] = "called"
    /\ link[t].kind = "join" =>
         LET s == join[link[t].id].parent
         IN /\ s \in Slots /\ Live(s)
            /\ awaits[s] \in {Ref(k, link[t].id) : k \in {"join", "starting", "timeout"}}

\* A coroutine that waits for a process is registered with it, and the process
\* has not completed: completion and cancellation wake every waiter.
NoneStranded ==
  \A s \in Slots : status[s] = "waiting" /\ awaits[s].kind = "process" =>
    ~control[awaits[s].id].done /\ s \in Waiters(control[awaits[s].id].waiters)

\* A coroutine that is ready is in the ready queue, also after an inline await
\* emptied it.
NoneLost == \A s \in Slots : status[s] = "ready" => \E i \in DOMAIN ready : ready[i] = s

\* A coroutine that has finished or was cancelled never runs on: every
\* activation is that of a live coroutine.
NoZombie ==
  \A i \in DOMAIN stack : i < Len(stack) \/ pc = "run" => Live(stack[i].slot)

\* No coroutine outlives its parent or runs when it must not, and nobody waits in
\* vain: every child has the parent that awaits it, what runs has neither finished
\* nor been cancelled, who awaits a process is known to it, and who is ready is in
\* the ready queue.
FamiliesIntact == TypeOK /\ NoOrphans /\ NoZombie /\ NoneStranded /\ NoneLost

\* The parent of a Join goes on only when both children have finished, and it
\* is given the exception that was thrown first, if there was one.
JoinReturns ==
  [][\A s \in DOMAIN status :
       LET j == awaits[s].id
       IN awaits[s].kind = "join" /\ status[s] = "ready" /\ status'[s] = "running"
            => /\ Len(thrown[j]) = 2
               /\ join[j].threw = IF \E i \in 1..2 : thrown[j][i]
                                  THEN CHOOSE i \in 1..2 : thrown[j][i] /\ \A k \in 1..i - 1 : ~thrown[j][k]
                                  ELSE 0]_vars
-----------------------------------------------------------------------------
(* The inductive invariant behind them.                                    *)

\* The fields of one slot fit together.
FramesFit ==
  \A s \in Slots :
    /\ Free(s) => link[s] = Nothing /\ awaits[s] = Nothing
    /\ Live(s) => link[s] # Nothing
    /\ awaits[s] # Nothing => status[s] \in {"waiting", "ready"}
    /\ status[s] = "waiting" => awaits[s] # Nothing
    /\ awaits[s].kind \in {"starting", "timeout"} => link[s].kind = "task"

\* Who is called has one child, which is alive.
Calls ==
  /\ \A s \in Slots :
       status[s] = "called" => \E t \in Slots : Live(t) /\ link[t] = Ref("task", s)
  /\ \A t, u \in Slots :
       Live(t) /\ Live(u) /\ link[t].kind = "task" /\ link[t] = link[u] => t = u

\* Nobody is his own descendant.
Rooted ==
  \A D \in SUBSET Slots :
    D # {} => \E t \in D : \A s \in D : t \notin ChildrenOf(s)

\* A ProcessControl is done when the coroutine of its process is, and knows who
\* waits for it.
ProcessBooks ==
  /\ \A s \in Slots : link[s].kind = "process" =>
       control[link[s].id].spawned /\ (Live(s) <=> ~control[link[s].id].done)
  /\ \A s, t \in Slots : link[s].kind = "process" /\ link[s] = link[t] => s = t
  /\ \A p \in Processes : control[p].done => control[p].spawned
  /\ \A p \in Processes : control[p].spawned /\ ~control[p].done =>
       \E s \in Slots : link[s] = Ref("process", p)
  /\ \A i \in DOMAIN pending : control[pending[i]].spawned
  /\ \A s \in roots : link[s].kind = "process"
  /\ \A p \in Processes :
       /\ IsWaitList(control[p].waiters)
       /\ \A s \in Waiters(control[p].waiters) :
            status[s] = "waiting" /\ awaits[s] = Ref("process", p)

LiveChildren(j) == {t \in Slots : Live(t) /\ link[t] = Ref("join", j)}

\* S has n members; a JoinState has no more than two children.
HasSize(S, n) ==
  \/ n = 0 /\ S = {}
  \/ n = 1 /\ \E t \in S : S = {t}
  \/ n = 2 /\ \E t, u \in S : t # u /\ S = {t, u}

\* The JoinState j counts the children that live, and its parent is resumed when
\* there are none; with_timeout finds its one child.
JoinCounts(s, j) ==
  /\ join[j].parent = s
  /\ HasSize(LiveChildren(j), join[j].remaining)
  /\ Len(thrown[j]) + join[j].remaining = IF awaits[s].kind = "join" THEN 2 ELSE 1
  /\ status[s] = "waiting" => join[j].remaining > 0
  /\ awaits[s].kind = "join" /\ status[s] = "ready" => join[j].remaining = 0
  /\ awaits[s].kind # "join" =>
       \E t \in Slots : /\ link[t] = Ref("join", j)
                        /\ \A u \in Slots : link[u] = Ref("join", j) => u = t

\* The exception kept is the first one.
FirstKept(j) ==
  /\ join[j].threw \in 0..Len(thrown[j])
  /\ join[j].threw # 0 => thrown[j][join[j].threw]
  /\ \A i \in DOMAIN thrown[j] : thrown[j][i] => join[j].threw # 0 /\ join[j].threw <= i

JoinBooks ==
  /\ \A s \in Slots : awaits[s].kind \in {"join", "starting", "timeout"} =>
       JoinCounts(s, awaits[s].id)
  /\ \A j \in Joins : FirstKept(j)

\* Each activation but the innermost one is inside the await of the next.
Activity ==
  /\ pc \in {"run", "return"} <=> stack # <<>>
  /\ \A i \in DOMAIN stack :
       /\ stack[i].by = "drain" <=> i = 1
       /\ stack[i].by = "inline" => stack[i].id \in Processes
       /\ i < Len(stack) => IF stack[i + 1].by = "inline"
                            THEN status[stack[i].slot] = "running"
                            ELSE awaits[stack[i].slot].kind = "starting"
  /\ pc = "run" => status[Top.slot] = "running"
  /\ \A i, k \in DOMAIN stack :
       i < k /\ (k < Len(stack) \/ pc = "run") => stack[i].slot # stack[k].slot
  /\ \A s \in Slots : awaits[s].kind = "starting" =>
       \E i \in DOMAIN stack : i < Len(stack) /\ stack[i].slot = s

IInv ==
  /\ TypeOK /\ FramesFit /\ NoOrphans /\ Calls /\ Rooted /\ ProcessBooks
  /\ NoneStranded /\ NoneLost /\ JoinBooks /\ Activity
=============================================================================
