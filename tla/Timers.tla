------------------------------- MODULE Timers -------------------------------
(***************************************************************************)
(* Delays: the timer registrations of cpptb::coro::Scheduler, what a DPI   *)
(* step reports about them, and the processes of the generated wrapper     *)
(* that turn the report into simulation time: timer_owner, which sleeps    *)
(* until one target, and the timer_wakeup processes forked for deadlines   *)
(* that arise earlier than that target.                                    *)
(*                                                                         *)
(* The SystemVerilog processes interleave only where they block; a DPI     *)
(* step and the service_requests after it do not block.  Inside a step the *)
(* coroutines made ready run until each waits again or finishes.           *)
(*                                                                         *)
(* Two numberings of the code are represented by what they decide.  A      *)
(* registration is valid while the wait that made it lasts: timer[c] is    *)
(* the sequence number of the Delay c waits for.  A wakeup is current      *)
(* while timer_generation is the one it was forked with.                   *)
(***************************************************************************)
EXTENDS Naturals, FiniteSets

CONSTANTS
  Coros,
  Delays,     \* delays in ticks, as validate_delay admits them
  Forever,    \* the largest uint64_t, which also stands for no timer
  MaxTime,    \* bound on simulation time
  MaxTimers   \* bound on the number of Delays awaited

\* What an instance gives the constants.
TimersAssumption ==
  /\ Delays \subseteq 1..Forever
  /\ Forever \in Nat /\ MaxTime \in Nat /\ MaxTime < Forever
  /\ IsFiniteSet(Coros) /\ MaxTimers \in Nat

VARIABLES
  now,        \* $time, and now_ of the scheduler from the next step on
  state,      \* of each coroutine: "ready", "waiting" or "done"
  timer,      \* sequence number of the Delay it waits for, 0 if none
  sequence,   \* next_timer_sequence_
  next,       \* next_timer_, as a set of at most one registration
  heap,       \* timer_waiters_
  changed,    \* timer_schedule_changed_
  stepping,   \* the process whose DPI step is under way, "none" between steps
  deadline,   \* timer_deadline of the wrapper
  target,     \* timer_owner_target
  owner,      \* where timer_owner is: "run", "delay" or "kick"
  wakeups,    \* the timer_wakeup processes
  finished    \* status # 0

schedulerVars == <<state, timer, sequence, next, heap, changed>>
wrapperVars == <<deadline, target, owner, wakeups, finished>>
vars == <<now, schedulerVars, stepping, wrapperVars>>

Registrations == [coro: Coros, at: 0..Forever, seq: 1..MaxTimers]

\* The argument of a process forked by service_requests is the module variable
\* timer_deadline, read when the process first runs.
Unread == Forever + 1

Wakeups == [at: 0..Unread, current: BOOLEAN]

Steppers == {"init", "owner", "wakeup", "other"}

TypeOK ==
  /\ now \in 0..MaxTime
  /\ state \in [Coros -> {"ready", "waiting", "done"}]
  /\ timer \in [Coros -> 0..MaxTimers]
  /\ sequence \in 1..MaxTimers + 1
  /\ next \subseteq Registrations
  /\ heap \subseteq Registrations
  /\ changed \in BOOLEAN
  /\ stepping \in Steppers \cup {"none"}
  /\ deadline \in 0..Forever
  /\ target \in 0..Forever
  /\ owner \in {"run", "delay", "kick"}
  /\ wakeups \subseteq Wakeups
  /\ finished \in BOOLEAN

\* init spawns the tests, whose prologues run before the step PHASE_INIT.
Init ==
  /\ now = 0
  /\ state = [c \in Coros |-> "ready"]
  /\ timer = [c \in Coros |-> 0]
  /\ sequence = 1
  /\ next = {} /\ heap = {} /\ changed = FALSE
  /\ stepping = "init"
  /\ deadline = Forever /\ target = Forever
  /\ owner = "run" /\ wakeups = {} /\ finished = FALSE

-----------------------------------------------------------------------------
(* The timer queue.                                                        *)

\* registration_valid
Valid(r) == state[r.coro] = "waiting" /\ timer[r.coro] = r.seq

\* TimerRegistrationLater
Later(r, s) == r.at > s.at \/ (r.at = s.at /\ r.seq > s.seq)

Earliest(S) == {r \in S : \A s \in S : r # s => Later(s, r)}

After(S, first) == {r \in S : \A s \in first : Later(r, s)}

\* What discard_stale_timers leaves in next_timer_: the earliest valid one.
FirstValid == Earliest({r \in next \cup heap : Valid(r)})

NextIsStale == \E r \in next : ~Valid(r)

\* The rest of timer_waiters_ when first has been taken from it.
Remaining(first) == IF first = {} THEN {} ELSE After(next \cup heap, first)

\* next_timer_deadline
NextTimerDeadline ==
  IF FirstValid = {} THEN Forever ELSE (CHOOSE r \in FirstValid : TRUE).at

\* register_wait of a Delay: the deadline saturates.
DeadlineOf(d) == IF d > Forever - now THEN Forever ELSE now + d

\* Mutant: a deadline one tick ahead counts as reached.
DueEarly(r) == r.at <= now + 1

Due(r) == r.at <= now

\* advance_time with time = now: every valid registration that is due is
\* popped and its coroutine resumed; stale ones on the way are discarded.
AdvanceTime ==
  IF \E r \in next : Due(r)
  THEN LET valid == {r \in next \cup heap : Valid(r)}
           due == {r \in valid : Due(r)}
           first == Earliest(valid \ due)
       IN /\ next' = first
          /\ heap' = Remaining(first)
          /\ changed' = TRUE
          /\ state' = [c \in Coros |->
                        IF \E r \in due : r.coro = c THEN "ready" ELSE state[c]]
          /\ timer' = [c \in Coros |->
                        IF \E r \in due : r.coro = c THEN 0 ELSE timer[c]]
  ELSE UNCHANGED <<state, timer, next, heap, changed>>

-----------------------------------------------------------------------------
(* What the coroutines do inside a step.                                   *)

\* co_await Delay, alone or as an alternative of First: discard_stale_timers,
\* push_timer, and the schedule has changed if this deadline is the earliest.
AwaitDelay(c, d) ==
  /\ stepping # "none"
  /\ state[c] = "ready"
  /\ sequence <= MaxTimers
  /\ LET r == [coro |-> c, at |-> DeadlineOf(d), seq |-> sequence]
         first == Earliest(FirstValid \cup {r})
         all == {r} \cup FirstValid \cup Remaining(FirstValid)
     IN /\ next' = first
        /\ heap' = all \ first
        /\ changed' = (changed \/ NextIsStale \/ r.at < NextTimerDeadline)
  /\ state' = [state EXCEPT ![c] = "waiting"]
  /\ timer' = [timer EXCEPT ![c] = sequence]
  /\ sequence' = sequence + 1
  /\ UNCHANGED <<now, stepping, wrapperVars>>

\* co_await of an edge, an Event or another trigger that is no timer
AwaitOther(c) ==
  /\ stepping # "none"
  /\ state[c] = "ready"
  /\ state' = [state EXCEPT ![c] = "waiting"]
  /\ UNCHANGED <<now, timer, sequence, next, heap, changed, stepping,
                 wrapperVars>>

\* Another alternative of First wins, or a trigger that is no timer fires.
ResumeByOther(c) ==
  /\ stepping # "none"
  /\ state[c] = "waiting"
  /\ state' = [state EXCEPT ![c] = "ready"]
  /\ timer' = [timer EXCEPT ![c] = 0]
  /\ UNCHANGED <<now, sequence, next, heap, changed, stepping, wrapperVars>>

\* The coroutine returns, or its process is cancelled where it waits.
Finish(c) ==
  /\ stepping # "none"
  /\ state[c] # "done"
  /\ state' = [state EXCEPT ![c] = "done"]
  /\ timer' = [timer EXCEPT ![c] = 0]
  /\ UNCHANGED <<now, sequence, next, heap, changed, stepping, wrapperVars>>

-----------------------------------------------------------------------------
(* The DPI step and the wrapper.                                           *)

\* A process of the wrapper calls the step function: set_time(now).
BeginStep(p) ==
  /\ stepping = "none"
  /\ ~finished
  /\ AdvanceTime
  /\ stepping' = p
  /\ UNCHANGED <<now, sequence, deadline, target, finished>>

\* timer_generation++: every wakeup forked so far has an old generation.
Outdated == {[w EXCEPT !.current = FALSE] : w \in wakeups}

\* Mutant: no wakeup is forked for a deadline before the owner's target.
ArmOwnerOnly(at) ==
  /\ owner' = IF target = Forever /\ owner = "kick" THEN "run" ELSE owner
  /\ wakeups' = Outdated

\* Mutant: an owner without a target is not kicked.
ArmWithoutKick(at) ==
  /\ owner' = owner
  /\ wakeups' = IF target # Forever /\ deadline' < target
                THEN Outdated \cup {[at |-> at, current |-> TRUE]}
                ELSE Outdated

\* The timer part of service_requests for a deadline other than NO_TIMER: kick
\* the owner if it has no target, fork a wakeup if it sleeps too long.  A kick
\* reaches the owner only where it waits for one.
Arm(at) ==
  /\ owner' = IF target = Forever /\ owner = "kick" THEN "run" ELSE owner
  /\ wakeups' = IF target # Forever /\ deadline' < target
                THEN Outdated \cup {[at |-> at, current |-> TRUE]}
                ELSE Outdated

\* The end of the step, and service_requests: STEP_TIMER_IDLE,
\* STEP_NEXT_TICK_TIMER or STEP_TIMER_CHANGED, with update_timer_schedule.
EndStep ==
  /\ stepping # "none"
  /\ \A c \in Coros : state[c] # "ready"
  /\ stepping' = "none"
  /\ finished' = \A c \in Coros : state[c] = "done"
  /\ IF changed
     THEN /\ next' = FirstValid
          /\ heap' = Remaining(FirstValid)
          \* discard_stale_timers runs after the flag was consumed
          /\ changed' = NextIsStale
          /\ deadline' = NextTimerDeadline
          /\ IF NextTimerDeadline = Forever
             THEN wakeups' = Outdated /\ owner' = owner
             ELSE Arm(IF NextTimerDeadline = now + 1 THEN Unread
                                                     ELSE NextTimerDeadline)
     ELSE UNCHANGED <<next, heap, changed, deadline, owner, wakeups>>
  /\ UNCHANGED <<now, state, timer, sequence, target>>

\* timer_owner from the top of its loop to the place where it blocks or steps.
OwnerWaits ==
  /\ stepping = "none" /\ ~finished
  /\ owner = "run"
  /\ deadline = Forever
  /\ owner' = "kick"
  /\ UNCHANGED <<now, schedulerVars, stepping, deadline, target, wakeups,
                 finished>>

OwnerSleeps ==
  /\ stepping = "none" /\ ~finished
  /\ owner = "run"
  /\ deadline # Forever /\ deadline > now
  /\ target' = deadline
  /\ owner' = "delay"
  /\ UNCHANGED <<now, schedulerVars, stepping, deadline, wakeups, finished>>

OwnerSteps ==
  /\ owner = "run"
  /\ deadline <= now
  /\ BeginStep("owner")
  /\ UNCHANGED <<owner, wakeups>>

OwnerWakes ==
  /\ stepping = "none"
  /\ owner = "delay" /\ target = now
  /\ owner' = "run"
  /\ target' = Forever
  /\ UNCHANGED <<now, schedulerVars, stepping, deadline, wakeups, finished>>

\* A forked timer_wakeup starts: its arguments are read.
WakeupStarts(w) ==
  /\ stepping = "none"
  /\ w.at = Unread
  /\ wakeups' = (wakeups \ {w}) \cup {[w EXCEPT !.at = deadline]}
  /\ UNCHANGED <<now, schedulerVars, stepping, deadline, target, owner, finished>>

WakeupSteps(w) ==
  /\ w.at <= now
  /\ w.current
  /\ BeginStep("wakeup")
  /\ wakeups' = wakeups \ {w}
  /\ UNCHANGED owner

\* generation # timer_generation
WakeupExpires(w) ==
  /\ stepping = "none"
  /\ w.at <= now
  /\ ~w.current
  /\ wakeups' = wakeups \ {w}
  /\ UNCHANGED <<now, schedulerVars, stepping, deadline, target, owner, finished>>

\* Clock drivers, observers and the dispatched simulator phases step too.
OtherSteps ==
  /\ BeginStep("other")
  /\ UNCHANGED <<owner, wakeups>>

\* The simulator goes to the next time slot when no process can run: the
\* earliest time a process of the wrapper waits for, or an event of the design.
Runnable ==
  \/ owner = "run"
  \/ owner = "delay" /\ target <= now
  \/ \E w \in wakeups : w.at <= now \/ w.at = Unread

Slots ==
  {w.at : w \in wakeups} \cup (IF owner = "delay" THEN {target} ELSE {})

NextSlot ==
  /\ stepping = "none" /\ ~finished
  /\ ~Runnable
  /\ \E t \in now + 1..MaxTime :
       /\ \A s \in Slots : t <= s
       /\ now' = t
  /\ UNCHANGED <<schedulerVars, stepping, wrapperVars>>

OwnerNext == OwnerWaits \/ OwnerSleeps \/ OwnerSteps \/ OwnerWakes

WakeupNext ==
  \E w \in wakeups : WakeupStarts(w) \/ WakeupSteps(w) \/ WakeupExpires(w)

\* A coroutine that was resumed goes on until it waits again or returns.
Run(c) ==
  /\ state[c] = "ready"
  /\ (\E d \in Delays : AwaitDelay(c, d)) \/ AwaitOther(c) \/ Finish(c)

Interrupt(c) ==
  /\ state[c] = "waiting"
  /\ ResumeByOther(c) \/ Finish(c)

Next ==
  \/ EndStep \/ OwnerNext \/ WakeupNext \/ OtherSteps \/ NextSlot
  \/ \E c \in Coros : Run(c) \/ Interrupt(c)

Spec == Init /\ [][Next]_vars

-----------------------------------------------------------------------------
(* The invariant.                                                          *)

Queued == next \cup heap

\* next_timer_ is the earliest of all registrations, and every Delay awaited is
\* registered: discarding stale registrations loses none that is valid.
Registered ==
  /\ \A r \in next, s \in heap : Later(s, r)
  /\ next = {} => heap = {}
  /\ \A c \in Coros : (state[c] = "waiting" /\ timer[c] # 0) =>
       \E r \in Queued : r.coro = c /\ r.seq = timer[c]

\* A sequence number belongs to one registration, and a wait that has ended
\* keeps none.
Numbered ==
  /\ \A r, s \in Queued : r.seq = s.seq => r = s
  /\ \A r, s \in next : r = s
  /\ \A r \in Queued : r.seq < sequence
  /\ \A c \in Coros : timer[c] # 0 => state[c] = "waiting"

\* What the processes of the wrapper know of the deadline last reported.
WrapperInv ==
  /\ owner = "delay" <=> target # Forever
  /\ \A w \in wakeups : w.current => w.at \in {Unread, deadline}

\* The deadline of next_timer_ is the one last reported, and if it is a time the
\* simulation can reach a process of the wrapper will step by then.
Reported ==
  /\ next = {} => deadline = Forever
  /\ \A r \in next : r.at = deadline
  /\ deadline # Forever =>
       \/ owner = "run"
       \/ owner = "delay" /\ target <= deadline
       \/ \E w \in wakeups : w.current

\* The report is up to date whenever the scheduler has nothing to report, and
\* time has not passed it.
ReportInv ==
  /\ (stepping = "none" \/ ~changed) => Reported
  /\ stepping = "none" => now <= deadline
  /\ stepping # "none" => \A r \in Queued : now < r.at

IInv == TypeOK /\ Registered /\ Numbered /\ WrapperInv /\ ReportInv

-----------------------------------------------------------------------------
(* Properties.                                                             *)

Live == {r \in Queued : Valid(r) /\ r.at < Forever}

\* Between steps, every Delay somebody waits for is covered by a process of the
\* wrapper that will step at its deadline or before, although the owner may be
\* asleep until a later one and each report makes the earlier wakeups void.
Armed ==
  (stepping = "none" /\ ~finished) =>
    \A r \in Live :
      \/ owner = "run"
      \/ owner = "delay" /\ target <= r.at
      \/ \E w \in wakeups :
           w.current /\ (IF w.at = Unread THEN deadline ELSE w.at) <= r.at

\* Simulation time never passes the deadline of a Delay that is still awaited.
NeverLate == \A r \in Live : r.at >= now

\* The deadline of every Delay awaited is armed and not yet passed.
DeadlinesArmed == Armed /\ NeverLate

\* advance_time resumes a coroutine at its deadline: not before, not after.
EndsOnTime ==
  [][\A r \in Queued :
       (stepping = "none" /\ stepping' # "none" /\ Valid(r) /\ state'[r.coro] = "ready")
         => r.at = now]_vars

\* A step of timer_owner leaves no deadline that is due: otherwise its loop
\* would step again and again without simulation time going on.
OwnerProgress ==
  [][(stepping = "owner" /\ stepping' = "none") => deadline' > now]_vars

\* A Delay ends at its deadline, and the owner's step leaves no deadline that is
\* due.
OnTime == EndsOnTime /\ OwnerProgress

\* Every Delay within the bound of simulation time ends.
DelaysEnd ==
  \A q \in 1..MaxTimers :
    (\E r \in Live : r.seq = q /\ r.at <= MaxTime) ~> (\A c \in Coros : timer[c] # q)
=============================================================================
