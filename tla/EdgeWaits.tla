----------------------------- MODULE EdgeWaits -----------------------------
(***************************************************************************)
(* How a coroutine's wait for a signal edge reaches the simulator and the  *)
(* edge reaches the coroutine.                                             *)
(*                                                                         *)
(* Inside the scheduler a wait leaves registrations in the queues of its   *)
(* triggers (edge_waiters_); a registration names the slot and the wait    *)
(* generation, and the ones a finished wait leaves behind are recognised   *)
(* by their generation and dropped later.  Counters shadow the queues.     *)
(* Per signal the counters give an interest mask; changes of the mask are  *)
(* announced once per DPI step, and the generated SystemVerilog wrapper    *)
(* keeps a copy of it (edge_interest[]) and calls DPI only for the edges   *)
(* in its copy.  A DPI step first sets the time, which resumes the Delays  *)
(* that are due and drains what they made ready, and only then notifies    *)
(* the edge or phase it was called for.                                    *)
(*                                                                         *)
(* The order in which ready coroutines run is left open here (Coroutines   *)
(* models it), so a queue of registrations is the set of them: a wait has  *)
(* at most one in each queue.  A signal is a clock (a sticky edge source), an observed    *)
(* DUT output, or driven by the testbench, whose writes deliver the edge   *)
(* inside the step.                                                        *)
(***************************************************************************)
EXTENDS Integers, FiniteSets

CONSTANTS
  Coros,            \* the slots of states_
  Clocks,           \* configured_clock_, sticky_edge_sources_
  Observers,        \* edge_observer_
  Locals,           \* driven_ and local_edge_capable_
  Primary,          \* the clock the wrapper counts cycles with
  Cancellable,      \* the slots that are ever cancelled
  CompactThreshold, \* compact_threshold
  MaxTriggers,      \* bound: triggers of one First{...}
  MaxGeneration     \* bound: waits begun and cancelled in a behaviour

\* What an instance gives the constants.
EdgeAssumption ==
  /\ IsFiniteSet(Coros) /\ Cancellable \subseteq Coros
  /\ IsFiniteSet(Clocks \cup Observers \cup Locals)
  /\ Clocks \cap Observers = {} /\ (Clocks \cup Observers) \cap Locals = {}
  /\ {CompactThreshold, MaxTriggers, MaxGeneration} \subseteq Nat
  /\ MaxTriggers > 0

VARIABLES
  life,       \* what the slot's coroutine is doing
  gen,        \* wait_generation
  awaits,     \* the triggers of the current wait
  nextGen,    \* next_wait_generation_
  queue,      \* edge_waiters_
  entries,    \* edge_queue_entries_
  stale,      \* stale_edge_registrations_
  counts,     \* edge_interest_counts_
  falling,    \* falling_edge_registrations_
  published,  \* sticky_edge_interest_
  changes,    \* edge_interest_changes_, edge_interest_change_pending_
  table,      \* edge_interest[] of the wrapper
  lost,       \* the clock edges whose interest ended before the wrapper read it
              \* (history)
  where       \* "wrapper": in SystemVerilog; in a DPI step, "due": due Delays
              \* run, "notify": they have run, "step": the edge was notified

waitVars == <<life, gen, awaits, nextGen>>
bookVars == <<queue, entries, stale, counts, falling>>
interestVars == <<published, changes, table, lost>>
vars == <<waitVars, bookVars, interestVars, where>>

Signals == Clocks \cup Observers \cup Locals
Directions == {"rising", "falling"}
Triggers == Signals \X {"rising", "falling", "any"}

\* A trigger of another kind: a delay, a phase, an Event, a child task.
Other == <<"none", "other">>

Registration == [coro : Coros, gen : Nat]

TypeOK ==
  /\ life \in [Coros -> {"free", "runnable", "waiting", "done"}]
  /\ gen \in [Coros -> 0..nextGen]
  /\ awaits \in [Coros -> SUBSET (Triggers \cup {Other})]
  /\ nextGen \in Nat
  /\ queue \in [Triggers -> SUBSET Registration]
  /\ entries \in Nat /\ stale \in Nat /\ falling \in Nat
  /\ counts \in [Triggers -> Nat]
  /\ published \in [Signals -> SUBSET Directions]
  /\ changes \subseteq Signals
  /\ table \in [Signals -> SUBSET Directions]
  /\ lost \in [Signals -> SUBSET Directions]
  /\ where \in {"wrapper", "due", "notify", "step"}

Init ==
  /\ life = [c \in Coros |-> "free"]
  /\ gen = [c \in Coros |-> 0]
  /\ awaits = [c \in Coros |-> {}]
  /\ nextGen = 0
  /\ queue = [t \in Triggers |-> {}]
  /\ entries = 0 /\ stale = 0 /\ falling = 0
  /\ counts = [t \in Triggers |-> 0]
  /\ published = [s \in Signals |-> {}]
  /\ changes = {}
  /\ table = [s \in Signals |-> {}]
  /\ lost = [s \in Signals |-> {}]
  /\ where = "step"   \* PHASE_INIT

-----------------------------------------------------------------------------
(* Helpers.                                                                *)

\* Mutant: the generation is not compared.
ValidSlot(r) == life[r.coro] = "waiting"

\* registration_valid
Valid(r) == life[r.coro] = "waiting" /\ gen[r.coro] = r.gen

\* interest_mask of the counters cnt
Mask(cnt, s) == {d \in Directions : cnt[<<s, d>>] # 0 \/ cnt[<<s, "any">>] # 0}

\* The edge registrations of the current waits of C: pairs of slot and trigger.
EdgesOf(C) == {x \in C \X Triggers : x[2] \in awaits[x[1]]}
FallingOf(E) == {x \in E : x[2][2] # "rising"}

\* record_edge_interest_change for every signal whose counters change to cnt.
\* A wait only adds interest and its end only removes some, so the net change
\* of the mask is announced exactly when some single change is.
Announce(cnt) ==
  /\ counts' = cnt
  /\ published' = [s \in Signals |->
       IF s \in Clocks THEN published[s] \cup Mask(cnt, s) ELSE published[s]]
  /\ changes' = changes
       \cup {s \in Signals \ Clocks : Mask(cnt, s) # Mask(counts, s)}
       \cup {s \in Clocks : ~(Mask(cnt, s) \subseteq published[s])}
  /\ lost' = [s \in Signals |->
       IF s \in Clocks THEN lost[s] \cup (Mask(counts, s) \ (Mask(cnt, s) \cup table[s]))
                       ELSE lost[s]]

\* end_wait of every member of C, while dropped registrations leave the queues.
EndWaits(C, dropped) ==
  LET E == EdgesOf(C)
  IN  /\ Announce([t \in Triggers |->
                     counts[t] - Cardinality({x \in E : x[2] = t})])
      /\ stale' = stale + Cardinality(E) - dropped
      /\ falling' = falling - Cardinality(FallingOf(E))
      /\ awaits' = [c \in Coros |-> IF c \in C THEN {} ELSE awaits[c]]

Become(C, l) == life' = [c \in Coros |-> IF c \in C THEN l ELSE life[c]]

\* The queues an edge e of s resumes.
QueuesOf(s, e) == {<<s, e>>, <<s, "any">>}

\* The registrations in the queues of the triggers T, each with its trigger.
EntriesOf(T) == UNION {{t} \X queue[t] : t \in T}

\* resume_edge: resume_edge_queue of the specific queue and of the "any" queue.
ResumeEdge(s, e) ==
  LET taken == EntriesOf(QueuesOf(s, e))
      woken == {x[2].coro : x \in {y \in taken : Valid(y[2])}}
  IN  /\ EndWaits(woken, Cardinality(taken))
      /\ Become(woken, "runnable")
      /\ queue' = [t \in Triggers |->
                     IF t \in QueuesOf(s, e) THEN {} ELSE queue[t]]
      /\ entries' = entries - Cardinality(taken)
      /\ UNCHANGED <<gen, nextGen, table>>

-----------------------------------------------------------------------------
(* The steps of coroutines, inside a DPI step.                             *)

Draining == where \in {"due", "step"}

\* adopt
Spawn(c) ==
  /\ Draining
  /\ life[c] = "free"
  /\ Become({c}, "runnable")
  /\ gen' = [gen EXCEPT ![c] = 0]
  /\ UNCHANGED <<awaits, nextGen, bookVars, interestVars, where>>

\* park, park_edge and park_first: begin_wait, then register_wait of every
\* trigger in R.
Await(c, R) ==
  LET E == {c} \X (R \cap Triggers)
  IN  /\ Draining
      /\ life[c] = "runnable"
      /\ nextGen < MaxGeneration
      /\ Become({c}, "waiting")
      /\ nextGen' = nextGen + 1
      /\ gen' = [gen EXCEPT ![c] = nextGen + 1]
      /\ awaits' = [awaits EXCEPT ![c] = R]
      /\ queue' = [t \in Triggers |->
                     IF t \in R
                     THEN queue[t] \cup {[coro |-> c, gen |-> nextGen + 1]}
                     ELSE queue[t]]
      /\ entries' = entries + Cardinality(E)
      /\ falling' = falling + Cardinality(FallingOf(E))
      /\ Announce([t \in Triggers |->
                     IF t \in R THEN counts[t] + 1 ELSE counts[t]])
      /\ UNCHANGED <<stale, table, where>>

\* An Event, a queue or a child task resumes a coroutine that waits for it.
WakeUp(c) ==
  /\ Draining
  /\ life[c] = "waiting" /\ awaits[c] = {Other}
  /\ EndWaits({c}, 0)
  /\ Become({c}, "runnable")
  /\ UNCHANGED <<gen, nextGen, queue, entries, table, where>>

\* A write to a driven signal: deliver_local_edge notifies when has_edge_interest.
LocalEdge(s, e) ==
  /\ Draining
  /\ \E c \in Coros : life[c] = "runnable"
  /\ s \in Locals
  /\ \E t \in QueuesOf(s, e) : counts[t] # 0
  /\ ResumeEdge(s, e)
  /\ UNCHANGED where

\* finish
Finish(c) ==
  /\ Draining
  /\ life[c] = "runnable"
  /\ Become({c}, "done")
  /\ UNCHANGED <<gen, awaits, nextGen, bookVars, interestVars, where>>

\* cancel_state
Cancel(c) ==
  /\ Draining
  /\ c \in Cancellable
  /\ life[c] \in {"runnable", "waiting"}
  /\ nextGen < MaxGeneration
  /\ EndWaits({c}, 0)
  /\ Become({c}, "done")
  /\ nextGen' = nextGen + 1
  /\ gen' = [gen EXCEPT ![c] = nextGen + 1]
  /\ UNCHANGED <<queue, entries, table, where>>

\* reclaim_finished_state: the slot is reset and may be used again.
Reclaim(c) ==
  /\ Draining
  /\ life[c] = "done"
  /\ Become({c}, "free")
  /\ gen' = [gen EXCEPT ![c] = 0]
  /\ UNCHANGED <<awaits, nextGen, bookVars, interestVars, where>>

-----------------------------------------------------------------------------
(* The boundary between the scheduler and the wrapper.                     *)

\* Mutant: compaction empties the queues.
CompactAway ==
  IF stale >= CompactThreshold /\ stale * 2 >= entries
  THEN /\ queue' = [t \in Triggers |-> {}]
       /\ entries' = 0
       /\ stale' = 0
  ELSE UNCHANGED <<queue, entries, stale>>

\* compact_stale_edge_queues
Compact ==
  LET removed == Cardinality({x \in EntriesOf(Triggers) : ~Valid(x[2])})
  IN  IF stale >= CompactThreshold /\ stale * 2 >= entries
      THEN /\ queue' = [t \in Triggers |-> {x \in queue[t] : Valid(x)}]
           /\ entries' = entries - removed
           /\ stale' = stale - removed
      ELSE UNCHANGED <<queue, entries, stale>>

\* Mutant: every entry of the wrapper's table is replaced.
ServiceRequestsReplacing ==
  table' = IF changes = {} THEN table
           ELSE [s \in Signals |-> Mask(counts, s)]

\* service_requests: the wrapper's copy of the masks.  A clock's entry only
\* grows (|=), an observer's is replaced (=).
ServiceRequests ==
  table' = IF changes \cap (Clocks \cup Observers) = {} THEN table
           ELSE [s \in Signals |->
                   CASE s \in Clocks -> table[s] \cup Mask(counts, s)
                     [] s \in Observers -> Mask(counts, s)
                     [] OTHER -> table[s]]

\* The drain is over: scheduler_boundary, sync_edge_interest_changes, and the
\* return to the wrapper.
EndStep ==
  /\ where = "step"
  /\ \A c \in Coros : life[c] # "runnable"
  /\ Compact
  /\ ServiceRequests
  /\ changes' = {}
  /\ where' = "wrapper"
  /\ UNCHANGED <<waitVars, counts, falling, published, lost>>

\* set_time -> advance_time when a timer is due: the members of C await it, and
\* are none when all that is due is the timer of a finished wait.
DueDelays(C) ==
  /\ where = "wrapper"
  /\ \A c \in C : life[c] = "waiting" /\ Other \in awaits[c]
  /\ EndWaits(C, 0)
  /\ Become(C, "runnable")
  /\ where' = "due"
  /\ UNCHANGED <<gen, nextGen, queue, entries, table>>

\* The drain of advance_time is over: scheduler_boundary.
EndDue ==
  /\ where = "due"
  /\ \A c \in Coros : life[c] # "runnable"
  /\ Compact
  /\ where' = "notify"
  /\ UNCHANGED <<waitVars, counts, falling, interestVars>>

\* notify_edge of an edge the wrapper sees: it calls run_step for an edge in its
\* table, and for a rising edge of the primary clock while no timer is pending.
WrapperEdge(s, e) ==
  /\ where \in {"wrapper", "notify"}
  /\ s \in Clocks \cup Observers
  /\ e \in table[s] \/ (s = Primary /\ e = "rising" /\ where = "wrapper")
  /\ ResumeEdge(s, e)
  /\ where' = "step"

\* Any other step: a phase resumes the members of C; a Delay step, nobody more.
OtherStep(C) ==
  /\ where \in {"wrapper", "notify"}
  /\ \A c \in C : life[c] = "waiting" /\ Other \in awaits[c]
  /\ EndWaits(C, 0)
  /\ Become(C, "runnable")
  /\ where' = "step"
  /\ UNCHANGED <<gen, nextGen, queue, entries, table>>

TriggerSets ==
  {{t[i] : i \in 1..MaxTriggers} :
     t \in [1..MaxTriggers -> Triggers \cup {Other}]}

Next ==
  \/ \E c \in Coros :
       \/ Spawn(c) \/ WakeUp(c) \/ Finish(c) \/ Cancel(c) \/ Reclaim(c)
       \/ /\ life[c] = "runnable" /\ nextGen < MaxGeneration
          /\ \E R \in TriggerSets : Await(c, R)
  \/ \E s \in Signals, e \in {"rising", "falling", "any"} : LocalEdge(s, e)
  \/ EndStep \/ EndDue
  \/ \E s \in Signals, e \in Directions : WrapperEdge(s, e)
  \/ \E C \in SUBSET Coros : DueDelays(C) \/ OtherStep(C)

Spec == Init /\ [][Next]_vars

-----------------------------------------------------------------------------
(* The invariant.                                                          *)

\* Every trigger of a current wait still has its registration: neither resuming
\* others nor compaction drops a live one.
WaitersQueued ==
  \A c \in Coros :
    life[c] = "waiting" =>
      \A t \in awaits[c] \cap Triggers : [coro |-> c, gen |-> gen[c]] \in queue[t]

\* What a wait has left behind: only a coroutine that waits awaits something, and
\* no registration is mistaken for one of the current wait or of a later one.
Distinguished ==
  /\ \A c \in Coros : awaits[c] # {} => life[c] = "waiting"
  /\ \A t \in Triggers : \A x \in queue[t] :
       /\ x.gen <= nextGen
       /\ Valid(x) => t \in awaits[x.coro]

\* The counters shadow the queues and the current waits.
Shadowed ==
  LET E == EdgesOf(Coros)
  IN  /\ IsFiniteSet(EntriesOf(Triggers))
      /\ entries = Cardinality(EntriesOf(Triggers))
      /\ entries = stale + Cardinality(E)
      /\ \A t \in Triggers : counts[t] = Cardinality({x \in E : x[2] = t})
      /\ falling = Cardinality(FallingOf(E))

\* What is not yet announced to the wrapper is among the changes of this step.
\* A clock's interest is announced once: what was published and the wrapper has
\* not read is still counted, or was lost.
Announced ==
  /\ where = "wrapper" => changes = {}
  /\ \A s \in Observers \ changes : table[s] = Mask(counts, s)
  /\ \A s \in Clocks :
       /\ Mask(counts, s) \subseteq published[s]
       /\ published[s] \subseteq
            table[s] \cup lost[s] \cup (IF s \in changes THEN Mask(counts, s) ELSE {})

IInv == TypeOK /\ WaitersQueued /\ Distinguished /\ Shadowed /\ Announced

-----------------------------------------------------------------------------
(* Properties.                                                             *)

\* The counters agree with the live registrations in the queues, although
\* registrations turn stale in the middle of a queue and are dropped much later:
\* so neither "edge interest bookkeeping underflow" nor an unsigned wrap-around
\* can happen.
Bookkeeping ==
  LET all == EntriesOf(Triggers)
      live == {x \in all : Valid(x[2])}
  IN  /\ Cardinality(all) = entries
      /\ stale = Cardinality(all) - Cardinality(live)
      /\ \A t \in Triggers : counts[t] = Cardinality({x \in live : x[1] = t})
      /\ falling = Cardinality({x \in live : x[1][2] # "rising"})

\* No registration is lost and none is miscounted.
BooksAgree == IInv /\ Bookkeeping

\* An edge resumes a coroutine only when its current wait names that edge: a
\* registration left by an earlier wait, of this coroutine or of a previous
\* owner of the slot, resumes nobody.
NoStaleResume ==
  [][\A c \in Coros :
       life[c] = "waiting" /\ life'[c] = "runnable" =>
         \/ Other \in awaits[c]
         \/ \E t \in awaits[c] : queue[t] # {} /\ queue'[t] = {}]_vars

\* While the simulator runs, the wrapper's entry of an observed signal is the
\* mask of its waiters: no awaited edge is missed and DPI is called only while
\* there is a matching edge wait.
ObserversExact ==
  where = "wrapper" => \A s \in Observers : table[s] = Mask(counts, s)

\* What scheduling.md promises of clocks: while the simulator runs, the wrapper
\* delivers every edge that some coroutine awaits.  The code does not keep it.
ClocksDelivered ==
  where = "wrapper" => \A s \in Clocks : Mask(counts, s) \subseteq table[s]

\* What it does keep: an awaited edge of a clock is delivered unless some wait for
\* that edge, of whatever coroutine, once began and ended within one DPI step,
\* before the wrapper had read the mask.
ClocksDeliveredOrLost ==
  where = "wrapper" =>
    \A s \in Clocks : Mask(counts, s) \subseteq table[s] \cup lost[s]

\* The wrapper delivers what is awaited: of an observed signal exactly that, and
\* of a clock all of it but what was lost.
InterestKnown == ObserversExact /\ ClocksDeliveredOrLost
=============================================================================
