--------------------------- MODULE SimulatorProofs ---------------------------
(***************************************************************************)
(* Proofs about what the scheduler waits for in the simulator, for every   *)
(* finite set of coroutines and any bounds.                                *)
(*                                                                         *)
(* Delays (Timers): each deadline that is awaited is armed in the wrapper  *)
(* and is not passed, a Delay ends exactly at its deadline, and a step of  *)
(* timer_owner never leaves a deadline that is due.                        *)
(*                                                                         *)
(* Phases, under both timing backends: the counters from which a backend   *)
(* decides whether to dispatch a phase count the live registrations,       *)
(* ReadOnly observes a settled design, no write and no wait of a time step *)
(* is left over when it ends, and NextTimeStep ends in the next one.       *)
(*                                                                         *)
(* Edges (EdgeWaits): the counters agree with the queues they shadow, no   *)
(* registration of a current wait is lost, none that a finished wait has   *)
(* left behind resumes anybody, and while the simulator runs the wrapper   *)
(* delivers the edges that are awaited.                                    *)
(***************************************************************************)
EXTENDS Timers, Integers, FiniteSetTheorems, SequenceTheorems, WellFoundedInduction, TLAPS

CONSTANTS
  \* those of Phases; Coros and MaxTime are shared
  Backend, Waits, MaxQueue, MaxWrites,
  \* those of EdgeWaits
  Clocks, Observers, Locals, Primary, Cancellable, CompactThreshold,
  MaxTriggers, MaxGeneration

VARIABLES
  \* Phases
  phaseNow, place, phaseStep, phase, waits, asked, due, phaseQueue, count, armed,
  deferred, dirty, done, aborted,
  \* EdgeWaits
  life, gen, awaits, nextGen, queue, entries, stale, counts, falling, published,
  changes, table, lost, where

Phase == INSTANCE Phases WITH
  now <- phaseNow, stepping <- phaseStep, queue <- phaseQueue

Edge == INSTANCE EdgeWaits

\* Finite sets and their sizes are the same in the two modules as here.
LEMMA PhaseSizes ==
  /\ \A S : Phase!Cardinality(S) = Cardinality(S)
  /\ \A S : Phase!IsFiniteSet(S) <=> IsFiniteSet(S)
PROOF BY DEF Phase!Cardinality, Cardinality, Phase!IsFiniteSet, IsFiniteSet

\* Finite sets and their sizes are the same in the two modules as here.
LEMMA EdgeSizes ==
  /\ \A S : Edge!Cardinality(S) = Cardinality(S)
  /\ \A S : Edge!IsFiniteSet(S) <=> IsFiniteSet(S)
PROOF BY DEF Edge!Cardinality, Cardinality, Edge!IsFiniteSet, IsFiniteSet

-----------------------------------------------------------------------------
(* The order of the registrations.                                         *)

\* The fields of a registration are numbers.
LEMMA RegistrationType ==
  ASSUME TimersAssumption, NEW r \in Registrations
  PROVE  /\ r.coro \in Coros
         /\ r.at \in 0..Forever /\ r.at \in Nat
         /\ r.seq \in 1..MaxTimers /\ r.seq \in Nat
PROOF BY DEF TimersAssumption, Registrations

\* TimerRegistrationLater orders registrations of different sequence numbers.
LEMMA LaterOrder ==
  ASSUME TimersAssumption, NEW r \in Registrations, NEW s \in Registrations
  PROVE  /\ ~(Later(r, s) /\ Later(s, r))
         /\ r.seq # s.seq => Later(r, s) \/ Later(s, r)
         /\ Later(s, r) => r.at <= s.at
PROOF BY RegistrationType, SMT DEF Later

\* A set of numbers that is not empty has a least member.
LEMMA LeastNumber ==
  ASSUME NEW S \in SUBSET Nat, S # {}
  PROVE  \E m \in S : \A n \in S : m <= n
PROOF
  <1> DEFINE Less == OpToRel(<, Nat)
  <1>1. IsWellFoundedOn(Less, Nat)
    BY NatLessThanWellFounded, Zenon
  <1>2. \A x, y \in Nat : y < x => <<y, x>> \in Less
    BY DEF OpToRel
  <1> HIDE DEF Less
  <1>3. PICK m \in S : \A n \in S : <<n, m>> \notin Less
    BY <1>1, WFMin
  <1>4. \A n \in S : ~(n < m)
    BY <1>2, <1>3
  <1> QED BY <1>4

\* The heap has one top.
LEMMA EarliestIsOne ==
  ASSUME TimersAssumption, NEW S \in SUBSET Registrations,
         NEW r \in Earliest(S), NEW s \in Earliest(S)
  PROVE  r = s
PROOF
  <1>1. r \in Registrations /\ s \in Registrations
    BY DEF Earliest
  <1>2. r # s => Later(s, r) /\ Later(r, s)
    BY DEF Earliest
  <1> QED BY <1>1, <1>2, LaterOrder

\* A heap that is not empty has a top.
LEMMA EarliestExists ==
  ASSUME TimersAssumption, NEW S \in SUBSET Registrations, S # {},
         \A r, s \in S : r.seq = s.seq => r = s
  PROVE  Earliest(S) # {}
PROOF
  <1> DEFINE At == {n \in Nat : \E r \in S : r.at = n}
  <1>1. At # {} /\ At \subseteq Nat
    <2>1. PICK r \in S : TRUE
      OBVIOUS
    <2>2. r.at \in Nat
      BY RegistrationType
    <2> QED BY <2>2
  <1>2. PICK a \in At : \A n \in At : a <= n
    <2> HIDE DEF At
    <2> QED BY <1>1, LeastNumber
  <1> DEFINE SeqOf == {n \in Nat : \E r \in S : r.at = a /\ r.seq = n}
  <1>3. SeqOf # {} /\ SeqOf \subseteq Nat
    <2>1. PICK r \in S : r.at = a
      BY <1>2
    <2>2. r.seq \in Nat
      BY RegistrationType
    <2> QED BY <2>1, <2>2
  <1>4. PICK q \in SeqOf : \A n \in SeqOf : q <= n
    <2> HIDE DEF SeqOf
    <2> QED BY <1>3, LeastNumber
  <1>5. PICK r \in S : r.at = a /\ r.seq = q
    BY <1>4
  <1>6. ASSUME NEW s \in S, r # s
        PROVE  Later(s, r)
    <2>1. s.at \in Nat /\ s.seq \in Nat /\ r.at \in Nat /\ r.seq \in Nat
      BY RegistrationType
    <2>2. a <= s.at
      BY <1>2, <2>1
    <2>3. s.at = a => q <= s.seq
      BY <1>4, <2>1
    <2>4. s.seq # q
      BY <1>5, <1>6
    <2> HIDE DEF At, SeqOf
    <2> QED BY <1>5, <2>1, <2>2, <2>3, <2>4, SMT DEF Later
  <1> QED BY <1>5, <1>6 DEF Earliest

-----------------------------------------------------------------------------
(* The timer queue.                                                        *)

\* The registrations that are still awaited.
Awaited == {r \in Queued : Valid(r)}

\* discard_stale_timers leaves a queue in order that holds every registration
\* still awaited.
LEMMA DiscardStale ==
  ASSUME TimersAssumption, IInv, NEW S \in SUBSET Queued
  PROVE  LET first == Earliest(S)
         IN /\ first \subseteq S /\ Remaining(first) \subseteq Queued
            /\ S \subseteq first \cup Remaining(first)
            /\ \A r \in first, s \in Remaining(first) : Later(s, r)
            /\ first = {} => Remaining(first) = {}
            /\ \A r, s \in first : r = s
            /\ S # {} => first # {}
PROOF
  <1> DEFINE first == Earliest(S)
  <1> DEFINE rest == Remaining(first)
  <1>1. S \in SUBSET Registrations /\ \A r, s \in S : r.seq = s.seq => r = s
    BY DEF IInv, TypeOK, Numbered, Queued
  <1>2. rest = IF first = {} THEN {} ELSE After(Queued, first)
    BY DEF Remaining, Queued
  <1>3. first \subseteq S /\ rest \subseteq Queued
    BY <1>2 DEF Earliest, After
  <1>4. S # {} => first # {}
    BY <1>1, EarliestExists
  <1>5. \A r, s \in first : r = s
    BY <1>1, EarliestIsOne
  <1>6. \A r \in first, s \in rest : Later(s, r)
    BY <1>2 DEF After
  <1>7. ASSUME NEW s \in S, s \notin first
        PROVE  s \in rest
    <2>1. first # {}
      BY <1>4
    <2>2. ASSUME NEW r \in first
          PROVE  Later(s, r)
      BY <2>2, <1>7 DEF Earliest
    <2> QED BY <1>2, <2>1, <2>2 DEF After
  <1>8. first = {} => rest = {}
    BY <1>2
  <1> QED BY <1>3, <1>4, <1>5, <1>6, <1>7, <1>8

\* A registration is valid if its coroutine still waits for it.
LEMMA ValidIsCurrent ==
  ASSUME TimersAssumption, IInv, NEW r \in Queued
  PROVE  /\ r \in Registrations
         /\ Valid(r) <=> timer[r.coro] = r.seq
         /\ r.seq < sequence
PROOF
  <1>1. r \in Registrations
    BY DEF IInv, TypeOK, Queued
  <1>2. r.seq # 0 /\ r.coro \in Coros
    BY <1>1, RegistrationType
  <1>3. timer[r.coro] = r.seq => state[r.coro] = "waiting"
    BY <1>2 DEF IInv, Numbered
  <1>4. r.seq < sequence
    BY DEF IInv, Numbered
  <1> QED BY <1>1, <1>3, <1>4 DEF Valid

\* When nothing was reported as changed, the whole queue is at or after the
\* deadline last reported.
LEMMA QueuedFromDeadline ==
  ASSUME TimersAssumption, IInv, Reported, NEW r \in Queued
  PROVE  r.at \in Nat /\ deadline <= r.at
PROOF
  <1>1. r \in Registrations /\ r.at \in Nat
    BY RegistrationType DEF IInv, TypeOK, Queued
  <1>2. CASE r \in next
    BY <1>1, <1>2 DEF Reported
  <1>3. CASE r \in heap
    <2>1. PICK n \in next : TRUE
      BY <1>3 DEF IInv, Registered
    <2>2. n \in Registrations /\ n.at = deadline
      BY <2>1 DEF IInv, TypeOK, Reported
    <2>3. Later(r, n)
      BY <1>3 DEF IInv, Registered
    <2> QED BY <1>1, <2>2, <2>3, LaterOrder
  <1> QED BY <1>2, <1>3 DEF Queued

\* A step that starts when nothing is due finds nothing of the queue due.
LEMMA NothingDue ==
  ASSUME TimersAssumption, IInv, ~\E r \in next : Due(r), NEW r \in Queued
  PROVE  now < r.at
PROOF
  <1>1. /\ now \in Nat /\ r \in Registrations /\ r.at \in Nat
    BY RegistrationType DEF IInv, TypeOK, Queued
  <1>2. CASE r \in next
    BY <1>1, <1>2 DEF Due
  <1>3. CASE r \in heap
    <2>1. PICK n \in next : TRUE
      BY <1>3 DEF IInv, Registered
    <2>2. n \in Registrations /\ n.at \in Nat /\ now < n.at
      BY <1>1, <2>1, RegistrationType DEF IInv, TypeOK, Due
    <2>3. n.at <= r.at
      BY <1>1, <1>3, <2>2, LaterOrder DEF IInv, Registered
    <2> QED BY <1>1, <2>2, <2>3
  <1> QED BY <1>2, <1>3 DEF Queued

-----------------------------------------------------------------------------
(* A DPI step begins.                                                      *)

\* advance_time resumes what is due and leaves a queue in order in which nothing
\* is due any more.
LEMMA AdvanceTimeStep ==
  ASSUME TimersAssumption, IInv, AdvanceTime,
         UNCHANGED <<now, sequence>>
  PROVE  /\ state' \in [Coros -> {"ready", "waiting", "done"}]
         /\ timer' \in [Coros -> 0..MaxTimers]
         /\ next' \subseteq Queued /\ heap' \subseteq Queued /\ changed' \in BOOLEAN
         /\ Registered' /\ Numbered'
         /\ \A r \in Queued' : now < r.at
         /\ (\E r \in next : Due(r)) => changed'
         /\ (~\E r \in next : Due(r)) => UNCHANGED <<state, timer, next, heap, changed>>
PROOF
  <1>1. CASE ~\E r \in next : Due(r)
    <2>1. UNCHANGED <<state, timer, next, heap, changed>>
      BY <1>1 DEF AdvanceTime
    <2>2. Registered' /\ Numbered'
      BY <2>1 DEF IInv, Registered, Numbered, Queued, Later
    <2>3. \A r \in Queued' : now < r.at
      BY <1>1, <2>1, NothingDue DEF Queued
    <2> QED BY <1>1, <2>1, <2>2, <2>3 DEF IInv, TypeOK, Queued
  <1>2. CASE \E r \in next : Due(r)
    <2> DEFINE passed == {r \in Awaited : Due(r)}
    <2> DEFINE first == Earliest(Awaited \ passed)
    <2>1. /\ next' = first /\ heap' = Remaining(first) /\ changed' = TRUE
          /\ state' = [c \in Coros |->
                        IF \E r \in passed : r.coro = c THEN "ready" ELSE state[c]]
          /\ timer' = [c \in Coros |->
                        IF \E r \in passed : r.coro = c THEN 0 ELSE timer[c]]
      BY <1>2 DEF AdvanceTime, Awaited, Queued
    <2>2. passed \subseteq Awaited /\ Awaited \subseteq Queued
      BY DEF Awaited
    <2>3. \A r \in Awaited \ passed : now < r.at
      BY RegistrationType, ValidIsCurrent DEF Awaited, Due, IInv, TypeOK
    <2> HIDE DEF passed
    <2>4. Awaited \ passed \in SUBSET Queued
      BY <2>2
    <2>5. /\ first \subseteq Awaited \ passed /\ Remaining(first) \subseteq Queued
          /\ Awaited \ passed \subseteq first \cup Remaining(first)
          /\ \A r \in first, s \in Remaining(first) : Later(s, r)
          /\ first = {} => Remaining(first) = {}
          /\ \A r, s \in first : r = s
      BY <2>4, DiscardStale
    <2> HIDE DEF first
    <2>6. next' \subseteq Queued /\ heap' \subseteq Queued /\ Queued' \subseteq Queued
      BY <2>1, <2>4, <2>5 DEF Queued
    <2>7. ASSUME NEW r \in Queued'
          PROVE  now < r.at
      <3>1. CASE r \in next'
        BY <2>1, <2>3, <2>5, <3>1
      <3>2. CASE r \in heap'
        <4>1. PICK n \in first : TRUE
          BY <2>1, <2>5, <3>2
        <4>2. now < n.at /\ n \in Registrations /\ r \in Registrations /\ Later(r, n)
          BY <2>1, <2>3, <2>4, <2>5, <2>6, <3>2, <4>1 DEF IInv, TypeOK, Queued
        <4>3. n.at <= r.at /\ n.at \in Nat /\ r.at \in Nat /\ now \in Nat
          BY <4>2, LaterOrder, RegistrationType DEF IInv, TypeOK
        <4> QED BY <4>2, <4>3
      <3> QED BY <3>1, <3>2 DEF Queued
    <2>8. ASSUME NEW c \in Coros, timer'[c] # 0
          PROVE  /\ timer'[c] = timer[c] /\ state'[c] = "waiting"
                 /\ \E r \in Queued' : r.coro = c /\ r.seq = timer'[c]
      <3>1. (~\E r \in passed : r.coro = c) /\ timer'[c] = timer[c] /\ state'[c] = state[c]
        BY <2>1, <2>8
      <3>2. state[c] = "waiting"
        BY <2>8, <3>1 DEF IInv, Numbered
      <3>3. PICK r \in Queued : r.coro = c /\ r.seq = timer[c]
        BY <2>8, <3>1, <3>2 DEF IInv, Registered
      <3>4. r \in Awaited \ passed
        BY <3>1, <3>2, <3>3 DEF Awaited, Valid
      <3>5. r \in Queued'
        BY <2>1, <2>5, <3>4 DEF Queued
      <3> QED BY <3>1, <3>2, <3>3, <3>5
    <2>9. Registered'
      <3>1. /\ \A r \in next', s \in heap' : Later(s, r)
            /\ next' = {} => heap' = {}
        BY <2>1, <2>5
      <3> QED BY <2>8, <3>1 DEF Registered, Later
    <2>10. Numbered'
      <3>1. \A r, s \in next' : r = s
        BY <2>1, <2>5
      <3>2. /\ \A r, s \in Queued' : r.seq = s.seq => r = s
            /\ \A r \in Queued' : r.seq < sequence'
        BY <2>6 DEF IInv, Numbered
      <3> QED BY <2>8, <3>1, <3>2 DEF Numbered
    <2>11. /\ state' \in [Coros -> {"ready", "waiting", "done"}]
           /\ timer' \in [Coros -> 0..MaxTimers]
      BY <2>1 DEF IInv, TypeOK, TimersAssumption
    <2> QED BY <1>2, <2>1, <2>6, <2>7, <2>9, <2>10, <2>11
  <1> QED BY <1>1, <1>2

\* A process that steps may be the one that covered the deadline: then the step
\* pops the earliest timer, stale or not, and has a change to report.
LEMMA BeginStepStep ==
  ASSUME TimersAssumption, IInv, NEW p \in Steppers, BeginStep(p),
         owner' = owner, wakeups' \subseteq wakeups,
         wakeups' = wakeups \/ deadline <= now
  PROVE  IInv'
PROOF
  <1>1. AdvanceTime /\ UNCHANGED <<now, sequence>>
    BY DEF BeginStep
  <1>2. stepping = "none" /\ stepping' = p /\ p # "none"
    BY DEF BeginStep, Steppers
  <1>3. UNCHANGED <<now, sequence, deadline, target, finished>>
    BY DEF BeginStep
  <1>4. /\ state' \in [Coros -> {"ready", "waiting", "done"}]
        /\ timer' \in [Coros -> 0..MaxTimers]
        /\ next' \subseteq Queued /\ heap' \subseteq Queued /\ changed' \in BOOLEAN
        /\ Registered' /\ Numbered'
        /\ \A r \in Queued' : now < r.at
        /\ (\E r \in next : Due(r)) => changed'
        /\ (~\E r \in next : Due(r)) => UNCHANGED <<state, timer, next, heap, changed>>
    BY <1>1, AdvanceTimeStep
  <1>5. TypeOK'
    BY <1>2, <1>3, <1>4 DEF IInv, TypeOK, Queued
  <1>6. WrapperInv'
    BY <1>3 DEF IInv, WrapperInv, Unread
  <1>7. Reported
    BY <1>2 DEF IInv, ReportInv
  <1>8. ASSUME ~changed'
        PROVE  Reported'
    <2>1. (~\E r \in next : Due(r)) /\ next' = next
      BY <1>4, <1>8
    <2>2. wakeups' = wakeups
      <3>1. ASSUME deadline <= now
            PROVE  \E r \in next : Due(r)
        <4>1. deadline # Forever
          BY <3>1 DEF IInv, TypeOK, TimersAssumption
        <4>2. PICK r \in next : r.at = deadline
          BY <1>7, <4>1 DEF Reported
        <4> QED BY <3>1, <4>2 DEF Due
      <3> QED BY <2>1, <3>1
    <2> QED BY <1>3, <1>7, <2>1, <2>2 DEF Reported
  <1>9. ReportInv'
    BY <1>2, <1>3, <1>4, <1>8 DEF ReportInv
  <1> QED BY <1>4, <1>5, <1>6, <1>9 DEF IInv

-----------------------------------------------------------------------------
(* The coroutines inside a step.                                           *)

\* A wait that ends otherwise leaves its registration behind as a stale one.
LEMMA WaitEndsStep ==
  ASSUME TimersAssumption, IInv, NEW c \in Coros,
         AwaitOther(c) \/ ResumeByOther(c) \/ Finish(c)
  PROVE  IInv'
PROOF
  <1>1. /\ stepping # "none"
        /\ UNCHANGED <<now, sequence, next, heap, changed, stepping, wrapperVars>>
    BY DEF AwaitOther, ResumeByOther, Finish
  <1>2. /\ state' \in [Coros -> {"ready", "waiting", "done"}]
        /\ timer' \in [Coros -> 0..MaxTimers]
        /\ \A d \in Coros : timer'[d] # 0 =>
             timer'[d] = timer[d] /\ state'[d] = "waiting" /\ state[d] = "waiting"
    <2>1. CASE AwaitOther(c)
      BY <2>1 DEF AwaitOther, IInv, TypeOK, Numbered
    <2>2. CASE ResumeByOther(c)
      BY <2>2 DEF ResumeByOther, IInv, TypeOK, Numbered, TimersAssumption
    <2>3. CASE Finish(c)
      BY <2>3 DEF Finish, IInv, TypeOK, Numbered, TimersAssumption
    <2> QED BY <2>1, <2>2, <2>3
  <1>3. TypeOK'
    BY <1>1, <1>2 DEF IInv, TypeOK, wrapperVars
  <1>4. Registered'
    BY <1>1, <1>2 DEF IInv, Registered, Queued, Later
  <1>5. Numbered'
    BY <1>1, <1>2 DEF IInv, Numbered, Queued
  <1>6. WrapperInv'
    BY <1>1 DEF IInv, WrapperInv, wrapperVars
  <1>7. ReportInv'
    BY <1>1 DEF IInv, ReportInv, Reported, Queued, wrapperVars
  <1> QED BY <1>3, <1>4, <1>5, <1>6, <1>7 DEF IInv

\* The deadline of a Delay is later than now, even where it saturates.
LEMMA DeadlineAhead ==
  ASSUME TimersAssumption, IInv, NEW d \in Delays
  PROVE  DeadlineOf(d) \in 0..Forever /\ now < DeadlineOf(d)
PROOF BY DEF TimersAssumption, IInv, TypeOK, DeadlineOf

\* The earliest of one registration and the new one.
LEMMA EarliestOfTwo ==
  ASSUME TimersAssumption, NEW r \in Registrations, NEW F \in SUBSET Registrations,
         \A n, m \in F : n = m, \A n \in F : n.seq < r.seq
  PROVE  LET first == Earliest(F \cup {r})
         IN /\ first \subseteq F \cup {r} /\ first # {}
            /\ \A n, m \in first : n = m
            /\ r \in first => \A n \in F : Later(n, r)
            /\ r \notin first => first = F /\ \A n \in F : Later(r, n)
PROOF
  <1> DEFINE S == F \cup {r}
  <1>1. S \in SUBSET Registrations /\ S # {}
    OBVIOUS
  <1>2. \A n, m \in S : n.seq = m.seq => n = m
    BY RegistrationType
  <1>3. Earliest(S) # {} /\ Earliest(S) \subseteq S
    BY <1>1, <1>2, EarliestExists DEF Earliest
  <1>4. \A n, m \in Earliest(S) : n = m
    BY <1>1, EarliestIsOne
  <1>5. \A n \in F : n # r
    BY RegistrationType
  <1>6. r \in Earliest(S) => \A n \in F : Later(n, r)
    BY <1>5 DEF Earliest
  <1>7. ASSUME r \notin Earliest(S)
        PROVE  Earliest(S) = F /\ \A n \in F : Later(r, n)
    <2>1. PICK n \in F : n \in Earliest(S)
      BY <1>3, <1>7
    <2>2. F = {n}
      BY <2>1
    <2>3. Later(r, n)
      BY <1>5, <2>1 DEF Earliest
    <2>4. Earliest(S) = F
      BY <1>3, <1>4, <2>1, <2>2
    <2> QED BY <2>2, <2>3, <2>4
  <1> QED BY <1>3, <1>4, <1>6, <1>7

\* The deadline of next_timer_ once stale registrations are discarded.
LEMMA NextDeadline ==
  ASSUME TimersAssumption, IInv
  PROVE  /\ NextTimerDeadline \in 0..Forever
         /\ FirstValid = {} => NextTimerDeadline = Forever
         /\ \A r \in FirstValid : r.at = NextTimerDeadline
         /\ \A r \in FirstValid : r \in Queued /\ Valid(r)
         /\ FirstValid = Earliest(Awaited) /\ Awaited \in SUBSET Queued
PROOF
  <1>1. FirstValid = Earliest(Awaited) /\ Awaited \in SUBSET Queued
    BY DEF FirstValid, Awaited, Queued
  <1>2. \A r \in FirstValid : r \in Queued /\ Valid(r)
    BY <1>1 DEF Earliest, Awaited
  <1>3. \A r, s \in FirstValid : r = s
    BY <1>1, DiscardStale
  <1>4. ASSUME NEW r \in FirstValid
        PROVE  r.at = NextTimerDeadline /\ r.at \in 0..Forever
    <2>1. FirstValid = {r}
      BY <1>3
    <2>2. (CHOOSE s \in FirstValid : TRUE) = r
      BY <2>1
    <2>3. r.at \in 0..Forever
      BY <1>2, ValidIsCurrent, RegistrationType
    <2> QED BY <2>1, <2>2, <2>3 DEF NextTimerDeadline
  <1>5. FirstValid = {} => NextTimerDeadline = Forever
    BY DEF NextTimerDeadline
  <1>6. NextTimerDeadline \in 0..Forever
    BY <1>4, <1>5 DEF TimersAssumption
  <1> QED BY <1>1, <1>2, <1>4, <1>5, <1>6

\* TimerRegistrationLater is transitive.
LEMMA LaterTransitive ==
  ASSUME TimersAssumption, NEW r \in Registrations, NEW s \in Registrations,
         NEW t \in Registrations, Later(r, s), Later(s, t)
  PROVE  Later(r, t)
PROOF BY RegistrationType, SMT DEF Later

\* With nothing to report, next_timer_ is the earliest Delay awaited.
LEMMA NextIsFirstValid ==
  ASSUME TimersAssumption, IInv, ~NextIsStale
  PROVE  FirstValid = next
PROOF
  <1>1. FirstValid = Earliest(Awaited) /\ Awaited \in SUBSET Queued
    BY NextDeadline
  <1>2. \A r, s \in FirstValid : r = s
    BY <1>1, DiscardStale
  <1>3. ASSUME NEW n \in next
        PROVE  n \in FirstValid
    <2>1. n \in Awaited
      BY DEF Awaited, Queued, NextIsStale
    <2>2. ASSUME NEW s \in Awaited, n # s
          PROVE  Later(s, n)
      <3>1. s \notin next
        BY <2>2 DEF IInv, Numbered
      <3>2. s \in heap
        BY <1>1, <3>1 DEF Queued
      <3> QED BY <3>2 DEF IInv, Registered
    <2> QED BY <1>1, <2>1, <2>2 DEF Earliest
  <1>4. ASSUME next = {}
        PROVE  FirstValid = {}
    BY <1>1, <1>4 DEF Queued, Earliest, IInv, Registered
  <1> QED BY <1>2, <1>3, <1>4

\* A new Delay takes the place of next_timer_ if it is earlier, and only then, or
\* when stale registrations were discarded, is there something to report.
LEMMA AwaitDelayStep ==
  ASSUME TimersAssumption, IInv, NEW c \in Coros, NEW d \in Delays, AwaitDelay(c, d)
  PROVE  IInv'
PROOF
  <1> DEFINE r == [coro |-> c, at |-> DeadlineOf(d), seq |-> sequence]
  <1> DEFINE F == FirstValid
  <1> DEFINE R == Remaining(F)
  <1> DEFINE first == Earliest(F \cup {r})
  <1>1. /\ stepping # "none" /\ state[c] = "ready" /\ sequence <= MaxTimers
        /\ next' = first /\ heap' = ({r} \cup F \cup R) \ first
        /\ changed' = (changed \/ NextIsStale \/ r.at < NextTimerDeadline)
        /\ state' = [state EXCEPT ![c] = "waiting"]
        /\ timer' = [timer EXCEPT ![c] = sequence]
        /\ sequence' = sequence + 1
        /\ UNCHANGED <<now, stepping, wrapperVars>>
    BY DEF AwaitDelay
  <1>2. /\ sequence \in Nat /\ sequence \in 1..MaxTimers
        /\ now \in Nat /\ MaxTimers \in Nat
    BY <1>1 DEF IInv, TypeOK, TimersAssumption
  <1>3. r \in Registrations /\ r.coro = c /\ r.seq = sequence
        /\ r.at \in 0..Forever /\ now < r.at
    BY <1>2, DeadlineAhead DEF Registrations
  <1>4. /\ F \subseteq Awaited /\ R \subseteq Queued /\ Awaited \subseteq F \cup R
        /\ \A n \in F, s \in R : Later(s, n)
        /\ F = {} => R = {}
        /\ \A n, m \in F : n = m
        /\ Awaited \subseteq Queued
    BY NextDeadline, DiscardStale
  <1>5. /\ NextTimerDeadline \in 0..Forever
        /\ F = {} => NextTimerDeadline = Forever
        /\ \A n \in F : n.at = NextTimerDeadline
    BY NextDeadline
  <1>6. ~NextIsStale => F = next
    BY NextIsFirstValid
  <1> HIDE DEF r, F, R
  <1>7. ASSUME NEW n \in Queued
        PROVE  n \in Registrations /\ n.seq < sequence /\ n # r
               /\ (Valid(n) <=> timer[n.coro] = n.seq)
    BY <1>2, <1>3, ValidIsCurrent
  <1>8. F \in SUBSET Registrations /\ R \in SUBSET Registrations
        /\ \A n \in F : n.seq < r.seq
    BY <1>3, <1>4, <1>7
  <1>9. /\ first \subseteq F \cup {r} /\ first # {}
        /\ \A n, m \in first : n = m
        /\ r \in first => \A n \in F : Later(n, r)
        /\ r \notin first => first = F /\ \A n \in F : Later(r, n)
    BY <1>3, <1>4, <1>8, EarliestOfTwo
  <1> HIDE DEF first
  <1>10. Queued' = {r} \cup F \cup R /\ \A n \in Queued' : n = r \/ n \in Queued
    BY <1>1, <1>4, <1>9 DEF Queued
  <1>11. TypeOK'
    <2>1. next' \subseteq Registrations /\ heap' \subseteq Registrations
      BY <1>1, <1>3, <1>8, <1>9
    <2>2. sequence' \in 1..MaxTimers + 1 /\ sequence \in 0..MaxTimers
      BY <1>1, <1>2
    <2>3. /\ state' \in [Coros -> {"ready", "waiting", "done"}]
          /\ timer' \in [Coros -> 0..MaxTimers]
      BY <1>1, <2>2 DEF IInv, TypeOK
    <2>4. changed' \in BOOLEAN
      BY <1>1
    <2> QED BY <1>1, <2>1, <2>2, <2>3, <2>4 DEF IInv, TypeOK, wrapperVars
  <1>12. Registered'
    <2>1. ASSUME NEW n \in first, NEW s \in heap'
          PROVE  Later(s, n)
      <3>1. CASE r \in first
        <4>1. n = r /\ s \in F \cup R
          BY <1>1, <1>9, <3>1
        <4>2. CASE s \in F
          BY <1>9, <3>1, <4>1, <4>2
        <4>3. CASE s \in R
          <5>1. PICK f \in F : TRUE
            BY <1>4, <4>3
          <5> QED BY <1>3, <1>4, <1>8, <1>9, <3>1, <4>1, <4>3, <5>1, LaterTransitive
        <4> QED BY <4>1, <4>2, <4>3
      <3>2. CASE r \notin first
        BY <1>1, <1>4, <1>9, <3>2
      <3> QED BY <3>1, <3>2
    <2>2. ASSUME NEW e \in Coros, state'[e] = "waiting", timer'[e] # 0
          PROVE  \E n \in Queued' : n.coro = e /\ n.seq = timer'[e]
      <3>1. CASE e = c
        BY <1>1, <1>3, <1>10, <3>1 DEF IInv, TypeOK
      <3>2. CASE e # c
        <4>1. state[e] = "waiting" /\ timer'[e] = timer[e] /\ timer[e] # 0
          BY <1>1, <2>2, <3>2 DEF IInv, TypeOK
        <4>2. PICK n \in Queued : n.coro = e /\ n.seq = timer[e]
          BY <4>1 DEF IInv, Registered
        <4>3. n \in Awaited
          BY <4>1, <4>2 DEF Awaited, Valid
        <4> QED BY <1>4, <1>10, <4>1, <4>2, <4>3
      <3> QED BY <3>1, <3>2
    <2> QED BY <1>1, <1>9, <2>1, <2>2 DEF Registered, Later
  <1>13. Numbered'
    <2>1. \A n \in Queued' : n.seq \in Nat /\ n.seq < sequence'
      BY <1>1, <1>2, <1>3, <1>7, <1>10, RegistrationType
    <2>2. \A n, s \in Queued' : n.seq = s.seq => n = s
      <3>1. \A n, s \in Queued : n.seq = s.seq => n = s
        BY DEF IInv, Numbered
      <3>2. \A n \in Queued : n.seq # r.seq
        BY <1>2, <1>3, <1>7, RegistrationType
      <3> QED BY <1>10, <3>1, <3>2
    <2>3. \A e \in Coros : timer'[e] # 0 => state'[e] = "waiting"
      BY <1>1 DEF IInv, TypeOK, Numbered
    <2> QED BY <1>1, <1>9, <2>1, <2>2, <2>3 DEF Numbered
  <1>14. WrapperInv'
    BY <1>1 DEF IInv, WrapperInv, wrapperVars
  <1>15. ASSUME ~changed'
         PROVE  Reported'
    <2>1. ~changed /\ F = next /\ ~(r.at < NextTimerDeadline)
      BY <1>1, <1>6, <1>15
    <2>2. Reported
      BY <1>1, <2>1 DEF IInv, ReportInv
    <2>3. CASE F = {}
      <3>1. next' = {r} /\ r.at = Forever
        BY <1>1, <1>3, <1>5, <1>9, <2>1, <2>3 DEF TimersAssumption
      <3>2. deadline = Forever
        BY <2>1, <2>2, <2>3 DEF Reported
      <3> QED BY <1>1, <3>1, <3>2 DEF Reported, wrapperVars
    <2>4. CASE F # {}
      <3>1. PICK n \in F : TRUE
        BY <2>4
      <3>2. n.at <= r.at /\ n.seq < r.seq /\ n.at \in Nat /\ r.at \in Nat
            /\ n.seq \in Nat /\ r.seq \in Nat
        BY <1>3, <1>5, <1>8, <2>1, <3>1, RegistrationType DEF TimersAssumption
      <3>3. ~Later(n, r)
        BY <3>2 DEF Later
      <3>4. next' = next
        BY <1>1, <1>9, <2>1, <3>1, <3>3
      <3> QED BY <1>1, <2>2, <3>4 DEF Reported, wrapperVars
    <2> QED BY <2>3, <2>4
  <1>16. ReportInv'
    <2>1. \A n \in Queued : now < n.at
      BY <1>1 DEF IInv, ReportInv
    <2>2. \A n \in Queued' : now' < n.at
      BY <1>1, <1>3, <1>10, <2>1
    <2> QED BY <1>1, <1>15, <2>2 DEF ReportInv
  <1> QED BY <1>11, <1>12, <1>13, <1>14, <1>16 DEF IInv

-----------------------------------------------------------------------------
(* A DPI step ends, and the processes of the wrapper.                      *)

\* timer_generation++ leaves no wakeup current.
LEMMA OutdatedStep ==
  ASSUME TimersAssumption, IInv
  PROVE  Outdated \subseteq Wakeups /\ \A w \in Outdated : ~w.current
PROOF
  <1>1. ASSUME NEW v \in Wakeups
        PROVE  LET o == [v EXCEPT !.current = FALSE] IN o \in Wakeups /\ ~o.current
    BY DEF Wakeups
  <1>2. wakeups \subseteq Wakeups
    BY DEF IInv, TypeOK
  <1>3. \A w \in Outdated : \E v \in wakeups : w = [v EXCEPT !.current = FALSE]
    BY DEF Outdated
  <1> QED BY <1>1, <1>2, <1>3

\* What service_requests leaves of the wakeups: the old ones are void, and a new
\* one is forked for the deadline reported or will read it.
LEMMA ArmStep ==
  ASSUME TimersAssumption, IInv, NEW at \in {Unread, deadline'},
         deadline' \in 0..Forever, deadline' # Forever, target' = target, Arm(at)
  PROVE  /\ owner' \in {"run", "delay", "kick"} /\ wakeups' \subseteq Wakeups
         /\ owner' = "delay" <=> owner = "delay"
         /\ \A w \in wakeups' : w.current => w.at \in {Unread, deadline'}
         /\ \/ owner' = "run"
            \/ owner' = "delay" /\ target' <= deadline'
            \/ \E w \in wakeups' : w.current
PROOF
  <1>1. /\ owner \in {"run", "delay", "kick"} /\ target \in 0..Forever
        /\ wakeups \subseteq Wakeups /\ Forever \in Nat
        /\ owner = "delay" <=> target # Forever
    BY DEF IInv, TypeOK, WrapperInv, TimersAssumption
  <1>2. /\ Outdated \subseteq Wakeups
        /\ \A w \in Outdated : ~w.current
    BY OutdatedStep
  <1>3. [at |-> at, current |-> TRUE] \in Wakeups
    BY <1>1 DEF Wakeups, Unread
  <1>4. CASE target # Forever /\ deadline' < target
    <2> DEFINE v == [at |-> at, current |-> TRUE]
    <2>1. v.at = at /\ v.current
      OBVIOUS
    <2>2. owner' = owner /\ wakeups' = Outdated \cup {v}
      BY <1>1, <1>4 DEF Arm
    <2>3. v \in Wakeups
      BY <1>3
    <2> HIDE DEF v
    <2> QED BY <1>1, <1>2, <2>1, <2>2, <2>3
  <1>5. CASE target # Forever /\ ~(deadline' < target)
    BY <1>1, <1>2, <1>5 DEF Arm
  <1>6. CASE target = Forever
    BY <1>1, <1>2, <1>6 DEF Arm
  <1> QED BY <1>4, <1>5, <1>6

\* The wrapper learns of every change of the earliest deadline, and none that it
\* is told of is due.
LEMMA EndStepStep ==
  ASSUME TimersAssumption, IInv, EndStep
  PROVE  IInv' /\ deadline' > now
PROOF
  <1>1. /\ stepping # "none" /\ stepping' = "none" /\ finished' \in BOOLEAN
        /\ UNCHANGED <<now, state, timer, sequence, target>>
    BY DEF EndStep
  <1>2. /\ now \in Nat /\ Forever \in Nat /\ now < Forever
        /\ \A r \in Queued : now < r.at
    BY <1>1 DEF IInv, TypeOK, ReportInv, TimersAssumption
  <1>3. CASE ~changed
    <2>1. UNCHANGED <<next, heap, changed, deadline, owner, wakeups>>
      BY <1>3 DEF EndStep
    <2>2. Reported
      BY <1>3 DEF IInv, ReportInv
    <2>3. Reported'
      BY <1>1, <2>1, <2>2 DEF Reported
    <2>4. now < deadline
      BY <1>2, <2>2 DEF Reported, Queued
    <2>5. ReportInv'
      BY <1>1, <2>1, <2>3, <2>4 DEF ReportInv, IInv, TypeOK
    <2>6. TypeOK'
      BY <1>1, <2>1 DEF IInv, TypeOK
    <2>7. Registered' /\ Numbered' /\ WrapperInv'
      BY <1>1, <2>1
      DEF IInv, Registered, Numbered, WrapperInv, Queued, Later, Unread
    <2> QED BY <2>1, <2>4, <2>5, <2>6, <2>7 DEF IInv, TypeOK
  <1>4. CASE changed
    <2> DEFINE at == IF NextTimerDeadline = now + 1 THEN Unread ELSE NextTimerDeadline
    <2>1. /\ next' = FirstValid /\ heap' = Remaining(FirstValid)
          /\ changed' = NextIsStale /\ deadline' = NextTimerDeadline
          /\ IF NextTimerDeadline = Forever
             THEN wakeups' = Outdated /\ owner' = owner
             ELSE Arm(at)
      BY <1>4 DEF EndStep
    <2>2. /\ FirstValid \subseteq Awaited /\ Remaining(FirstValid) \subseteq Queued
          /\ Awaited \subseteq FirstValid \cup Remaining(FirstValid)
          /\ \A r \in FirstValid, s \in Remaining(FirstValid) : Later(s, r)
          /\ FirstValid = {} => Remaining(FirstValid) = {}
          /\ \A r, s \in FirstValid : r = s
          /\ Awaited \subseteq Queued
      BY NextDeadline, DiscardStale
    <2>3. /\ deadline' \in 0..Forever
          /\ next' = {} => deadline' = Forever
          /\ \A r \in next' : r.at = deadline'
      BY <2>1, NextDeadline
    <2>4. Queued' \subseteq Queued /\ next' \subseteq Queued
      BY <2>1, <2>2 DEF Queued
    <2>5. now < deadline'
      <3>1. \A r \in next' : now < r.at
        BY <1>2, <2>4
      <3> QED BY <1>2, <2>3, <3>1
    <2>6. /\ owner' \in {"run", "delay", "kick"} /\ wakeups' \subseteq Wakeups
          /\ owner' = "delay" <=> owner = "delay"
          /\ \A w \in wakeups' : w.current => w.at \in {Unread, deadline'}
          /\ deadline' # Forever =>
               \/ owner' = "run"
               \/ owner' = "delay" /\ target' <= deadline'
               \/ \E w \in wakeups' : w.current
      <3>1. CASE NextTimerDeadline = Forever
        BY <2>1, <3>1, OutdatedStep DEF IInv, TypeOK
      <3>2. CASE NextTimerDeadline # Forever
        <4>1. at \in {Unread, deadline'} /\ Arm(at) /\ deadline' # Forever
          BY <2>1, <3>2
        <4> HIDE DEF at
        <4> QED BY <1>1, <2>3, <4>1, ArmStep
      <3> QED BY <3>1, <3>2
    <2>7. TypeOK'
      BY <1>1, <2>1, <2>3, <2>4, <2>6 DEF IInv, TypeOK, Queued, NextIsStale
    <2>8. Registered'
      <3>1. ASSUME NEW c \in Coros, state[c] = "waiting", timer[c] # 0
            PROVE  \E r \in Queued' : r.coro = c /\ r.seq = timer[c]
        <4>1. PICK r \in Queued : r.coro = c /\ r.seq = timer[c]
          BY <3>1 DEF IInv, Registered
        <4>2. r \in Awaited
          BY <3>1, <4>1 DEF Awaited, Valid
        <4> QED BY <2>1, <2>2, <4>1, <4>2 DEF Queued
      <3> QED BY <1>1, <2>1, <2>2, <3>1 DEF Registered, Later
    <2>9. Numbered'
      <3>1. \A r, s \in next' : r = s
        BY <2>1, <2>2
      <3> QED BY <1>1, <2>4, <3>1 DEF IInv, Numbered
    <2>10. WrapperInv'
      BY <1>1, <2>6 DEF IInv, WrapperInv, Unread
    <2>11. Reported'
      BY <2>3, <2>6 DEF Reported
    <2>12. ReportInv'
      BY <1>1, <1>2, <2>3, <2>5, <2>11 DEF ReportInv
    <2> QED BY <1>2, <2>3, <2>5, <2>7, <2>8, <2>9, <2>10, <2>12 DEF IInv
  <1>5. changed \in BOOLEAN
    BY DEF IInv, TypeOK
  <1> QED BY <1>3, <1>4, <1>5

\* Steps of timer_owner that are no DPI step.
LEMMA OwnerStep ==
  ASSUME TimersAssumption, IInv, OwnerWaits \/ OwnerSleeps \/ OwnerWakes
  PROVE  IInv'
PROOF
  <1>1. /\ stepping = "none" /\ Reported
        /\ UNCHANGED <<now, schedulerVars, stepping, deadline, wakeups, finished>>
    BY DEF OwnerWaits, OwnerSleeps, OwnerWakes, IInv, ReportInv
  <1>2. /\ owner' \in {"run", "delay", "kick"} /\ target' \in 0..Forever
        /\ owner' = "delay" <=> target' # Forever
        /\ deadline # Forever => owner' = "run" \/ (owner' = "delay" /\ target' <= deadline)
    <2>1. CASE OwnerWaits
      BY <2>1 DEF OwnerWaits, IInv, TypeOK, WrapperInv
    <2>2. CASE OwnerSleeps
      BY <2>2 DEF OwnerSleeps, IInv, TypeOK, WrapperInv, TimersAssumption
    <2>3. CASE OwnerWakes
      BY <2>3 DEF OwnerWakes, IInv, TypeOK, TimersAssumption
    <2> QED BY <2>1, <2>2, <2>3
  <1>3. TypeOK'
    BY <1>1, <1>2 DEF IInv, TypeOK, schedulerVars
  <1>4. Registered' /\ Numbered'
    BY <1>1 DEF IInv, Registered, Numbered, Queued, Later, schedulerVars
  <1>5. WrapperInv'
    BY <1>1, <1>2 DEF IInv, WrapperInv, Unread
  <1>6. Reported'
    BY <1>1, <1>2 DEF Reported, schedulerVars
  <1>7. ReportInv'
    BY <1>1, <1>6 DEF IInv, ReportInv
  <1> QED BY <1>3, <1>4, <1>5, <1>6, <1>7 DEF IInv

\* Steps of a forked timer_wakeup that are no DPI step.
LEMMA WakeupStep ==
  ASSUME TimersAssumption, IInv, NEW w \in wakeups, WakeupStarts(w) \/ WakeupExpires(w)
  PROVE  IInv'
PROOF
  <1>1. /\ stepping = "none" /\ Reported
        /\ UNCHANGED <<now, schedulerVars, stepping, deadline, target, owner, finished>>
    BY DEF WakeupStarts, WakeupExpires, IInv, ReportInv
  <1>2. /\ wakeups' \subseteq Wakeups
        /\ \A v \in wakeups' : v.current => v.at \in {Unread, deadline}
        /\ (\E v \in wakeups : v.current) => \E v \in wakeups' : v.current
    <2>1. CASE WakeupStarts(w)
      <3> DEFINE v == [w EXCEPT !.at = deadline]
      <3>1. v \in Wakeups /\ v.at = deadline /\ v.current = w.current
        BY DEF IInv, TypeOK, Wakeups, Unread, TimersAssumption
      <3>2. wakeups' = (wakeups \ {w}) \cup {v}
        BY <2>1 DEF WakeupStarts
      <3> HIDE DEF v
      <3> QED BY <3>1, <3>2 DEF IInv, TypeOK, WrapperInv
    <2>2. CASE WakeupExpires(w)
      BY <2>2 DEF WakeupExpires, IInv, TypeOK, WrapperInv
    <2> QED BY <2>1, <2>2
  <1>3. TypeOK'
    BY <1>1, <1>2 DEF IInv, TypeOK, schedulerVars
  <1>4. Registered' /\ Numbered'
    BY <1>1 DEF IInv, Registered, Numbered, Queued, Later, schedulerVars
  <1>5. WrapperInv'
    BY <1>1, <1>2 DEF IInv, WrapperInv, Unread
  <1>6. Reported'
    BY <1>1, <1>2 DEF Reported, schedulerVars
  <1>7. ReportInv'
    BY <1>1, <1>6 DEF IInv, ReportInv
  <1> QED BY <1>3, <1>4, <1>5, <1>6, <1>7 DEF IInv

\* The simulator does not pass the deadline that was reported last: a process of
\* the wrapper waits for a time slot no later.
LEMMA NextSlotStep ==
  ASSUME TimersAssumption, IInv, NextSlot
  PROVE  IInv'
PROOF
  <1>1. /\ stepping = "none" /\ Reported /\ ~Runnable
        /\ UNCHANGED <<schedulerVars, stepping, wrapperVars>>
    BY DEF NextSlot, IInv, ReportInv
  <1>2. PICK t \in now + 1..MaxTime : now' = t /\ \A s \in Slots : t <= s
    BY DEF NextSlot
  <1>3. t \in 0..MaxTime /\ now \in Nat /\ MaxTime < Forever /\ deadline \in 0..Forever
        /\ MaxTime \in Nat /\ Forever \in Nat
    BY DEF IInv, TypeOK, TimersAssumption
  <1>4. now' <= deadline
    <2>1. CASE deadline = Forever
      BY <1>2, <1>3, <2>1
    <2>2. CASE owner = "delay" /\ target <= deadline
      <3>1. target \in Slots /\ target \in 0..Forever
        BY <2>2 DEF Slots, IInv, TypeOK
      <3> QED BY <1>2, <1>3, <2>2, <3>1
    <2>3. CASE \E w \in wakeups : w.current
      <3>1. PICK w \in wakeups : w.current
        BY <2>3
      <3>2. w.at = deadline
        BY <1>1, <3>1 DEF IInv, WrapperInv, Runnable
      <3>3. w.at \in Slots
        BY DEF Slots
      <3> QED BY <1>2, <3>2, <3>3
    <2> QED BY <1>1, <2>1, <2>2, <2>3 DEF Reported, Runnable
  <1>5. TypeOK'
    BY <1>1, <1>2, <1>3 DEF IInv, TypeOK, schedulerVars, wrapperVars
  <1>6. Registered' /\ Numbered' /\ WrapperInv'
    BY <1>1 DEF IInv, Registered, Numbered, WrapperInv, Queued, Later, Unread,
                schedulerVars, wrapperVars
  <1>7. Reported'
    BY <1>1 DEF Reported, schedulerVars, wrapperVars
  <1>8. ReportInv'
    BY <1>1, <1>4, <1>7 DEF ReportInv, wrapperVars
  <1> QED BY <1>5, <1>6, <1>7, <1>8 DEF IInv

-----------------------------------------------------------------------------
(* The theorems.                                                           *)

LEMMA TimersInit ==
  ASSUME TimersAssumption, Init
  PROVE  IInv
PROOF
  <1>1. TypeOK
    <2>1. /\ now \in 0..MaxTime /\ sequence \in 1..MaxTimers + 1 /\ 0 \in 0..MaxTimers
          /\ deadline \in 0..Forever /\ target \in 0..Forever
      BY DEF Init, TimersAssumption
    <2>2. /\ state \in [Coros -> {"ready", "waiting", "done"}]
          /\ timer \in [Coros -> 0..MaxTimers]
      BY <2>1 DEF Init
    <2>3. /\ next \subseteq Registrations /\ heap \subseteq Registrations
          /\ changed \in BOOLEAN /\ stepping \in Steppers \cup {"none"}
          /\ owner \in {"run", "delay", "kick"}
          /\ wakeups \subseteq Wakeups /\ finished \in BOOLEAN
      BY DEF Init, Steppers
    <2> QED BY <2>1, <2>2, <2>3 DEF TypeOK
  <1>2. Registered /\ Numbered /\ WrapperInv /\ ReportInv
    BY DEF Init, Registered, Numbered, WrapperInv, ReportInv, Reported, Queued
  <1> QED BY <1>1, <1>2 DEF IInv

LEMMA TimersNext ==
  ASSUME TimersAssumption, IInv, [Next]_vars
  PROVE  IInv'
PROOF
  <1>1. CASE EndStep
    BY <1>1, EndStepStep
  <1>2. CASE OwnerNext
    <2>1. CASE OwnerSteps
      BY <2>1, BeginStepStep DEF OwnerSteps, Steppers
    <2> QED BY <1>2, <2>1, OwnerStep DEF OwnerNext
  <1>3. CASE WakeupNext
    <2>1. PICK w \in wakeups : WakeupStarts(w) \/ WakeupSteps(w) \/ WakeupExpires(w)
      BY <1>3 DEF WakeupNext
    <2>2. CASE WakeupSteps(w)
      <3>1. /\ BeginStep("wakeup") /\ owner' = owner
            /\ wakeups' = wakeups \ {w} /\ w.at <= now /\ w.current
        BY <2>2 DEF WakeupSteps
      <3>2. deadline <= now
        BY <3>1 DEF IInv, TypeOK, WrapperInv, Unread, TimersAssumption
      <3>3. wakeups' \subseteq wakeups /\ "wakeup" \in Steppers
        BY <3>1 DEF Steppers
      <3> QED BY <3>1, <3>2, <3>3, BeginStepStep
    <2> QED BY <2>1, <2>2, WakeupStep
  <1>4. CASE OtherSteps
    BY <1>4, BeginStepStep DEF OtherSteps, Steppers
  <1>5. CASE NextSlot
    BY <1>5, NextSlotStep
  <1>6. CASE \E c \in Coros : Run(c) \/ Interrupt(c)
    BY <1>6, AwaitDelayStep, WaitEndsStep DEF Run, Interrupt
  <1>7. CASE UNCHANGED vars
    BY <1>7 DEF vars, schedulerVars, wrapperVars, IInv, TypeOK, Registered,
                Numbered, WrapperInv, ReportInv, Reported, Queued, Later, Unread
  <1> QED BY <1>1, <1>2, <1>3, <1>4, <1>5, <1>6, <1>7 DEF Next

\* The invariant of the delays: a registration for every Delay awaited, one order
\* of all of them, and a report of the earliest that the wrapper acts on.
THEOREM TimersInvariant ==
  ASSUME TimersAssumption
  PROVE  Spec => []IInv
PROOF
  <1>1. Init => IInv
    BY TimersInit
  <1>2. IInv /\ [Next]_vars => IInv'
    BY TimersNext
  <1> QED BY <1>1, <1>2, PTL DEF Spec

\* Between steps a process of the wrapper is under way to every deadline that is
\* still awaited, whichever of timer_owner and the forked timer_wakeup processes
\* it is, and simulation time has not passed it.
THEOREM TimersDeadlinesArmed ==
  ASSUME TimersAssumption
  PROVE  Spec => []DeadlinesArmed
PROOF
  <1>1. ASSUME IInv
        PROVE  DeadlinesArmed
    <2>1. Live \subseteq Queued /\ now \in Nat
      BY <1>1 DEF Live, IInv, TypeOK
    <2>2. ASSUME NEW r \in Live, stepping = "none"
          PROVE  /\ r.at \in Nat /\ deadline <= r.at /\ now <= deadline
                 /\ deadline \in 0..Forever /\ deadline # Forever
      <3>1. Reported /\ now <= deadline /\ deadline \in 0..Forever
        BY <1>1, <2>2 DEF IInv, ReportInv, TypeOK
      <3>2. r.at \in Nat /\ deadline <= r.at
        BY <1>1, <2>1, <3>1, QueuedFromDeadline
      <3> QED BY <3>1, <3>2 DEF Live, TimersAssumption
    <2>3. NeverLate
      <3>1. ASSUME NEW r \in Live
            PROVE  r.at >= now
        <4>1. CASE stepping = "none"
          BY <2>1, <2>2, <4>1
        <4>2. CASE stepping # "none"
          <5>1. now < r.at /\ r \in Registrations
            BY <1>1, <2>1, <4>2 DEF IInv, ReportInv, TypeOK, Queued
          <5> QED BY <2>1, <5>1, RegistrationType
        <4> QED BY <4>1, <4>2
      <3> QED BY <3>1 DEF NeverLate
    <2>4. Armed
      <3>1. ASSUME stepping = "none", NEW r \in Live
            PROVE  \/ owner = "run"
                   \/ owner = "delay" /\ target <= r.at
                   \/ \E w \in wakeups :
                        w.current /\ (IF w.at = Unread THEN deadline ELSE w.at) <= r.at
        <4>1. /\ r.at \in Nat /\ deadline <= r.at
              /\ deadline \in 0..Forever /\ deadline # Forever
          BY <2>2, <3>1
        <4>2. CASE owner = "run"
          BY <4>2
        <4>3. CASE owner = "delay" /\ target <= deadline
          BY <1>1, <4>1, <4>3 DEF IInv, TypeOK
        <4>4. CASE \E w \in wakeups : w.current
          <5>1. PICK w \in wakeups : w.current
            BY <4>4
          <5>2. w.at = Unread \/ w.at = deadline
            BY <1>1, <5>1 DEF IInv, WrapperInv
          <5> QED BY <4>1, <5>1, <5>2
        <4> QED BY <1>1, <3>1, <4>1, <4>2, <4>3, <4>4 DEF IInv, ReportInv, Reported
      <3> QED BY <3>1 DEF Armed
    <2> QED BY <2>3, <2>4 DEF DeadlinesArmed
  <1>2. Spec => []IInv
    BY TimersInvariant
  <1> QED BY <1>1, <1>2, PTL

\* advance_time resumes a coroutine at its deadline, not before and not after,
\* and a step of timer_owner leaves no deadline that is due.
THEOREM TimersOnTime ==
  ASSUME TimersAssumption
  PROVE  Spec => OnTime
PROOF
  <1>1. ASSUME IInv, [Next]_vars
        PROVE  [\A r \in Queued :
                 (stepping = "none" /\ stepping' # "none" /\ Valid(r)
                    /\ state'[r.coro] = "ready") => r.at = now]_vars
    <2>1. ASSUME NEW r \in Queued, stepping = "none", stepping' # "none", Valid(r),
                 state'[r.coro] = "ready"
          PROVE  r.at = now
      <3>1. AdvanceTime
        BY <1>1, <2>1
        DEF Next, OwnerNext, WakeupNext, EndStep, OwnerWaits, OwnerSleeps, OwnerSteps,
            OwnerWakes, WakeupStarts, WakeupSteps, WakeupExpires, OtherSteps, NextSlot,
            BeginStep, Run, Interrupt, AwaitDelay, AwaitOther, ResumeByOther, Finish,
            vars
      <3>2. r \in Registrations /\ state[r.coro] = "waiting" /\ timer[r.coro] = r.seq
        BY <1>1, <2>1, ValidIsCurrent DEF Valid
      <3>3. r.coro \in Coros
        BY <3>2, RegistrationType
      <3>4. PICK s \in Awaited : Due(s) /\ s.coro = r.coro
        BY <2>1, <3>1, <3>2, <3>3 DEF AdvanceTime, Awaited, Queued
      <3>5. s = r
        BY <1>1, <2>1, <3>2, <3>4 DEF Awaited, Valid, IInv, Numbered
      <3>6. now <= deadline /\ deadline <= r.at /\ r.at <= now
        BY <1>1, <2>1, <3>4, <3>5, QueuedFromDeadline DEF Due, IInv, ReportInv
      <3> QED BY <1>1, <3>2, <3>6, RegistrationType DEF IInv, TypeOK
    <2> QED BY <2>1
  <1>2. ASSUME IInv, [Next]_vars
        PROVE  [(stepping = "owner" /\ stepping' = "none") => deadline' > now]_vars
    <2>1. CASE EndStep
      BY <1>1, <1>2, <2>1, EndStepStep
    <2>2. CASE ~EndStep
      BY <1>2, <2>2
      DEF Next, OwnerNext, WakeupNext, OwnerWaits, OwnerSleeps, OwnerSteps,
          OwnerWakes, WakeupStarts, WakeupSteps, WakeupExpires, OtherSteps, NextSlot,
          BeginStep, Run, Interrupt, AwaitDelay, AwaitOther, ResumeByOther, Finish,
          vars
    <2> QED BY <2>1, <2>2
  <1>3. Spec => []IInv
    BY TimersInvariant
  <1>4. Spec => EndsOnTime
    BY <1>1, <1>3, PTL DEF Spec, EndsOnTime
  <1>5. Spec => OwnerProgress
    BY <1>2, <1>3, PTL DEF Spec, OwnerProgress
  <1> QED BY <1>4, <1>5 DEF OnTime

Entry == [coro: Coros, live: BOOLEAN]

-----------------------------------------------------------------------------
(* The books of one phase queue.                                           *)

\* The size of those who wait for a phase, and of some of them.
LEMMA WaitingSize ==
  ASSUME Phase!PhasesAssumption, NEW k
  PROVE  /\ IsFiniteSet(Phase!WaitingFor(k))
         /\ Cardinality(Phase!WaitingFor(k)) \in 0..Cardinality(Coros)
         /\ Cardinality(Coros) \in Nat
         /\ Cardinality(Phase!WaitingFor(k)) = 0 <=> Phase!WaitingFor(k) = {}
PROOF
  <1>1. Phase!WaitingFor(k) \subseteq Coros /\ IsFiniteSet(Coros)
    BY PhaseSizes DEF Phase!WaitingFor, Phase!PhasesAssumption
  <1>2. /\ IsFiniteSet(Phase!WaitingFor(k))
        /\ Cardinality(Phase!WaitingFor(k)) <= Cardinality(Coros)
    BY <1>1, FS_Subset
  <1>3. Cardinality(Phase!WaitingFor(k)) \in Nat /\ Cardinality(Coros) \in Nat
    BY <1>1, <1>2, FS_CardinalityType
  <1>4. Cardinality(Phase!WaitingFor(k)) = 0 <=> Phase!WaitingFor(k) = {}
    BY <1>2, FS_EmptySet
  <1> QED BY <1>2, <1>3, <1>4

\* A phase that nobody is counted for is awaited by nobody.
LEMMA NobodyCounted ==
  ASSUME Phase!PhasesAssumption, Phase!Registered, NEW k \in Phase!Kinds
  PROVE  /\ count[k] = 0 <=> Phase!WaitingFor(k) = {}
         /\ count[k] = Cardinality(Phase!WaitingFor(k))
PROOF
  <1>1. count[k] = Cardinality(Phase!WaitingFor(k))
    BY PhaseSizes DEF Phase!Registered
  <1> QED BY <1>1, WaitingSize

\* Sequences whose entries are changed in place.
LEMMA MapEntries ==
  ASSUME NEW s \in Seq(Entry), NEW S, NEW t,
         t = [i \in DOMAIN s |-> [s[i] EXCEPT !.live = @ /\ s[i].coro \notin S]]
  PROVE  /\ t \in Seq(Entry)
         /\ DOMAIN t = DOMAIN s
         /\ \A i \in DOMAIN s :
              /\ t[i].coro = s[i].coro
              /\ t[i].live <=> (s[i].live /\ s[i].coro \notin S)
PROOF
  <1>1. /\ Len(s) \in Nat /\ DOMAIN s = 1..Len(s)
        /\ \A i \in DOMAIN s : s[i] \in Entry
    OBVIOUS
  <1>2. ASSUME NEW i \in DOMAIN s
        PROVE  /\ t[i] \in Entry
               /\ t[i].coro = s[i].coro
               /\ t[i].live <=> (s[i].live /\ s[i].coro \notin S)
    <2>1. s[i] \in Entry
      BY <1>1
    <2>2. t[i] = [s[i] EXCEPT !.live = s[i].live /\ s[i].coro \notin S]
      OBVIOUS
    <2> QED BY <2>1, <2>2 DEF Entry
  <1>3. t \in [1..Len(s) -> Entry]
    BY <1>1, <1>2
  <1>4. t \in Seq(Entry)
    BY <1>1, <1>3
  <1> QED BY <1>2, <1>4

\* The registrations of a phase queue.
LEMMA EntriesOf ==
  ASSUME Phase!TypeOK, NEW k \in Phase!Kinds
  PROVE  /\ phaseQueue[k] \in Seq(Entry)
         /\ \A i \in DOMAIN phaseQueue[k] : phaseQueue[k][i] \in Entry /\ phaseQueue[k][i].coro \in Coros
         /\ Phase!LiveIn(k) \subseteq DOMAIN phaseQueue[k]
PROOF
  <1>1. phaseQueue[k] \in Seq(Entry)
    BY DEF Phase!TypeOK, Entry
  <1>2. \A i \in DOMAIN phaseQueue[k] : phaseQueue[k][i] \in Entry
    BY <1>1, ElementOfSeq
  <1>3. Phase!LiveIn(k) \subseteq DOMAIN phaseQueue[k]
    BY DEF Phase!LiveIn
  <1> QED BY <1>1, <1>2, <1>3 DEF Entry

\* What end_wait takes out of the books: when the queues q are those of the scheduler
\* but for emptied ones whose waits all end, it keeps them in order.
LEMMA EndWaitKeeps ==
  ASSUME Phase!PhasesAssumption, Phase!TypeOK, Phase!Registered, NEW q, NEW S \in SUBSET Coros,
         \A k \in Phase!Kinds : q[k] = phaseQueue[k] \/ (q[k] = <<>> /\ Phase!WaitingFor(k) \subseteq S),
         Phase!EndWait(q, S)
  PROVE  /\ phaseQueue' \in [Phase!Kinds -> Seq(Entry)]
         /\ count' \in [Phase!Kinds -> 0..Cardinality(Coros)]
         /\ waits' \in [Coros -> Waits \cup {{}}]
         /\ \A k \in Phase!Kinds : Phase!WaitingFor(k)' = Phase!WaitingFor(k) \ S
         /\ \A c \in Coros : c \notin S => waits'[c] = waits[c]
         /\ \A c \in Coros : c \in S => waits'[c] = {}
         /\ Phase!Registered'
PROOF
  <1>1. /\ waits' = [c \in Coros |-> IF c \in S THEN {} ELSE waits[c]]
        /\ phaseQueue' = [k \in Phase!Kinds |-> [i \in DOMAIN q[k] |->
                       [q[k][i] EXCEPT !.live = @ /\ q[k][i].coro \notin S]]]
        /\ count' = [k \in Phase!Kinds |->
                       count[k] - Cardinality({c \in S : k \in waits[c]})]
    BY PhaseSizes DEF Phase!EndWait
  <1>2. /\ waits' \in [Coros -> Waits \cup {{}}]
        /\ \A c \in Coros : c \notin S => waits'[c] = waits[c]
        /\ \A c \in Coros : c \in S => waits'[c] = {}
    BY <1>1 DEF Phase!TypeOK
  <1>3. ASSUME NEW k \in Phase!Kinds
        PROVE  Phase!WaitingFor(k)' = Phase!WaitingFor(k) \ S
    BY <1>2 DEF Phase!WaitingFor
  <1>4. ASSUME NEW k \in Phase!Kinds
        PROVE  /\ count'[k] = Cardinality(Phase!WaitingFor(k)')
               /\ count'[k] \in 0..Cardinality(Coros)
    <2>1. {c \in S : k \in waits[c]} = Phase!WaitingFor(k) \cap S
      BY DEF Phase!WaitingFor
    <2>2. count'[k] = Cardinality(Phase!WaitingFor(k)) - Cardinality(Phase!WaitingFor(k) \cap S)
      BY <1>1, <2>1, NobodyCounted
    <2>3. /\ IsFiniteSet(Phase!WaitingFor(k) \ S)
          /\ Cardinality(Phase!WaitingFor(k) \ S) =
               Cardinality(Phase!WaitingFor(k)) - Cardinality(Phase!WaitingFor(k) \cap S)
      BY WaitingSize, FS_Difference
    <2>4. count'[k] = Cardinality(Phase!WaitingFor(k)')
      BY <2>2, <2>3, <1>3
    <2>5. /\ Cardinality(Phase!WaitingFor(k) \ S) \in Nat
          /\ Cardinality(Phase!WaitingFor(k) \ S) <= Cardinality(Phase!WaitingFor(k))
      BY WaitingSize, FS_Subset, <2>3, FS_CardinalityType
    <2>6. Cardinality(Phase!WaitingFor(k) \ S) \in 0..Cardinality(Coros)
      BY <2>5, WaitingSize
    <2> QED BY <2>4, <2>6, <1>3
  <1>5. ASSUME NEW k \in Phase!Kinds
        PROVE  /\ phaseQueue'[k] \in Seq(Entry)
               /\ DOMAIN phaseQueue'[k] = DOMAIN q[k]
               /\ \A i \in DOMAIN q[k] :
                    /\ phaseQueue'[k][i].coro = q[k][i].coro
                    /\ phaseQueue'[k][i].live <=> (q[k][i].live /\ q[k][i].coro \notin S)
    <2>1. q[k] \in Seq(Entry)
      <3>1. phaseQueue[k] \in Seq(Entry) /\ <<>> \in Seq(Entry)
        BY EntriesOf
      <3> QED BY <3>1
    <2>2. phaseQueue'[k] = [i \in DOMAIN q[k] |->
                         [q[k][i] EXCEPT !.live = @ /\ q[k][i].coro \notin S]]
      BY <1>1
    <2> QED BY <2>1, <2>2, MapEntries
  <1>6. ASSUME NEW k \in Phase!Kinds
        PROVE  /\ \A i \in Phase!LiveIn(k)' : k \in waits'[phaseQueue'[k][i].coro]
               /\ \A c \in Phase!WaitingFor(k)' : \E i \in Phase!LiveIn(k)' : phaseQueue'[k][i].coro = c
               /\ \A i, j \in Phase!LiveIn(k)' : phaseQueue'[k][i].coro = phaseQueue'[k][j].coro => i = j
    <2>1. Phase!LiveIn(k)' = {i \in DOMAIN q[k] : q[k][i].live /\ q[k][i].coro \notin S}
      BY <1>5 DEF Phase!LiveIn
    <2>2. CASE q[k] = phaseQueue[k]
      <3>1. \A i \in Phase!LiveIn(k)' : i \in Phase!LiveIn(k) /\ phaseQueue'[k][i].coro = phaseQueue[k][i].coro
                                   /\ phaseQueue[k][i].coro \notin S
                                   /\ phaseQueue[k][i].coro \in Coros
        <4> TAKE i \in Phase!LiveIn(k)'
        <4>1. i \in DOMAIN phaseQueue[k] /\ phaseQueue[k][i].live /\ phaseQueue[k][i].coro \notin S
          BY <2>1, <2>2
        <4>2. phaseQueue'[k][i].coro = phaseQueue[k][i].coro
          BY <4>1, <2>2, <1>5
        <4> QED BY <4>1, <4>2, EntriesOf DEF Phase!LiveIn
      <3>2. \A i \in Phase!LiveIn(k)' : k \in waits'[phaseQueue'[k][i].coro]
        BY <3>1, <1>2 DEF Phase!Registered
      <3>3. ASSUME NEW c \in Phase!WaitingFor(k)'
            PROVE  \E i \in Phase!LiveIn(k)' : phaseQueue'[k][i].coro = c
        <4>1. c \in Phase!WaitingFor(k) /\ c \notin S
          BY <1>3, <3>3
        <4>2. PICK i \in Phase!LiveIn(k) : phaseQueue[k][i].coro = c
          BY <4>1 DEF Phase!Registered
        <4>3. i \in Phase!LiveIn(k)' /\ phaseQueue'[k][i].coro = c
          BY <4>1, <4>2, <2>1, <2>2, <1>5 DEF Phase!LiveIn
        <4> QED BY <4>3
      <3>4. \A i, j \in Phase!LiveIn(k)' : phaseQueue'[k][i].coro = phaseQueue'[k][j].coro => i = j
        BY <3>1 DEF Phase!Registered
      <3> QED BY <3>2, <3>3, <3>4
    <2>3. CASE q[k] = <<>> /\ Phase!WaitingFor(k) \subseteq S
      <3>1. Phase!LiveIn(k)' = {}
        BY <2>1, <2>3
      <3>2. Phase!WaitingFor(k)' = {}
        BY <1>3, <2>3
      <3> QED BY <3>1, <3>2
    <2> QED BY <2>2, <2>3
  <1>7. /\ phaseQueue' \in [Phase!Kinds -> Seq(Entry)]
        /\ count' \in [Phase!Kinds -> 0..Cardinality(Coros)]
    BY <1>1, <1>4, <1>5
  <1>8. Phase!Registered'
    BY PhaseSizes, <1>4, <1>6 DEF Phase!Registered
  <1> QED BY <1>2, <1>3, <1>7, <1>8

\* resume_phase ends the waits for the phase, every one of them.
LEMMA ResumePhaseKeeps ==
  ASSUME Phase!PhasesAssumption, Phase!TypeOK, Phase!Registered, NEW k \in Phase!Kinds, Phase!ResumePhase(k)
  PROVE  /\ phaseQueue' \in [Phase!Kinds -> Seq(Entry)]
         /\ count' \in [Phase!Kinds -> 0..Cardinality(Coros)]
         /\ waits' \in [Coros -> Waits \cup {{}}]
         /\ \A j \in Phase!Kinds : Phase!WaitingFor(j)' \subseteq Phase!WaitingFor(j)
         /\ Phase!WaitingFor(k)' = {}
         /\ Phase!Registered'
PROOF
  <1> DEFINE S == {phaseQueue[k][i].coro : i \in {j \in DOMAIN phaseQueue[k] : phaseQueue[k][j].live}}
             q == [phaseQueue EXCEPT ![k] = <<>>]
  <1>1. Phase!EndWait(q, S)
    BY DEF Phase!ResumePhase
  <1>2. S = {phaseQueue[k][i].coro : i \in Phase!LiveIn(k)}
    BY DEF Phase!LiveIn
  <1>3. S \subseteq Coros /\ S = Phase!WaitingFor(k)
    <2>1. \A i \in Phase!LiveIn(k) : phaseQueue[k][i].coro \in Phase!WaitingFor(k)
      <3>1. \A i \in Phase!LiveIn(k) : phaseQueue[k][i].coro \in Coros
        BY EntriesOf
      <3>2. \A i \in Phase!LiveIn(k) : k \in waits[phaseQueue[k][i].coro]
        BY DEF Phase!Registered
      <3> QED BY <3>1, <3>2 DEF Phase!WaitingFor
    <2>2. \A c \in Phase!WaitingFor(k) : c \in S
      BY <1>2 DEF Phase!Registered
    <2> QED BY <2>1, <2>2, <1>2 DEF Phase!WaitingFor
  <1>4. \A j \in Phase!Kinds : q[j] = phaseQueue[j] \/ (q[j] = <<>> /\ Phase!WaitingFor(j) \subseteq S)
    BY <1>3 DEF Phase!TypeOK
  <1> HIDE DEF q, S
  <1>5. /\ phaseQueue' \in [Phase!Kinds -> Seq(Entry)]
        /\ count' \in [Phase!Kinds -> 0..Cardinality(Coros)]
        /\ waits' \in [Coros -> Waits \cup {{}}]
        /\ \A j \in Phase!Kinds : Phase!WaitingFor(j)' = Phase!WaitingFor(j) \ S
        /\ Phase!Registered'
    BY <1>1, <1>3, <1>4, EndWaitKeeps
  <1> QED BY <1>3, <1>5

-----------------------------------------------------------------------------
(* The steps of the coroutines.                                            *)

\* Between steps, a phase that is not pending is awaited by nobody.
LEMMA NotPending ==
  ASSUME Phase!PhasesAssumption, Phase!IInv, phaseStep = "none", NEW k \in Phase!Kinds, ~Phase!Pending(k)
  PROVE  Phase!WaitingFor(k) = {} /\ (k = "rw" => deferred = 0)
PROOF
  <1>1. ~Phase!HasWaiters(k)
    BY DEF Phase!Pending, Phase!IInv, Phase!CallbacksHeld, Phase!PhasesAssumption
  <1> QED BY <1>1, NobodyCounted DEF Phase!HasWaiters, Phase!IInv

\* A wait that is no more ends no later than it would have.
LEMMA FewerWait ==
  ASSUME Phase!NextStepReached, Phase!WaitingFor("nts")' \subseteq Phase!WaitingFor("nts"),
         UNCHANGED <<phaseNow, place, asked>>, phaseStep = "dueNts" => phaseStep' = "dueNts"
  PROVE  Phase!NextStepReached'
BY DEF Phase!NextStepReached

LEMMA FewerLeft ==
  ASSUME Phase!Settled, \A k \in Phase!Kinds : Phase!WaitingFor(k)' \subseteq Phase!WaitingFor(k),
         UNCHANGED <<place, deferred, dirty>>
  PROVE  Phase!Settled'
BY DEF Phase!Settled, Phase!Kinds

\* co_await adds one registration to each of its queues.
LEMMA AwaitRegisters ==
  ASSUME Phase!PhasesAssumption, Phase!IInv, NEW c \in Coros, NEW S \in Waits, Phase!Await(c, S),
         ~Phase!Forbidden(S)
  PROVE  /\ phaseQueue' \in [Phase!Kinds -> Seq(Entry)]
         /\ count' \in [Phase!Kinds -> 0..Cardinality(Coros)]
         /\ Phase!Registered'
         /\ \A k \in Phase!Kinds : Phase!WaitingFor(k)' = Phase!WaitingFor(k) \cup (IF k \in S THEN {c} ELSE {})
PROOF
  <1> DEFINE new == [coro |-> c, live |-> TRUE]
  <1>1. /\ waits' = [waits EXCEPT ![c] = S]
        /\ phaseQueue' = [k \in Phase!Kinds |-> IF k \in S THEN Append(phaseQueue[k], new) ELSE phaseQueue[k]]
        /\ count' = [k \in Phase!Kinds |-> count[k] + IF k \in S THEN 1 ELSE 0]
        /\ waits[c] = {}
    BY DEF Phase!Await, Phase!Ready
  <1>2. Phase!TypeOK /\ Phase!Registered
    BY DEF Phase!IInv
  <1>3. /\ waits'[c] = S
        /\ \A d \in Coros : d # c => waits'[d] = waits[d]
    BY <1>1, <1>2 DEF Phase!TypeOK
  <1>4. \A k \in Phase!Kinds : Phase!WaitingFor(k)' = Phase!WaitingFor(k) \cup (IF k \in S THEN {c} ELSE {})
    BY <1>1, <1>3 DEF Phase!WaitingFor
  <1>5. \A k \in Phase!Kinds : c \notin Phase!WaitingFor(k)
    BY <1>1 DEF Phase!WaitingFor
  <1>6. new \in Entry /\ new.coro = c /\ new.live
    BY DEF Entry
  <1> HIDE DEF new
  <1>7. ASSUME NEW k \in Phase!Kinds
        PROVE  /\ count'[k] = Cardinality(Phase!WaitingFor(k)')
               /\ count'[k] \in 0..Cardinality(Coros)
    <2>1. /\ IsFiniteSet(Phase!WaitingFor(k))
          /\ count[k] = Cardinality(Phase!WaitingFor(k))
          /\ Cardinality(Phase!WaitingFor(k)) \in Nat
      BY <1>2, NobodyCounted, WaitingSize
    <2>2. count'[k] = Cardinality(Phase!WaitingFor(k)')
      <3>1. CASE k \in S
        <4>1. Cardinality(Phase!WaitingFor(k) \cup {c}) = Cardinality(Phase!WaitingFor(k)) + 1
          BY <2>1, <1>5, FS_AddElement
        <4>2. count'[k] = count[k] + 1
          BY <1>1, <3>1
        <4>3. Phase!WaitingFor(k)' = Phase!WaitingFor(k) \cup {c}
          BY <1>4, <3>1
        <4> QED BY <4>1, <4>2, <4>3, <2>1
      <3>2. CASE k \notin S
        <4>1. count'[k] = count[k] + 0
          BY <1>1, <3>2
        <4>2. Phase!WaitingFor(k)' = Phase!WaitingFor(k)
          BY <1>4, <3>2
        <4> QED BY <4>1, <4>2, <2>1
      <3> QED BY <3>1, <3>2
    <2>3. Phase!WaitingFor(k)' \subseteq Coros /\ IsFiniteSet(Coros)
      BY PhaseSizes DEF Phase!WaitingFor, Phase!PhasesAssumption
    <2>4. /\ IsFiniteSet(Phase!WaitingFor(k)')
          /\ Cardinality(Phase!WaitingFor(k)') <= Cardinality(Coros)
      BY <2>3, FS_Subset
    <2>5. Cardinality(Phase!WaitingFor(k)') \in Nat /\ Cardinality(Coros) \in Nat
      BY <2>3, <2>4, FS_CardinalityType
    <2>6. Cardinality(Phase!WaitingFor(k)') \in 0..Cardinality(Coros)
      BY <2>4, <2>5
    <2> QED BY <2>2, <2>6
  <1>8. ASSUME NEW k \in Phase!Kinds
        PROVE  phaseQueue'[k] \in Seq(Entry)
    BY <1>1, <1>2, <1>6, EntriesOf
  <1>9. ASSUME NEW k \in Phase!Kinds
        PROVE  /\ \A i \in Phase!LiveIn(k)' : k \in waits'[phaseQueue'[k][i].coro]
               /\ \A d \in Phase!WaitingFor(k)' : \E i \in Phase!LiveIn(k)' : phaseQueue'[k][i].coro = d
               /\ \A i, j \in Phase!LiveIn(k)' : phaseQueue'[k][i].coro = phaseQueue'[k][j].coro => i = j
    <2>1. /\ \A i \in Phase!LiveIn(k) : i \in DOMAIN phaseQueue[k] /\ phaseQueue[k][i].live
                                   /\ phaseQueue[k][i].coro \in Phase!WaitingFor(k)
          /\ \A d \in Phase!WaitingFor(k) : \E i \in Phase!LiveIn(k) : phaseQueue[k][i].coro = d
          /\ \A i, j \in Phase!LiveIn(k) : phaseQueue[k][i].coro = phaseQueue[k][j].coro => i = j
      <3>1. \A i \in Phase!LiveIn(k) : i \in DOMAIN phaseQueue[k] /\ phaseQueue[k][i].coro \in Coros
        BY <1>2, EntriesOf
      <3> QED BY <3>1, <1>2 DEF Phase!Registered, Phase!WaitingFor, Phase!LiveIn
    <2>2. \A d \in Phase!WaitingFor(k) : k \in waits'[d]
      BY <1>3, <1>5 DEF Phase!WaitingFor
    <2>3. CASE k \notin S
      <3>1. phaseQueue'[k] = phaseQueue[k] /\ Phase!LiveIn(k)' = Phase!LiveIn(k) /\ Phase!WaitingFor(k)' = Phase!WaitingFor(k)
        BY <1>1, <1>4, <2>3 DEF Phase!LiveIn
      <3> QED BY <3>1, <2>1, <2>2
    <2>4. CASE k \in S
      <3> DEFINE n == Len(phaseQueue[k]) + 1
      <3>1. /\ phaseQueue'[k] = Append(phaseQueue[k], new)
            /\ phaseQueue[k] \in Seq(Entry)
        BY <1>1, <1>2, <2>4, EntriesOf
      <3>2. /\ DOMAIN phaseQueue'[k] = DOMAIN phaseQueue[k] \cup {n}
            /\ n \notin DOMAIN phaseQueue[k]
            /\ phaseQueue'[k][n] = new
            /\ \A i \in DOMAIN phaseQueue[k] : phaseQueue'[k][i] = phaseQueue[k][i]
        BY <3>1, <1>6
      <3> HIDE DEF n
      <3>3. Phase!LiveIn(k)' = Phase!LiveIn(k) \cup {n}
        BY <3>2, <1>6 DEF Phase!LiveIn
      <3>4. Phase!WaitingFor(k)' = Phase!WaitingFor(k) \cup {c}
        BY <1>4, <2>4
      <3>5. /\ \A i \in Phase!LiveIn(k) : phaseQueue'[k][i].coro = phaseQueue[k][i].coro
            /\ phaseQueue'[k][n].coro = c
        BY <3>2, <2>1, <1>6
      <3>6. \A i \in Phase!LiveIn(k)' : k \in waits'[phaseQueue'[k][i].coro]
        BY <3>3, <3>5, <2>1, <2>2, <1>3, <2>4
      <3>7. \A d \in Phase!WaitingFor(k)' : \E i \in Phase!LiveIn(k)' : phaseQueue'[k][i].coro = d
        BY <3>3, <3>4, <3>5, <2>1
      <3>8. \A i, j \in Phase!LiveIn(k)' : phaseQueue'[k][i].coro = phaseQueue'[k][j].coro => i = j
        BY <3>3, <3>5, <2>1, <1>5
      <3> QED BY <3>6, <3>7, <3>8
    <2> QED BY <2>3, <2>4
  <1>10. /\ phaseQueue' \in [Phase!Kinds -> Seq(Entry)]
         /\ count' \in [Phase!Kinds -> 0..Cardinality(Coros)]
    BY <1>1, <1>7, <1>8
  <1>11. Phase!Registered'
    BY PhaseSizes, <1>7, <1>9 DEF Phase!Registered
  <1> QED BY <1>4, <1>10, <1>11

LEMMA AwaitKeeps ==
  ASSUME Phase!PhasesAssumption, Phase!IInv, NEW c \in Coros, NEW S \in Waits, Phase!Await(c, S)
  PROVE  Phase!IInv'
PROOF
  <1>1. /\ Phase!TypeOK /\ Phase!Registered /\ Phase!StepsInPlace /\ Phase!CallbacksHeld /\ Phase!Settled
        /\ Phase!NextStepReached
        /\ phaseStep # "none" /\ waits[c] = {}
        /\ UNCHANGED <<phaseNow, place, phaseStep, phase, due, armed, deferred, dirty>>
    BY DEF Phase!IInv, Phase!Await, Phase!Ready, Phase!loopVars
  <1>2. CASE Phase!Forbidden(S)
    <2>1. aborted' = TRUE /\ UNCHANGED <<waits, asked, phaseQueue, count, done>>
      BY <1>2 DEF Phase!Await, Phase!waitVars
    <2>2. Phase!TypeOK'
      BY <1>1, <2>1 DEF Phase!TypeOK
    <2>3. Phase!Registered'
      BY <1>1, <2>1 DEF Phase!Registered, Phase!LiveIn, Phase!WaitingFor
    <2> QED BY <1>1, <2>1, <2>2, <2>3
        DEF Phase!IInv, Phase!StepsInPlace, Phase!CallbacksHeld, Phase!Settled, Phase!NextStepReached, Phase!WaitingFor
  <1>3. CASE ~Phase!Forbidden(S)
    <2>1. /\ waits' = [waits EXCEPT ![c] = S]
          /\ asked' = [asked EXCEPT ![c] = phaseNow]
          /\ UNCHANGED <<done, aborted>>
      BY <1>3 DEF Phase!Await
    <2>2. /\ phaseQueue' \in [Phase!Kinds -> Seq(Entry)]
          /\ count' \in [Phase!Kinds -> 0..Cardinality(Coros)]
          /\ Phase!Registered'
          /\ \A k \in Phase!Kinds :
               Phase!WaitingFor(k)' = Phase!WaitingFor(k) \cup (IF k \in S THEN {c} ELSE {})
      BY <1>3, AwaitRegisters
    <2>3. Phase!TypeOK'
      BY PhaseSizes, <1>1, <2>1, <2>2 DEF Phase!TypeOK, Entry
    <2>4. Phase!StepsInPlace' /\ Phase!CallbacksHeld'
      BY <1>1 DEF Phase!StepsInPlace, Phase!CallbacksHeld
    <2>5. Phase!Settled'
      <3>1. place # "rw" /\ place # "ro"
        BY <1>1 DEF Phase!StepsInPlace
      <3>2. CASE place = "time"
        <4>1. phase = "ro"
          BY <1>1, <3>2 DEF Phase!StepsInPlace
        <4>2. "rw" \notin S /\ "ro" \notin S
          BY <4>1, <1>3 DEF Phase!Forbidden
        <4>3. Phase!WaitingFor("rw")' = Phase!WaitingFor("rw") /\ Phase!WaitingFor("ro")' = Phase!WaitingFor("ro")
          BY <2>2, <4>2 DEF Phase!Kinds
        <4> QED BY <1>1, <4>3 DEF Phase!Settled
      <3> QED BY <3>1, <3>2, <1>1 DEF Phase!Settled
    <2>6. Phase!NextStepReached'
      <3>1. place # "next" /\ place' # "next" /\ phaseNow' = phaseNow
        BY <1>1 DEF Phase!StepsInPlace
      <3>2. ASSUME NEW d \in Phase!WaitingFor("nts")'
            PROVE  \/ asked'[d] = phaseNow
                   \/ asked'[d] + 1 = phaseNow /\ phaseStep' = "dueNts"
        <4>1. asked'[c] = phaseNow /\ (d # c => asked'[d] = asked[d])
          BY <2>1, <1>1, <3>2 DEF Phase!TypeOK, Phase!WaitingFor
        <4>2. d # c => d \in Phase!WaitingFor("nts")
          BY <2>2, <3>2 DEF Phase!Kinds
        <4> QED BY <4>1, <4>2, <3>1, <1>1 DEF Phase!NextStepReached
      <3> QED BY <3>1, <3>2 DEF Phase!NextStepReached
    <2> QED BY <2>2, <2>3, <2>4, <2>5, <2>6 DEF Phase!IInv
  <1> QED BY <1>2, <1>3

LEMMA InterruptKeeps ==
  ASSUME Phase!PhasesAssumption, Phase!IInv, NEW c \in Coros, Phase!Interrupt(c)
  PROVE  Phase!IInv'
PROOF
  <1>1. /\ Phase!TypeOK /\ Phase!Registered /\ Phase!StepsInPlace /\ Phase!CallbacksHeld /\ Phase!Settled
        /\ Phase!NextStepReached
        /\ phaseStep # "none"
        /\ Phase!EndWait(phaseQueue, {c})
        /\ done' \in {done, done \cup {c}}
        /\ UNCHANGED <<phaseNow, place, phaseStep, phase, asked, due, armed, deferred, dirty, aborted>>
    BY DEF Phase!IInv, Phase!Interrupt, Phase!loopVars
  <1>2. {c} \in SUBSET Coros
    OBVIOUS
  <1>3. /\ phaseQueue' \in [Phase!Kinds -> Seq(Entry)]
        /\ count' \in [Phase!Kinds -> 0..Cardinality(Coros)]
        /\ waits' \in [Coros -> Waits \cup {{}}]
        /\ \A k \in Phase!Kinds : Phase!WaitingFor(k)' = Phase!WaitingFor(k) \ {c}
        /\ Phase!Registered'
    BY <1>1, <1>2, EndWaitKeeps
  <1>4. Phase!TypeOK'
    BY PhaseSizes, <1>1, <1>3 DEF Phase!TypeOK, Entry
  <1>5. Phase!StepsInPlace' /\ Phase!CallbacksHeld'
    BY <1>1 DEF Phase!StepsInPlace, Phase!CallbacksHeld
  <1>6. \A k \in Phase!Kinds : Phase!WaitingFor(k)' \subseteq Phase!WaitingFor(k)
    BY <1>3
  <1>7. Phase!Settled' /\ Phase!NextStepReached'
    BY <1>1, <1>6, FewerWait, FewerLeft DEF Phase!Kinds
  <1> QED BY <1>3, <1>4, <1>5, <1>7 DEF Phase!IInv

LEMMA ReturnKeeps ==
  ASSUME Phase!PhasesAssumption, Phase!IInv, NEW c \in Coros, Phase!Return(c)
  PROVE  Phase!IInv'
PROOF
  <1>1. /\ Phase!TypeOK /\ Phase!Registered
        /\ done' = done \cup {c}
        /\ UNCHANGED <<phaseNow, place, phaseStep, phase, waits, asked, due, phaseQueue, count, armed,
                       deferred, dirty, aborted>>
    BY DEF Phase!IInv, Phase!Return, Phase!loopVars
  <1>2. Phase!TypeOK'
    BY <1>1 DEF Phase!TypeOK
  <1>3. Phase!Registered'
    BY PhaseSizes, <1>1 DEF Phase!Registered, Phase!LiveIn, Phase!WaitingFor
  <1>4. (Phase!StepsInPlace /\ Phase!Settled /\ Phase!NextStepReached)'
    BY <1>1 DEF Phase!IInv, Phase!StepsInPlace, Phase!Settled, Phase!NextStepReached, Phase!WaitingFor
  <1>5. Phase!CallbacksHeld'
    BY <1>1 DEF Phase!IInv, Phase!CallbacksHeld, Phase!HasWaiters
  <1> QED BY <1>2, <1>3, <1>4, <1>5 DEF Phase!IInv

\* A write is only queued or applied outside ReadOnly.
LEMMA SetKeeps ==
  ASSUME Phase!PhasesAssumption, Phase!IInv, NEW c \in Coros, Phase!Set(c)
  PROVE  Phase!IInv'
PROOF
  <1>1. /\ Phase!TypeOK /\ Phase!Registered /\ Phase!StepsInPlace /\ Phase!Settled /\ Phase!NextStepReached
        /\ phaseStep # "none"
        /\ UNCHANGED <<phaseNow, place, phaseStep, phase, waits, asked, due, phaseQueue, count, done, armed>>
    BY DEF Phase!IInv, Phase!Set, Phase!loopVars, Phase!waitVars
  <1>2. /\ deferred' \in 0..MaxWrites /\ dirty' \in BOOLEAN /\ aborted' \in BOOLEAN
        /\ phaseStep = "ro" => deferred' = deferred /\ dirty' = dirty
    <2>1. deferred \in 0..MaxWrites /\ MaxWrites \in Nat /\ dirty \in BOOLEAN
          /\ aborted \in BOOLEAN
      BY <1>1 DEF Phase!TypeOK, Phase!PhasesAssumption
    <2>2. \/ aborted' = TRUE /\ UNCHANGED <<deferred, dirty>>
          \/ /\ phaseStep # "ro" /\ deferred < MaxWrites /\ deferred' = deferred + 1
             /\ UNCHANGED <<dirty, aborted>>
          \/ phaseStep # "ro" /\ dirty' = TRUE /\ UNCHANGED <<deferred, aborted>>
      BY DEF Phase!Set
    <2>3. deferred' \in 0..MaxWrites
      BY <2>1, <2>2
    <2>4. dirty' \in BOOLEAN /\ aborted' \in BOOLEAN
      BY <2>1, <2>2, Zenon
    <2>5. phaseStep = "ro" => deferred' = deferred /\ dirty' = dirty
      BY <2>2, Zenon
    <2> QED BY <2>3, <2>4, <2>5
  <1>3. Phase!TypeOK'
    BY <1>1, <1>2 DEF Phase!TypeOK
  <1>4. Phase!Registered'
    BY <1>1 DEF Phase!Registered, Phase!LiveIn, Phase!WaitingFor
  <1>5. (Phase!StepsInPlace /\ Phase!NextStepReached /\ Phase!CallbacksHeld)'
    BY <1>1 DEF Phase!StepsInPlace, Phase!NextStepReached, Phase!CallbacksHeld, Phase!WaitingFor
  <1>6. Phase!Settled'
    BY <1>1, <1>2 DEF Phase!Settled, Phase!StepsInPlace, Phase!WaitingFor
  <1> QED BY <1>3, <1>4, <1>5, <1>6 DEF Phase!IInv

-----------------------------------------------------------------------------
(* The steps of the host loop.                                             *)

\* Delays are due only between steps, before the design is evaluated.
LEMMA NoneDue ==
  ASSUME Phase!StepsInPlace, phaseStep # "none" \/ place \notin {"next", "eval"}
  PROVE  due = {}
BY DEF Phase!StepsInPlace

\* A step of NextTimeStep or ReadOnly in which no Delay is due has ended every wait
\* for its phase.
LEMMA DispatchEnds ==
  ASSUME Phase!PhasesAssumption, Phase!IInv, NEW k \in {"ro", "nts"}, Phase!StepOf(k),
         due = {}, place' \in {"next", "eval", "rw", "ro", "time"}
  PROVE  /\ Phase!TypeOK' /\ Phase!Registered'
         /\ \A j \in Phase!Kinds : Phase!WaitingFor(j)' \subseteq Phase!WaitingFor(j)
         /\ Phase!WaitingFor(k)' = {}
         /\ phaseStep' = k /\ phase' = k
         /\ due' = {}
         /\ UNCHANGED <<phaseNow, asked, done, aborted, deferred, dirty>>
PROOF
  <1>1. /\ Phase!ResumePhase(k) /\ phaseStep' = k /\ phase' = k
        /\ armed' = armed \ {k}
        /\ due' = {}
        /\ UNCHANGED <<phaseNow, asked, done, aborted, deferred, dirty>>
    BY DEF Phase!StepOf, Phase!Dispatch
  <1>2. Phase!TypeOK /\ Phase!Registered /\ k \in Phase!Kinds
    BY DEF Phase!IInv, Phase!Kinds
  <1>3. /\ phaseQueue' \in [Phase!Kinds -> Seq(Entry)]
        /\ count' \in [Phase!Kinds -> 0..Cardinality(Coros)]
        /\ waits' \in [Coros -> Waits \cup {{}}]
        /\ \A j \in Phase!Kinds : Phase!WaitingFor(j)' \subseteq Phase!WaitingFor(j)
        /\ Phase!WaitingFor(k)' = {}
        /\ Phase!Registered'
    BY <1>1, <1>2, ResumePhaseKeeps
  <1>4. Phase!TypeOK'
    BY PhaseSizes, <1>1, <1>2, <1>3 DEF Phase!TypeOK, Entry, Phase!Steps
  <1> QED BY <1>1, <1>3, <1>4

\* The Delays that are due end, and nobody begins to wait.
LEMMA ResumeDueKeeps ==
  ASSUME Phase!PhasesAssumption, Phase!IInv, NEW first \in Phase!FirstHalves,
         Phase!ResumeDue(first),
         place' \in {"next", "eval", "rw", "ro", "time"}, armed' \subseteq Phase!Kinds,
         UNCHANGED <<phaseNow, asked, deferred, dirty, done, aborted>>
  PROVE  /\ Phase!TypeOK' /\ Phase!Registered'
         /\ \A j \in Phase!Kinds : Phase!WaitingFor(j)' \subseteq Phase!WaitingFor(j)
         /\ phaseStep' = first /\ due' = {}
PROOF
  <1>1. /\ phaseStep' = first /\ phase' = "evaluation" /\ due' = {}
        /\ Phase!EndWait(phaseQueue, due)
    BY DEF Phase!ResumeDue
  <1>2. Phase!TypeOK /\ Phase!Registered
    BY DEF Phase!IInv
  <1>3. due \in SUBSET Coros
    BY <1>2 DEF Phase!TypeOK
  <1>4. /\ phaseQueue' \in [Phase!Kinds -> Seq(Entry)]
        /\ count' \in [Phase!Kinds -> 0..Cardinality(Coros)]
        /\ waits' \in [Coros -> Waits \cup {{}}]
        /\ \A k \in Phase!Kinds : Phase!WaitingFor(k)' = Phase!WaitingFor(k) \ due
        /\ Phase!Registered'
    BY <1>1, <1>2, <1>3, EndWaitKeeps
  <1>5. Phase!TypeOK'
    BY PhaseSizes, <1>1, <1>2, <1>4 DEF Phase!TypeOK, Entry, Phase!Steps
  <1> QED BY <1>1, <1>4, <1>5

\* The second half of a step: the waiters of its phase resume.
LEMMA SecondHalfKeeps ==
  ASSUME Phase!PhasesAssumption, Phase!IInv,
         NEW first \in {"flush", "dueNts"}, NEW k \in {"rw", "nts"},
         first = "dueNts" => k = "nts", Phase!SecondHalf(first, k)
  PROVE  Phase!IInv'
PROOF
  <1>1. /\ Phase!TypeOK /\ Phase!Registered /\ Phase!StepsInPlace /\ Phase!Settled /\ Phase!NextStepReached
        /\ phaseStep = first /\ phaseStep' = k /\ phase' = k
        /\ Phase!ResumePhase(k) /\ k \in Phase!Kinds
        /\ UNCHANGED <<phaseNow, place, asked, due, armed, deferred, dirty, done, aborted>>
    BY DEF Phase!IInv, Phase!SecondHalf, Phase!loopVars, Phase!Kinds
  <1>2. /\ phaseQueue' \in [Phase!Kinds -> Seq(Entry)]
        /\ count' \in [Phase!Kinds -> 0..Cardinality(Coros)]
        /\ waits' \in [Coros -> Waits \cup {{}}]
        /\ \A j \in Phase!Kinds : Phase!WaitingFor(j)' \subseteq Phase!WaitingFor(j)
        /\ Phase!WaitingFor(k)' = {}
        /\ Phase!Registered'
    BY <1>1, ResumePhaseKeeps
  <1>3. Phase!TypeOK'
    BY PhaseSizes, <1>1, <1>2 DEF Phase!TypeOK, Entry, Phase!Steps
  <1>4. Phase!StepsInPlace' /\ Phase!CallbacksHeld'
    BY <1>1 DEF Phase!StepsInPlace, Phase!CallbacksHeld
  <1>5. Phase!Settled'
    BY <1>1, <1>2, FewerLeft
  <1>6. Phase!NextStepReached'
    <2>1. CASE k = "nts"
      BY <1>2, <2>1 DEF Phase!NextStepReached
    <2>2. CASE k # "nts"
      BY <1>1, <1>2, <2>2, FewerWait DEF Phase!Kinds
    <2> QED BY <2>1, <2>2
  <1> QED BY <1>2, <1>3, <1>4, <1>5, <1>6 DEF Phase!IInv

LEMMA EndStepKeeps ==
  ASSUME Phase!PhasesAssumption, Phase!IInv, Phase!EndStep
  PROVE  Phase!IInv'
PROOF
  <1>1. /\ Phase!TypeOK /\ Phase!Registered /\ Phase!StepsInPlace /\ Phase!Settled /\ Phase!NextStepReached
        /\ phaseStep # "none" /\ phaseStep # "dueNts" /\ phaseStep' = "none"
        /\ armed' = IF Backend = "vpi" THEN armed \cup {k \in Phase!Kinds : Phase!HasWaiters(k)} ELSE {}
        /\ UNCHANGED <<phaseNow, place, phase, waits, asked, due, phaseQueue, count, done, deferred,
                       dirty, aborted>>
    BY DEF Phase!IInv, Phase!EndStep, Phase!loopVars, Phase!waitVars, Phase!FirstHalves
  <1>2. Phase!TypeOK'
    BY <1>1 DEF Phase!TypeOK
  <1>3. Phase!Registered'
    BY <1>1 DEF Phase!Registered, Phase!LiveIn, Phase!WaitingFor
  <1>4. (Phase!StepsInPlace /\ Phase!Settled /\ Phase!NextStepReached)'
    BY <1>1 DEF Phase!StepsInPlace, Phase!Settled, Phase!NextStepReached, Phase!WaitingFor
  <1>5. Phase!CallbacksHeld'
    BY <1>1 DEF Phase!CallbacksHeld, Phase!HasWaiters
  <1> QED BY <1>2, <1>3, <1>4, <1>5 DEF Phase!IInv

LEMMA NextTimeStepKeeps ==
  ASSUME Phase!PhasesAssumption, Phase!IInv, Phase!NextTimeStep
  PROVE  Phase!IInv'
PROOF
  <1>1. /\ Phase!TypeOK /\ Phase!Registered /\ Phase!StepsInPlace /\ Phase!CallbacksHeld /\ Phase!NextStepReached
        /\ phaseStep = "none" /\ place = "next" /\ place' = "eval"
    BY DEF Phase!IInv, Phase!NextTimeStep
  <1>2. CASE Phase!Pending("nts")
    <2>1. Phase!StepOf("nts")
      BY <1>2 DEF Phase!NextTimeStep
    <2>2. CASE due = {}
      <3>1. /\ Phase!TypeOK' /\ Phase!Registered'
            /\ Phase!WaitingFor("nts")' = {}
            /\ phaseStep' = "nts" /\ due' = {}
        BY <1>1, <2>1, <2>2, DispatchEnds
      <3>2. Phase!StepsInPlace' /\ Phase!CallbacksHeld' /\ Phase!Settled' /\ Phase!NextStepReached'
        BY <1>1, <3>1 DEF Phase!StepsInPlace, Phase!CallbacksHeld, Phase!Settled, Phase!NextStepReached
      <3> QED BY <3>1, <3>2 DEF Phase!IInv
    <2>3. CASE due # {}
      <3>1. /\ Phase!ResumeDue("dueNts")
            /\ armed' = armed \ {"nts"}
            /\ UNCHANGED <<phaseNow, asked, deferred, dirty, done, aborted>>
        BY <2>1, <2>3 DEF Phase!StepOf
      <3>2. armed' \subseteq Phase!Kinds /\ "dueNts" \in Phase!FirstHalves
        BY <1>1, <3>1 DEF Phase!TypeOK, Phase!FirstHalves
      <3>3. /\ Phase!TypeOK' /\ Phase!Registered'
            /\ Phase!WaitingFor("nts")' \subseteq Phase!WaitingFor("nts")
            /\ phaseStep' = "dueNts" /\ due' = {}
        BY <1>1, <3>1, <3>2, ResumeDueKeeps DEF Phase!Kinds
      <3>4. Phase!StepsInPlace' /\ Phase!CallbacksHeld' /\ Phase!Settled'
        BY <1>1, <3>3 DEF Phase!StepsInPlace, Phase!CallbacksHeld, Phase!Settled
      <3>5. Phase!NextStepReached'
        BY <1>1, <3>1, <3>3 DEF Phase!NextStepReached
      <3> QED BY <3>3, <3>4, <3>5 DEF Phase!IInv
    <2> QED BY <2>2, <2>3
  <1>3. CASE ~Phase!Pending("nts")
    <2>1. UNCHANGED <<phaseNow, phaseStep, phase, waits, asked, due, phaseQueue, count, done, armed,
                      deferred, dirty, aborted>>
      BY <1>3 DEF Phase!NextTimeStep, Phase!waitVars
    <2>2. Phase!WaitingFor("nts") = {}
      BY <1>1, <1>3, NotPending DEF Phase!Kinds
    <2>3. Phase!TypeOK'
      BY <1>1, <2>1 DEF Phase!TypeOK
    <2>4. Phase!Registered'
      BY <1>1, <2>1 DEF Phase!Registered, Phase!LiveIn, Phase!WaitingFor
    <2>5. Phase!CallbacksHeld'
      BY <1>1, <2>1 DEF Phase!CallbacksHeld, Phase!HasWaiters
    <2>6. Phase!StepsInPlace' /\ Phase!Settled' /\ Phase!NextStepReached'
      BY <1>1, <2>1, <2>2 DEF Phase!StepsInPlace, Phase!Settled, Phase!NextStepReached, Phase!WaitingFor
    <2> QED BY <2>3, <2>4, <2>5, <2>6 DEF Phase!IInv
  <1> QED BY <1>2, <1>3

\* An edge ends waits for edges, and nobody begins to wait.
LEMMA NotifyEdgeKeeps ==
  ASSUME Phase!PhasesAssumption, Phase!IInv, NEW S, Phase!NotifyEdge(S),
         place = "eval", phaseStep # "dueNts", due = {}, due' = {}
  PROVE  Phase!IInv'
PROOF
  <1>1. /\ Phase!TypeOK /\ Phase!Registered /\ Phase!StepsInPlace /\ Phase!Settled /\ Phase!NextStepReached
        /\ S \in SUBSET Coros /\ Phase!EndWait(phaseQueue, S)
        /\ phaseStep' = "edge" /\ phase' = "evaluation"
        /\ UNCHANGED <<phaseNow, place, asked, armed, deferred, dirty, done, aborted>>
    BY DEF Phase!IInv, Phase!NotifyEdge, Phase!loopVars
  <1>2. /\ phaseQueue' \in [Phase!Kinds -> Seq(Entry)]
        /\ count' \in [Phase!Kinds -> 0..Cardinality(Coros)]
        /\ waits' \in [Coros -> Waits \cup {{}}]
        /\ \A k \in Phase!Kinds : Phase!WaitingFor(k)' = Phase!WaitingFor(k) \ S
        /\ Phase!Registered'
    BY <1>1, EndWaitKeeps
  <1>3. Phase!TypeOK'
    BY PhaseSizes, <1>1, <1>2 DEF Phase!TypeOK, Entry, Phase!Steps
  <1>4. Phase!StepsInPlace' /\ Phase!CallbacksHeld'
    BY <1>1 DEF Phase!StepsInPlace, Phase!CallbacksHeld
  <1>5. \A k \in Phase!Kinds : Phase!WaitingFor(k)' \subseteq Phase!WaitingFor(k)
    BY <1>2
  <1>6. Phase!Settled' /\ Phase!NextStepReached'
    BY <1>1, <1>5, FewerWait, FewerLeft DEF Phase!Kinds
  <1> QED BY <1>2, <1>3, <1>4, <1>6 DEF Phase!IInv

LEMMA EdgeKeeps ==
  ASSUME Phase!PhasesAssumption, Phase!IInv, Phase!Edge
  PROVE  Phase!IInv'
PROOF
  <1>1. /\ Phase!TypeOK /\ Phase!Registered /\ Phase!StepsInPlace /\ Phase!Settled /\ Phase!NextStepReached
        /\ place = "eval" /\ phaseStep = "none"
    BY DEF Phase!IInv, Phase!Edge
  <1>2. CASE due = {}
    BY <1>1, <1>2, NotifyEdgeKeeps DEF Phase!Edge
  <1>3. CASE due # {}
    <2>1. /\ Phase!ResumeDue("dueEdge")
          /\ UNCHANGED <<phaseNow, place, asked, armed, deferred, dirty, done, aborted>>
      BY <1>3 DEF Phase!Edge, Phase!loopVars
    <2>2. "dueEdge" \in Phase!FirstHalves /\ armed' \subseteq Phase!Kinds /\ place' = "eval"
      BY <1>1, <2>1 DEF Phase!TypeOK, Phase!FirstHalves
    <2>3. /\ Phase!TypeOK' /\ Phase!Registered'
          /\ \A j \in Phase!Kinds : Phase!WaitingFor(j)' \subseteq Phase!WaitingFor(j)
          /\ phaseStep' = "dueEdge" /\ due' = {}
      BY <2>1, <2>2, ResumeDueKeeps
    <2>4. Phase!StepsInPlace' /\ Phase!CallbacksHeld'
      BY <1>1, <2>2, <2>3 DEF Phase!StepsInPlace, Phase!CallbacksHeld
    <2>5. Phase!Settled' /\ Phase!NextStepReached'
      BY <1>1, <2>1, <2>3, FewerWait, FewerLeft DEF Phase!Kinds
    <2> QED BY <2>3, <2>4, <2>5 DEF Phase!IInv
  <1> QED BY <1>2, <1>3

LEMMA ResumeEdgeKeeps ==
  ASSUME Phase!PhasesAssumption, Phase!IInv, Phase!ResumeEdge
  PROVE  Phase!IInv'
PROOF
  <1>1. Phase!StepsInPlace /\ phaseStep = "dueEdge" /\ due' = due
    BY DEF Phase!IInv, Phase!ResumeEdge
  <1>2. PICK S \in SUBSET Coros : Phase!NotifyEdge(S)
    BY DEF Phase!ResumeEdge
  <1>3. due = {} /\ place = "eval"
    BY <1>1 DEF Phase!StepsInPlace
  <1> QED BY <1>1, <1>2, <1>3, NotifyEdgeKeeps

LEMMA EvaluatedKeeps ==
  ASSUME Phase!PhasesAssumption, Phase!IInv, Phase!Evaluated
  PROVE  Phase!IInv'
PROOF
  <1>1. /\ Phase!TypeOK /\ Phase!Registered /\ Phase!StepsInPlace /\ Phase!CallbacksHeld /\ Phase!NextStepReached
        /\ phaseStep = "none" /\ place = "eval" /\ place' = "rw" /\ dirty' = FALSE /\ due = {}
        /\ UNCHANGED <<phaseNow, phaseStep, phase, waits, asked, due, phaseQueue, count, done, armed,
                       deferred, aborted>>
    BY DEF Phase!IInv, Phase!Evaluated, Phase!waitVars
  <1>2. Phase!TypeOK'
    BY <1>1 DEF Phase!TypeOK
  <1>3. Phase!Registered'
    BY <1>1 DEF Phase!Registered, Phase!LiveIn, Phase!WaitingFor
  <1>4. Phase!CallbacksHeld'
    BY <1>1 DEF Phase!CallbacksHeld, Phase!HasWaiters
  <1>5. (Phase!StepsInPlace /\ Phase!Settled /\ Phase!NextStepReached)'
    BY <1>1 DEF Phase!StepsInPlace, Phase!Settled, Phase!NextStepReached, Phase!WaitingFor
  <1> QED BY <1>2, <1>3, <1>4, <1>5 DEF Phase!IInv

\* The loop leaves ReadWrite only when nobody asks for it any more and no write is
\* queued.
LEMMA ReadWriteKeeps ==
  ASSUME Phase!PhasesAssumption, Phase!IInv, Phase!ReadWrite
  PROVE  Phase!IInv'
PROOF
  <1>1. /\ Phase!TypeOK /\ Phase!Registered /\ Phase!StepsInPlace /\ Phase!CallbacksHeld /\ Phase!Settled
        /\ Phase!NextStepReached
        /\ phaseStep = "none" /\ place = "rw" /\ MaxWrites \in Nat
        /\ due = {}
    BY NoneDue DEF Phase!IInv, Phase!ReadWrite, Phase!PhasesAssumption
  <1>2. CASE Phase!Pending("rw")
    <2>1. /\ place' = "eval" /\ phaseStep' = "flush" /\ phase' = "evaluation"
          /\ armed' = armed \ {"rw"} /\ deferred' = 0
          /\ dirty' = (dirty \/ deferred # 0)
          /\ \E S \in SUBSET {c \in Coros : deferred # 0 /\ "edge" \in waits[c]} :
               Phase!EndWait(phaseQueue, S)
          /\ UNCHANGED <<phaseNow, asked, due, done, aborted>>
      BY <1>1, <1>2 DEF Phase!ReadWrite, Phase!AfterReadWrite, Phase!StepOf, Phase!Dispatch
    <2>2. PICK S \in SUBSET {c \in Coros : deferred # 0 /\ "edge" \in waits[c]} :
            Phase!EndWait(phaseQueue, S)
      BY <2>1
    <2>3. S \in SUBSET Coros
      OBVIOUS
    <2>4. /\ phaseQueue' \in [Phase!Kinds -> Seq(Entry)]
          /\ count' \in [Phase!Kinds -> 0..Cardinality(Coros)]
          /\ waits' \in [Coros -> Waits \cup {{}}]
          /\ \A k \in Phase!Kinds : Phase!WaitingFor(k)' = Phase!WaitingFor(k) \ S
          /\ Phase!Registered'
      BY <1>1, <2>2, <2>3, EndWaitKeeps
    <2>5. dirty' \in BOOLEAN
      BY <2>1
    <2>6. Phase!TypeOK'
      <3>1. deferred' \in 0..MaxWrites /\ armed' \subseteq Phase!Kinds
        BY <1>1, <2>1 DEF Phase!TypeOK
      <3> QED BY PhaseSizes, <1>1, <2>1, <2>4, <2>5, <3>1 DEF Phase!TypeOK, Entry, Phase!Steps, Phase!FirstHalves
    <2>7. Phase!StepsInPlace' /\ Phase!CallbacksHeld' /\ Phase!Settled'
      BY <1>1, <2>1 DEF Phase!StepsInPlace, Phase!CallbacksHeld, Phase!Settled
    <2>8. Phase!NextStepReached'
      BY <1>1, <2>1, <2>4 DEF Phase!NextStepReached, Phase!Kinds
    <2> QED BY <2>4, <2>6, <2>7, <2>8 DEF Phase!IInv
  <1>3. CASE ~Phase!Pending("rw")
    <2>1. /\ place' = "ro"
          /\ UNCHANGED <<phaseNow, phaseStep, phase, waits, asked, due, phaseQueue, count, done, armed,
                         deferred, dirty, aborted>>
      BY <1>3 DEF Phase!ReadWrite, Phase!waitVars
    <2>2. Phase!WaitingFor("rw") = {} /\ deferred = 0
      BY <1>1, <1>3, NotPending DEF Phase!Kinds
    <2>3. Phase!TypeOK'
      BY <1>1, <2>1 DEF Phase!TypeOK
    <2>4. Phase!Registered'
      BY <1>1, <2>1 DEF Phase!Registered, Phase!LiveIn, Phase!WaitingFor
    <2>5. Phase!CallbacksHeld'
      BY <1>1, <2>1 DEF Phase!CallbacksHeld, Phase!HasWaiters
    <2>6. (Phase!StepsInPlace /\ Phase!Settled /\ Phase!NextStepReached)'
      BY <1>1, <2>1, <2>2 DEF Phase!StepsInPlace, Phase!Settled, Phase!NextStepReached, Phase!WaitingFor
    <2> QED BY <2>3, <2>4, <2>5, <2>6 DEF Phase!IInv
  <1> QED BY <1>2, <1>3

LEMMA ReadOnlyKeeps ==
  ASSUME Phase!PhasesAssumption, Phase!IInv, Phase!ReadOnly
  PROVE  Phase!IInv'
PROOF
  <1>1. /\ Phase!TypeOK /\ Phase!Registered /\ Phase!StepsInPlace /\ Phase!CallbacksHeld /\ Phase!Settled
        /\ Phase!NextStepReached
        /\ phaseStep = "none" /\ place = "ro" /\ place' = "time"
        /\ due = {}
    BY NoneDue DEF Phase!IInv, Phase!ReadOnly
  <1>2. CASE Phase!Pending("ro")
    <2>1. Phase!StepOf("ro")
      BY <1>2 DEF Phase!ReadOnly
    <2>2. /\ Phase!TypeOK' /\ Phase!Registered'
          /\ \A j \in Phase!Kinds : Phase!WaitingFor(j)' \subseteq Phase!WaitingFor(j)
          /\ Phase!WaitingFor("ro")' = {}
          /\ phaseStep' = "ro" /\ phase' = "ro" /\ due' = {}
          /\ UNCHANGED <<phaseNow, asked, done, aborted, deferred, dirty>>
      BY <1>1, <2>1, DispatchEnds
    <2>3. Phase!StepsInPlace' /\ Phase!CallbacksHeld' /\ Phase!Settled'
      BY <1>1, <2>2 DEF Phase!StepsInPlace, Phase!CallbacksHeld, Phase!Settled, Phase!Kinds
    <2>4. Phase!NextStepReached'
      BY <1>1, <2>2 DEF Phase!NextStepReached, Phase!Kinds
    <2> QED BY <2>2, <2>3, <2>4 DEF Phase!IInv
  <1>3. CASE ~Phase!Pending("ro")
    <2>1. UNCHANGED <<phaseNow, phaseStep, phase, waits, asked, due, phaseQueue, count, done, armed,
                      deferred, dirty, aborted>>
      BY <1>3 DEF Phase!ReadOnly, Phase!waitVars
    <2>2. Phase!WaitingFor("ro") = {}
      BY <1>1, <1>3, NotPending DEF Phase!Kinds
    <2>3. Phase!TypeOK'
      BY <1>1, <2>1 DEF Phase!TypeOK
    <2>4. Phase!Registered'
      BY <1>1, <2>1 DEF Phase!Registered, Phase!LiveIn, Phase!WaitingFor
    <2>5. Phase!CallbacksHeld'
      BY <1>1, <2>1 DEF Phase!CallbacksHeld, Phase!HasWaiters
    <2>6. (Phase!StepsInPlace /\ Phase!Settled /\ Phase!NextStepReached)'
      BY <1>1, <2>1, <2>2 DEF Phase!StepsInPlace, Phase!Settled, Phase!NextStepReached, Phase!WaitingFor
    <2> QED BY <2>3, <2>4, <2>5, <2>6 DEF Phase!IInv
  <1> QED BY <1>2, <1>3

LEMMA AdvanceTimeKeeps ==
  ASSUME Phase!PhasesAssumption, Phase!IInv, Phase!AdvanceTime
  PROVE  Phase!IInv'
PROOF
  <1>1. /\ Phase!TypeOK /\ Phase!Registered /\ Phase!StepsInPlace /\ Phase!CallbacksHeld /\ Phase!NextStepReached
        /\ phaseStep = "none" /\ place = "time" /\ place' = "next"
        /\ phaseNow < MaxTime /\ phaseNow' = phaseNow + 1 /\ MaxTime \in Nat /\ phaseNow \in 0..MaxTime
        /\ due' \subseteq Coros
        /\ UNCHANGED <<phaseStep, phase, waits, asked, phaseQueue, count, done, armed,
                       deferred, dirty, aborted>>
    BY DEF Phase!IInv, Phase!AdvanceTime, Phase!waitVars, Phase!PhasesAssumption, Phase!TypeOK
  <1>2. phaseNow' \in 0..MaxTime
    BY <1>1
  <1>3. Phase!TypeOK'
    BY <1>1, <1>2 DEF Phase!TypeOK
  <1>4. Phase!Registered'
    BY <1>1 DEF Phase!Registered, Phase!LiveIn, Phase!WaitingFor
  <1>5. Phase!CallbacksHeld'
    BY <1>1 DEF Phase!CallbacksHeld, Phase!HasWaiters
  <1>6. Phase!StepsInPlace' /\ Phase!Settled'
    BY <1>1 DEF Phase!StepsInPlace, Phase!Settled
  <1>7. Phase!NextStepReached'
    BY <1>1 DEF Phase!NextStepReached, Phase!WaitingFor
  <1> QED BY <1>3, <1>4, <1>5, <1>6, <1>7 DEF Phase!IInv

-----------------------------------------------------------------------------
(* The invariant.                                                          *)

LEMMA InitEstablishes ==
  ASSUME Phase!PhasesAssumption, Phase!Init
  PROVE  Phase!IInv
PROOF
  <1>1. \A k : Phase!WaitingFor(k) = {}
    BY DEF Phase!Init, Phase!WaitingFor
  <1>2. \A k \in Phase!Kinds : Phase!LiveIn(k) = {} /\ count[k] = 0 /\ phaseQueue[k] = <<>>
    BY DEF Phase!Init, Phase!LiveIn
  <1>3. Cardinality({}) = 0 /\ Cardinality(Coros) \in Nat
    BY PhaseSizes, FS_EmptySet, FS_CardinalityType DEF Phase!PhasesAssumption
  <1>4. Phase!TypeOK
    <2>1. /\ MaxTime \in Nat /\ MaxWrites \in Nat
          /\ <<>> \in Seq([coro: Coros, live: BOOLEAN])
      BY DEF Phase!PhasesAssumption
    <2>2. 0 \in 0..MaxTime /\ 0 \in 0..MaxWrites /\ 0 \in 0..Cardinality(Coros)
      BY <1>3, <2>1
    <2>3. /\ waits \in [Coros -> Waits \cup {{}}]
          /\ asked \in [Coros -> 0..MaxTime]
          /\ phaseQueue \in [Phase!Kinds -> Seq([coro: Coros, live: BOOLEAN])]
          /\ count \in [Phase!Kinds -> 0..Cardinality(Coros)]
      BY <2>1, <2>2 DEF Phase!Init
    <2> QED BY PhaseSizes, <2>2, <2>3 DEF Phase!Init, Phase!TypeOK, Phase!Steps, Phase!Kinds
  <1>5. Phase!Registered
    BY PhaseSizes, <1>1, <1>2, <1>3 DEF Phase!Registered
  <1>6. Phase!StepsInPlace /\ Phase!CallbacksHeld /\ Phase!Settled /\ Phase!NextStepReached
    BY <1>1 DEF Phase!Init, Phase!StepsInPlace, Phase!CallbacksHeld, Phase!Settled, Phase!NextStepReached
  <1> QED BY <1>4, <1>5, <1>6 DEF Phase!IInv

LEMMA StepKeeps ==
  ASSUME Phase!PhasesAssumption, Phase!IInv, [Phase!Next]_(Phase!vars)
  PROVE  Phase!IInv'
PROOF
  <1>1. CASE UNCHANGED Phase!vars
    <2>1. UNCHANGED <<phaseNow, place, phaseStep, phase, waits, asked, due, phaseQueue, count, armed,
                      deferred, dirty, done, aborted>>
      BY <1>1 DEF Phase!vars
    <2>2. Phase!TypeOK'
      BY <2>1 DEF Phase!IInv, Phase!TypeOK
    <2>3. Phase!Registered'
      BY <2>1 DEF Phase!IInv, Phase!Registered, Phase!LiveIn, Phase!WaitingFor
    <2>4. Phase!CallbacksHeld'
      BY <2>1 DEF Phase!IInv, Phase!CallbacksHeld, Phase!HasWaiters
    <2>5. (Phase!StepsInPlace /\ Phase!Settled /\ Phase!NextStepReached)'
      BY <2>1 DEF Phase!IInv, Phase!StepsInPlace, Phase!Settled, Phase!NextStepReached, Phase!WaitingFor
    <2> QED BY <2>2, <2>3, <2>4, <2>5 DEF Phase!IInv
  <1>2. CASE Phase!Next
    <2>1. CASE \E c \in Coros : \E S \in Waits : Phase!Await(c, S)
      BY <2>1, AwaitKeeps
    <2>2. CASE \E c \in Coros : Phase!Interrupt(c) \/ Phase!Return(c) \/ Phase!Set(c)
      BY <2>2, InterruptKeeps, ReturnKeeps, SetKeeps
    <2>3. CASE Phase!EndStep \/ Phase!NextTimeStep \/ Phase!Edge \/ Phase!Evaluated
      BY <2>3, EndStepKeeps, NextTimeStepKeeps, EdgeKeeps, EvaluatedKeeps
    <2>4. CASE Phase!ReadWrite \/ Phase!ReadOnly \/ Phase!AdvanceTime
      BY <2>4, ReadWriteKeeps, ReadOnlyKeeps, AdvanceTimeKeeps
    <2>5. CASE Phase!ResumeReadWrite
      BY <2>5, SecondHalfKeeps DEF Phase!ResumeReadWrite
    <2>6. CASE Phase!ResumeNextTimeStep
      BY <2>6, SecondHalfKeeps DEF Phase!ResumeNextTimeStep
    <2>7. CASE Phase!ResumeEdge
      BY <2>7, ResumeEdgeKeeps
    <2> QED BY <1>2, <2>1, <2>2, <2>3, <2>4, <2>5, <2>6, <2>7 DEF Phase!Next
  <1> QED BY <1>1, <1>2

\* The inductive invariant: every wait for a phase has its live registration, the
\* callbacks that a VPI simulator holds cover what is awaited between steps, and the
\* loop is at no place before it has settled what comes before it.
THEOREM PhasesInvariant ==
  ASSUME Phase!PhasesAssumption
  PROVE  Phase!Spec => []Phase!IInv
PROOF
  <1>1. Phase!Init => Phase!IInv
    BY InitEstablishes
  <1>2. Phase!IInv /\ [Phase!Next]_(Phase!vars) => Phase!IInv'
    BY StepKeeps
  <1> QED BY <1>1, <1>2, PTL DEF Phase!Spec

-----------------------------------------------------------------------------
(* What the invariant says.                                                *)

\* Two sets between which a function is one-to-one and onto have the same size.
LEMMA OneForEach ==
  ASSUME NEW S, NEW T, IsFiniteSet(S), NEW f \in [S -> T],
         \A x, y \in S : f[x] = f[y] => x = y,
         \A z \in T : \E x \in S : f[x] = z
  PROVE  Cardinality(S) = Cardinality(T)
PROOF
  <1>1. f \in Bijection(S, T)
    BY DEF Bijection, Injection, Surjection, IsInjective
  <1> QED BY <1>1, FS_Bijection DEF ExistsBijection

LEMMA CountedFollows ==
  ASSUME Phase!PhasesAssumption, Phase!IInv
  PROVE  Phase!Counted
PROOF
  <1>1. Phase!TypeOK /\ Phase!Registered
    BY DEF Phase!IInv
  <1>2. ASSUME NEW k \in Phase!Kinds
        PROVE  /\ count[k] = Cardinality(Phase!LiveIn(k))
               /\ {phaseQueue[k][i].coro : i \in Phase!LiveIn(k)} = Phase!WaitingFor(k)
    <2>1. \A i \in Phase!LiveIn(k) : phaseQueue[k][i].coro \in Coros
      BY <1>1, EntriesOf
    <2>2. \A i \in Phase!LiveIn(k) : phaseQueue[k][i].coro \in Phase!WaitingFor(k)
      BY <1>1, <2>1 DEF Phase!Registered, Phase!WaitingFor
    <2>3. \A c \in Phase!WaitingFor(k) : \E i \in Phase!LiveIn(k) : phaseQueue[k][i].coro = c
      BY <1>1 DEF Phase!Registered
    <2>4. \A i, j \in Phase!LiveIn(k) : phaseQueue[k][i].coro = phaseQueue[k][j].coro => i = j
      BY <1>1 DEF Phase!Registered
    <2> DEFINE f == [i \in Phase!LiveIn(k) |-> phaseQueue[k][i].coro]
    <2>5. /\ f \in [Phase!LiveIn(k) -> Phase!WaitingFor(k)]
          /\ \A i, j \in Phase!LiveIn(k) : f[i] = f[j] => i = j
          /\ \A c \in Phase!WaitingFor(k) : \E i \in Phase!LiveIn(k) : f[i] = c
      BY <2>2, <2>3, <2>4
    <2> HIDE DEF f
    <2>6. IsFiniteSet(Phase!LiveIn(k))
      <3>1. Phase!LiveIn(k) \subseteq 1..Len(phaseQueue[k]) /\ Len(phaseQueue[k]) \in Nat
        BY <1>1, EntriesOf
      <3>2. IsFiniteSet(1..Len(phaseQueue[k]))
        BY <3>1, FS_Interval
      <3> QED BY <3>1, <3>2, FS_Subset
    <2>7. Cardinality(Phase!LiveIn(k)) = Cardinality(Phase!WaitingFor(k))
      BY <2>5, <2>6, OneForEach
    <2> QED BY <2>2, <2>3, <2>7, <1>1, NobodyCounted
  <1> QED BY PhaseSizes, <1>2 DEF Phase!Counted

\* Books agree: the counters from which the backends decide whether a phase is
\* dispatched count the live registrations of its queue, and each coroutine that waits
\* for the phase has one.
THEOREM PhasesBooksAgree ==
  ASSUME Phase!PhasesAssumption
  PROVE  Phase!Spec => []Phase!BooksAgree
PROOF
  <1>1. Phase!IInv => Phase!BooksAgree
    BY CountedFollows DEF Phase!BooksAgree
  <1> QED BY <1>1, PhasesInvariant, PTL

LEMMA OrderFollows ==
  ASSUME Phase!PhasesAssumption, Phase!IInv
  PROVE  Phase!SettledReadOnly /\ Phase!NothingLeft
PROOF
  <1>1. Phase!Registered /\ Phase!StepsInPlace /\ Phase!Settled
    BY DEF Phase!IInv
  <1>2. ASSUME phaseStep = "ro"
        PROVE  ~dirty /\ deferred = 0 /\ count["rw"] = 0
    <2>1. place = "time"
      BY <1>1, <1>2 DEF Phase!StepsInPlace
    <2> QED BY <1>1, <2>1, NobodyCounted DEF Phase!Settled, Phase!Kinds
  <1>3. ASSUME place = "time"
        PROVE  deferred = 0 /\ ~dirty /\ \A c \in Coros : waits[c] \cap {"rw", "ro"} = {}
    BY <1>1, <1>3 DEF Phase!Settled, Phase!WaitingFor
  <1> QED BY <1>2, <1>3 DEF Phase!SettledReadOnly, Phase!NothingLeft

\* Phases in order: ReadOnly observes a design with no write queued, applied but not
\* evaluated, or still to be made by somebody who waits for ReadWrite; a ReadWrite or
\* ReadOnly wait ends in the time step in which it began; and a NextTimeStep wait ends
\* with the NextTimeStep step of the one after it, and not before unless a Delay due
\* in such a step resumed the coroutine that began it.
THEOREM PhasesKeepOrder ==
  ASSUME Phase!PhasesAssumption
  PROVE  Phase!Spec => []Phase!PhasesInOrder
PROOF
  <1>1. Phase!IInv => Phase!PhasesInOrder
    BY OrderFollows DEF Phase!PhasesInOrder, Phase!IInv
  <1> QED BY <1>1, PhasesInvariant, PTL

-----------------------------------------------------------------------------
(* Finite sets.                                                            *)

\* A set and its image under a one-to-one function have the same size.
LEMMA SameSize ==
  ASSUME NEW S, NEW T, IsFiniteSet(S), NEW f \in [S -> T],
         \A x, y \in S : f[x] = f[y] => x = y,
         \A z \in T : \E x \in S : f[x] = z
  PROVE  /\ IsFiniteSet(T) /\ Cardinality(T) = Cardinality(S)
         /\ Cardinality(S) \in Nat
PROOF
  <1>1. f \in Bijection(S, T)
    BY DEF Bijection, Injection, Surjection, IsInjective
  <1> QED BY <1>1, FS_Bijection, FS_CardinalityType DEF ExistsBijection

\* What is left of a set has the rest of its members.
LEMMA SizeOfRest ==
  ASSUME NEW S, IsFiniteSet(S), NEW T \in SUBSET S
  PROVE  /\ IsFiniteSet(T) /\ IsFiniteSet(S \ T)
         /\ Cardinality(S) \in Nat /\ Cardinality(T) \in Nat
         /\ Cardinality(S \ T) \in Nat
         /\ Cardinality(S \ T) = Cardinality(S) - Cardinality(T)
PROOF
  <1>1. IsFiniteSet(T) /\ IsFiniteSet(S \ T)
    BY FS_Subset, FS_Difference
  <1>2. S \cap T = T
    OBVIOUS
  <1> QED BY <1>1, <1>2, FS_Difference, FS_CardinalityType

\* Sets with no common member.
LEMMA SizeOfBoth ==
  ASSUME NEW S, IsFiniteSet(S), NEW T, IsFiniteSet(T), S \cap T = {}
  PROVE  /\ IsFiniteSet(S \cup T)
         /\ Cardinality(S) \in Nat /\ Cardinality(T) \in Nat
         /\ Cardinality(S \cup T) = Cardinality(S) + Cardinality(T)
PROOF
  <1>1. Cardinality(S) \in Nat /\ Cardinality(T) \in Nat
    BY FS_CardinalityType
  <1>2. Cardinality(S \cap T) = 0
    BY FS_EmptySet
  <1>3. /\ IsFiniteSet(S \cup T)
        /\ Cardinality(S \cup T) =
             Cardinality(S) + Cardinality(T) - Cardinality(S \cap T)
    BY FS_Union
  <1> QED BY <1>1, <1>2, <1>3

-----------------------------------------------------------------------------
(* The registrations and the waits they belong to.                         *)

LEMMA TriggersFinite ==
  ASSUME Edge!EdgeAssumption
  PROVE  /\ IsFiniteSet(Edge!Triggers) /\ Edge!Other \notin Edge!Triggers
         /\ IsFiniteSet(Coros \X Edge!Triggers)
PROOF
  <1>1. IsFiniteSet(Edge!Signals)
    BY EdgeSizes DEF Edge!EdgeAssumption, Edge!Signals
  <1>2. IsFiniteSet({"rising", "falling", "any"})
    <2>1. IsFiniteSet({"rising"})
      BY FS_Singleton
    <2>2. IsFiniteSet({"rising"} \cup {"falling"})
      BY <2>1, FS_AddElement
    <2>3. IsFiniteSet(({"rising"} \cup {"falling"}) \cup {"any"})
      BY <2>2, FS_AddElement
    <2>4. {"rising", "falling", "any"} = ({"rising"} \cup {"falling"}) \cup {"any"}
      OBVIOUS
    <2> QED BY <2>3, <2>4
  <1>3. IsFiniteSet(Edge!Triggers)
    BY <1>1, <1>2, FS_Product DEF Edge!Triggers
  <1>4. Edge!Other \notin Edge!Triggers
    BY DEF Edge!Other, Edge!Triggers
  <1> QED BY EdgeSizes, <1>3, <1>4, FS_Product DEF Edge!EdgeAssumption

\* The members of EdgesOf.
LEMMA EdgeIs ==
  ASSUME Edge!EdgeAssumption, NEW C \in SUBSET Coros
  PROVE  /\ Edge!EdgesOf(C) \subseteq Edge!EdgesOf(Coros)
         /\ IsFiniteSet(Edge!EdgesOf(C))
         /\ \A c, t : <<c, t>> \in Edge!EdgesOf(C) <=> c \in C /\ t \in Edge!Triggers /\ t \in awaits[c]
         /\ \A x \in Edge!EdgesOf(C) : x = <<x[1], x[2]>> /\ x[1] \in C /\ x[2] \in Edge!Triggers
PROOF
  <1>1. Edge!EdgesOf(C) \subseteq Edge!EdgesOf(Coros) /\ Edge!EdgesOf(Coros) \subseteq Coros \X Edge!Triggers
    BY DEF Edge!EdgesOf
  <1>2. IsFiniteSet(Edge!EdgesOf(C))
    BY <1>1, TriggersFinite, FS_Subset
  <1>3. \A c, t : <<c, t>> \in Edge!EdgesOf(C) <=> c \in C /\ t \in Edge!Triggers /\ t \in awaits[c]
    BY DEF Edge!EdgesOf
  <1>4. \A x \in Edge!EdgesOf(C) : x = <<x[1], x[2]>> /\ x[1] \in C /\ x[2] \in Edge!Triggers
    BY DEF Edge!EdgesOf
  <1> QED BY <1>1, <1>2, <1>3, <1>4

\* The members of EntriesOf.
LEMMA EntryIs ==
  ASSUME NEW T
  PROVE  /\ \A t, r : <<t, r>> \in Edge!EntriesOf(T) <=> t \in T /\ r \in queue[t]
         /\ \A x \in Edge!EntriesOf(T) :
              x = <<x[1], x[2]>> /\ x[1] \in T /\ x[2] \in queue[x[1]]
PROOF
  <1>1. ASSUME NEW x \in Edge!EntriesOf(T)
        PROVE  x = <<x[1], x[2]>> /\ x[1] \in T /\ x[2] \in queue[x[1]]
    <2>1. PICK t \in T : x \in {t} \X queue[t]
      BY DEF Edge!EntriesOf
    <2> QED BY <2>1
  <1>2. ASSUME NEW t \in T, NEW r \in queue[t]
        PROVE  <<t, r>> \in Edge!EntriesOf(T)
    <2>1. <<t, r>> \in {t} \X queue[t]
      OBVIOUS
    <2> QED BY <2>1 DEF Edge!EntriesOf
  <1> QED BY <1>1, <1>2

\* The registrations of a queue q, the edges that the waits a are for, and the
\* registrations of some of them that are live for the slots l and g.
EntriesIn(q) == UNION {{t} \X q[t] : t \in Edge!Triggers}
EdgesIn(a) == {x \in Coros \X Edge!Triggers : x[2] \in a[x[1]]}
LiveIn(q, l, g, S) ==
  {x \in EntriesIn(q) : /\ l[x[2].coro] = "waiting" /\ g[x[2].coro] = x[2].gen
                        /\ <<x[2].coro, x[1]>> \in S}

\* Every edge that a coroutine awaits has its registration.
Fits(q, l, g, a) ==
  \A c \in Coros :
    /\ a[c] # {} => l[c] = "waiting"
    /\ \A t \in a[c] \cap Edge!Triggers : [coro |-> c, gen |-> g[c]] \in q[t]

\* The live registrations are those of the current waits: as many, for any
\* choice S of them.
LEMMA LiveEntries ==
  ASSUME Edge!EdgeAssumption, NEW q \in [Edge!Triggers -> SUBSET Edge!Registration],
         NEW l, NEW g, NEW a,
         Fits(q, l, g, a),
         NEW S \in SUBSET EdgesIn(a)
  PROVE  /\ IsFiniteSet(LiveIn(q, l, g, S))
         /\ Cardinality(LiveIn(q, l, g, S)) = Cardinality(S)
         /\ Cardinality(S) \in Nat
PROOF
  <1> DEFINE L == LiveIn(q, l, g, S)
  <1> DEFINE EntryAt(x) == <<x[2], [coro |-> x[1], gen |-> g[x[1]]]>>
  <1> DEFINE f == [x \in S |-> EntryAt(x)]
  <1>1. IsFiniteSet(S) /\ S \subseteq Coros \X Edge!Triggers
    <2>1. S \in SUBSET (Coros \X Edge!Triggers)
      BY DEF EdgesIn
    <2> QED BY <2>1, TriggersFinite, FS_Subset
  <1>2. ASSUME NEW x \in S
        PROVE  f[x] \in L
    <2>1. /\ x = <<x[1], x[2]>> /\ x[1] \in Coros /\ x[2] \in Edge!Triggers
          /\ x[2] \in a[x[1]]
      BY <1>1 DEF EdgesIn
    <2>2. l[x[1]] = "waiting"
      BY <2>1 DEF Fits
    <2>3. [coro |-> x[1], gen |-> g[x[1]]] \in q[x[2]]
      BY <2>1, <2>2 DEF Fits
    <2>4. EntryAt(x) \in {x[2]} \X q[x[2]]
      BY <2>3
    <2>5. EntryAt(x) \in EntriesIn(q)
      BY <2>1, <2>4 DEF EntriesIn
    <2> QED BY <2>1, <2>2, <2>5 DEF LiveIn
  <1>3. ASSUME NEW x \in S, NEW y \in S, f[x] = f[y]
        PROVE  x = y
    BY <1>1, <1>3
  <1>4. ASSUME NEW z \in L
        PROVE  \E x \in S : f[x] = z
    <2>1. PICK t \in Edge!Triggers : z \in {t} \X q[t]
      BY DEF LiveIn, EntriesIn
    <2>2. /\ z = <<z[1], z[2]>> /\ z[2] \in Edge!Registration
          /\ g[z[2].coro] = z[2].gen /\ <<z[2].coro, z[1]>> \in S
      BY <2>1 DEF LiveIn
    <2>3. z[2] = [coro |-> z[2].coro, gen |-> g[z[2].coro]]
      BY <2>2 DEF Edge!Registration
    <2> QED BY <2>2, <2>3
  <1> HIDE DEF f, L
  <1>5. f \in [S -> L]
    BY <1>2 DEF f
  <1>6. \A x, y \in S : f[x] = f[y] => x = y
    BY <1>3
  <1>7. \A z \in L : \E x \in S : f[x] = z
    BY <1>4
  <1>8. /\ IsFiniteSet(L) /\ Cardinality(L) = Cardinality(S)
        /\ Cardinality(S) \in Nat
    BY ONLY <1>1, <1>5, <1>6, <1>7, SameSize
  <1> QED BY <1>8 DEF L

\* There are as many registrations as current waits for edges, or more.
LEMMA WaitsFit ==
  ASSUME Edge!EdgeAssumption, NEW q \in [Edge!Triggers -> SUBSET Edge!Registration],
         NEW l, NEW g, NEW a,
         Fits(q, l, g, a),
         IsFiniteSet(EntriesIn(q))
  PROVE  /\ Cardinality(EntriesIn(q)) \in Nat /\ Cardinality(EdgesIn(a)) \in Nat
         /\ Cardinality(EdgesIn(a)) <= Cardinality(EntriesIn(q))
PROOF
  <1> DEFINE E == EdgesIn(a)
  <1> DEFINE L == LiveIn(q, l, g, E)
  <1>1. E \in SUBSET EdgesIn(a)
    OBVIOUS
  <1> HIDE DEF E
  <1>2. Cardinality(L) = Cardinality(E) /\ Cardinality(E) \in Nat
    BY <1>1, LiveEntries
  <1>3. L \in SUBSET EntriesIn(q)
    BY DEF LiveIn
  <1> HIDE DEF L
  <1>4. Cardinality(E) <= Cardinality(EntriesIn(q))
    BY <1>2, <1>3, FS_Subset
  <1> QED BY <1>2, <1>4, FS_CardinalityType DEF E

-----------------------------------------------------------------------------
(* The counters.                                                           *)

\* The counters of the waits E, and of the registrations.
CountersOf(E) ==
  /\ \A t \in Edge!Triggers : counts[t] = Cardinality({x \in E : x[2] = t})
  /\ falling = Cardinality(Edge!FallingOf(E))
  /\ entries = stale + Cardinality(E)

\* The counters are numbers, and no smaller than what a wait takes from them.
LEMMA CountersType ==
  ASSUME Edge!EdgeAssumption, NEW E \in SUBSET (Coros \X Edge!Triggers)
  PROVE  /\ IsFiniteSet(E) /\ Cardinality(E) \in Nat
         /\ IsFiniteSet(Edge!FallingOf(E)) /\ Cardinality(Edge!FallingOf(E)) \in Nat
         /\ \A t \in Edge!Triggers : /\ IsFiniteSet({x \in E : x[2] = t})
                                /\ Cardinality({x \in E : x[2] = t}) \in Nat
PROOF
  <1>1. IsFiniteSet(E)
    BY TriggersFinite, FS_Subset
  <1>2. ASSUME NEW S \in SUBSET E
        PROVE  IsFiniteSet(S) /\ Cardinality(S) \in Nat
    BY <1>1, FS_Subset, FS_CardinalityType
  <1>3. Edge!FallingOf(E) \in SUBSET E
    BY DEF Edge!FallingOf
  <1>4. \A t \in Edge!Triggers : {x \in E : x[2] = t} \in SUBSET E
    OBVIOUS
  <1> QED BY <1>2, <1>3, <1>4

\* end_wait takes a coroutine's own registrations out of the counters.
LEMMA EndWaitsCounts ==
  ASSUME Edge!EdgeAssumption, Edge!IInv, NEW C \in SUBSET Coros, NEW dropped \in Nat,
         Edge!EndWaits(C, dropped)
  PROVE  /\ awaits' \in [Coros -> SUBSET (Edge!Triggers \cup {Edge!Other})]
         /\ \A c \in Coros : awaits'[c] = IF c \in C THEN {} ELSE awaits[c]
         /\ Edge!EdgesOf(Coros)' = Edge!EdgesOf(Coros) \ Edge!EdgesOf(C)
         /\ counts' \in [Edge!Triggers -> Nat]
         /\ \A t \in Edge!Triggers : counts'[t] <= counts[t]
         /\ Edge!EdgesOf(C) = {} => counts' = counts
         /\ \A t \in Edge!Triggers : counts'[t] = Cardinality({x \in Edge!EdgesOf(Coros)' : x[2] = t})
         /\ falling' = Cardinality(Edge!FallingOf(Edge!EdgesOf(Coros)')) /\ falling' \in Nat
         /\ stale' \in Int
         /\ entries - dropped = stale' + Cardinality(Edge!EdgesOf(Coros)')
PROOF
  <1> DEFINE E == Edge!EdgesOf(Coros)
  <1> DEFINE D == Edge!EdgesOf(C)
  <1> DEFINE R == E \ D
  <1>1. /\ awaits' = [c \in Coros |-> IF c \in C THEN {} ELSE awaits[c]]
        /\ counts' = [t \in Edge!Triggers |->
                        counts[t] - Cardinality({x \in D : x[2] = t})]
        /\ stale' = stale + Cardinality(D) - dropped
        /\ falling' = falling - Cardinality(Edge!FallingOf(D))
    BY EdgeSizes DEF Edge!EndWaits, Edge!Announce
  <1>2. awaits' \in [Coros -> SUBSET (Edge!Triggers \cup {Edge!Other})]
    BY <1>1 DEF Edge!IInv, Edge!TypeOK
  <1>3. \A c \in Coros : awaits'[c] = IF c \in C THEN {} ELSE awaits[c]
    BY <1>1
  <1>4. E' = R
    BY <1>3 DEF Edge!EdgesOf
  <1>5. D \subseteq E /\ E \in SUBSET (Coros \X Edge!Triggers)
    BY EdgeIs DEF Edge!EdgesOf
  <1>6. /\ \A t \in Edge!Triggers : counts[t] = Cardinality({x \in E : x[2] = t})
        /\ falling = Cardinality(Edge!FallingOf(E))
        /\ stale \in Nat /\ entries = stale + Cardinality(E)
    BY EdgeSizes DEF Edge!IInv, Edge!Shadowed, Edge!TypeOK
  <1> HIDE DEF E, D
  <1>7. ASSUME NEW t \in Edge!Triggers
        PROVE  /\ counts'[t] = Cardinality({x \in R : x[2] = t})
               /\ counts'[t] \in Nat /\ counts'[t] <= counts[t]
               /\ D = {} => counts'[t] = counts[t]
    <2> DEFINE S == {x \in E : x[2] = t}
    <2> DEFINE T == {x \in D : x[2] = t}
    <2>1. {x \in R : x[2] = t} = S \ T
      OBVIOUS
    <2>2. IsFiniteSet(S) /\ T \in SUBSET S
      BY <1>5, CountersType
    <2>3. counts[t] = Cardinality(S) /\ counts'[t] = counts[t] - Cardinality(T)
      BY <1>1, <1>6
    <2>4. D = {} => T = {}
      OBVIOUS
    <2> HIDE DEF S, T
    <2>5. /\ Cardinality(S) \in Nat /\ Cardinality(T) \in Nat
          /\ Cardinality(S \ T) \in Nat
          /\ Cardinality(S \ T) = Cardinality(S) - Cardinality(T)
      BY <2>2, SizeOfRest
    <2>6. T = {} => Cardinality(T) = 0
      BY FS_EmptySet
    <2>7. /\ counts'[t] = Cardinality(S \ T) /\ counts'[t] \in Nat
          /\ counts'[t] <= counts[t]
      BY <2>3, <2>5
    <2>8. D = {} => counts'[t] = counts[t]
      BY <2>3, <2>4, <2>5, <2>6
    <2> QED BY <2>1, <2>7, <2>8
  <1>8. counts' \in [Edge!Triggers -> Nat]
    BY <1>1, <1>7
  <1>9. D = {} => counts' = counts
    <2>1. ASSUME D = {}
          PROVE  counts' = counts
      <3>1. \A t \in Edge!Triggers : counts'[t] = counts[t]
        BY <1>7, <2>1
      <3>2. counts \in [Edge!Triggers -> Nat]
        BY DEF Edge!IInv, Edge!TypeOK
      <3> QED BY <1>8, <3>1, <3>2
    <2> QED BY <2>1
  <1>10. falling' = Cardinality(Edge!FallingOf(R)) /\ falling' \in Nat
    <2>1. Edge!FallingOf(R) = Edge!FallingOf(E) \ Edge!FallingOf(D) /\ Edge!FallingOf(D) \in SUBSET Edge!FallingOf(E)
      BY <1>5 DEF Edge!FallingOf
    <2>2. IsFiniteSet(Edge!FallingOf(E))
      BY <1>5, CountersType
    <2>3. /\ Cardinality(Edge!FallingOf(E) \ Edge!FallingOf(D)) \in Nat
          /\ Cardinality(Edge!FallingOf(E) \ Edge!FallingOf(D))
               = Cardinality(Edge!FallingOf(E)) - Cardinality(Edge!FallingOf(D))
      BY <2>1, <2>2, SizeOfRest
    <2> QED BY <1>1, <1>6, <2>1, <2>3
  <1>11. stale' \in Int /\ entries - dropped = stale' + Cardinality(R)
    <2>1. IsFiniteSet(E)
      BY <1>5, CountersType
    <2>2. /\ Cardinality(E) \in Nat /\ Cardinality(D) \in Nat
          /\ Cardinality(R) = Cardinality(E) - Cardinality(D)
      BY <1>5, <2>1, SizeOfRest
    <2> HIDE DEF R
    <2> QED BY <1>1, <1>6, <2>2
  <1>12. \A t \in Edge!Triggers : counts'[t] = Cardinality({x \in E' : x[2] = t})
    BY <1>4, <1>7
  <1>13. falling' = Cardinality(Edge!FallingOf(E'))
    BY <1>4, <1>10
  <1> HIDE DEF R
  <1>14. entries - dropped = stale' + Cardinality(E')
    BY <1>4, <1>11
  <1> QED
    BY <1>2, <1>3, <1>4, <1>7, <1>8, <1>9, <1>10, <1>11, <1>12, <1>13, <1>14
    DEF E, D, R

-----------------------------------------------------------------------------
(* The interest of the wrapper.                                            *)

\* record_edge_interest_change: an observed signal whose mask changes is among
\* the changes, and so is a clock with a direction that was never published.
LEMMA AnnounceStep ==
  ASSUME Edge!EdgeAssumption, Edge!IInv, NEW cnt \in [Edge!Triggers -> Nat], Edge!Announce(cnt),
         table' = table, where' # "wrapper"
  PROVE  /\ Edge!Announced'
         /\ published' \in [Edge!Signals -> SUBSET Edge!Directions] /\ changes' \subseteq Edge!Signals
         /\ lost' \in [Edge!Signals -> SUBSET Edge!Directions]
PROOF
  <1>1. /\ counts' = cnt
        /\ published' = [s \in Edge!Signals |->
             IF s \in Clocks THEN published[s] \cup Edge!Mask(cnt, s) ELSE published[s]]
        /\ changes' = changes
             \cup {s \in Edge!Signals \ Clocks : Edge!Mask(cnt, s) # Edge!Mask(counts, s)}
             \cup {s \in Clocks : ~(Edge!Mask(cnt, s) \subseteq published[s])}
        /\ lost' = [s \in Edge!Signals |->
             IF s \in Clocks
             THEN lost[s] \cup (Edge!Mask(counts, s) \ (Edge!Mask(cnt, s) \cup table[s]))
             ELSE lost[s]]
    BY DEF Edge!Announce
  <1>2. \A s : Edge!Mask(cnt, s) \subseteq Edge!Directions /\ Edge!Mask(counts, s) \subseteq Edge!Directions
    BY DEF Edge!Mask
  <1>3. /\ published' \in [Edge!Signals -> SUBSET Edge!Directions] /\ changes' \subseteq Edge!Signals
        /\ lost' \in [Edge!Signals -> SUBSET Edge!Directions]
        /\ Clocks \subseteq Edge!Signals
    BY <1>1, <1>2 DEF Edge!IInv, Edge!TypeOK, Edge!Signals
  <1>4. ASSUME NEW s \in Observers \ changes'
        PROVE  table'[s] = Edge!Mask(counts', s)
    <2>1. s \in Edge!Signals \ Clocks
      BY DEF Edge!EdgeAssumption, Edge!Signals
    <2>2. s \notin changes /\ Edge!Mask(cnt, s) = Edge!Mask(counts, s)
      BY <1>1, <1>4, <2>1
    <2> QED BY <1>1, <2>2 DEF Edge!IInv, Edge!Announced
  <1>5. ASSUME NEW s \in Clocks
        PROVE  /\ Edge!Mask(counts', s) \subseteq published'[s]
               /\ published'[s] \subseteq
                    table'[s] \cup lost'[s]
                      \cup (IF s \in changes' THEN Edge!Mask(counts', s) ELSE {})
    <2>1. /\ Edge!Mask(counts, s) \subseteq published[s]
          /\ published[s] \subseteq
               table[s] \cup lost[s] \cup (IF s \in changes THEN Edge!Mask(counts, s) ELSE {})
      BY DEF Edge!IInv, Edge!Announced
    <2>2. /\ published'[s] = published[s] \cup Edge!Mask(cnt, s)
          /\ lost'[s] = lost[s] \cup (Edge!Mask(counts, s) \ (Edge!Mask(cnt, s) \cup table[s]))
          /\ s \in changes' <=> s \in changes \/ ~(Edge!Mask(cnt, s) \subseteq published[s])
      BY <1>1, <1>3
    <2> QED BY <1>1, <2>1, <2>2
  <1>6. Edge!Announced'
    BY <1>4, <1>5 DEF Edge!Announced, Edge!Mask
  <1> QED BY <1>3, <1>6

LEMMA EndWaitsAnnounced ==
  ASSUME Edge!EdgeAssumption, Edge!IInv, NEW C \in SUBSET Coros, NEW dropped \in Nat,
         Edge!EndWaits(C, dropped), table' = table, where' # "wrapper"
  PROVE  /\ Edge!Announced'
         /\ published' \in [Edge!Signals -> SUBSET Edge!Directions] /\ changes' \subseteq Edge!Signals
         /\ lost' \in [Edge!Signals -> SUBSET Edge!Directions]
PROOF
  <1> DEFINE cnt == [t \in Edge!Triggers |->
                       counts[t] - Cardinality({x \in Edge!EdgesOf(C) : x[2] = t})]
  <1>1. Edge!Announce(cnt)
    BY EdgeSizes DEF Edge!EndWaits
  <1>2. counts' = cnt
    BY <1>1 DEF Edge!Announce
  <1> HIDE DEF cnt
  <1>3. cnt \in [Edge!Triggers -> Nat]
    BY <1>2, EndWaitsCounts
  <1> QED BY <1>1, <1>3, AnnounceStep

-----------------------------------------------------------------------------
(* The steps.                                                              *)

\* The invariant after a step, from its parts: the counters are in step with the
\* queues, so stale_edge_registrations_ does not wrap around.
LEMMA Conclude ==
  ASSUME Edge!EdgeAssumption,
         life' \in [Coros -> {"free", "runnable", "waiting", "done"}],
         nextGen' \in Nat, gen' \in [Coros -> 0..nextGen'],
         awaits' \in [Coros -> SUBSET (Edge!Triggers \cup {Edge!Other})],
         queue' \in [Edge!Triggers -> SUBSET Edge!Registration],
         counts' \in [Edge!Triggers -> Nat], falling' \in Nat, stale' \in Int,
         published' \in [Edge!Signals -> SUBSET Edge!Directions], changes' \subseteq Edge!Signals,
         table' \in [Edge!Signals -> SUBSET Edge!Directions],
         lost' \in [Edge!Signals -> SUBSET Edge!Directions],
         where' \in {"wrapper", "due", "notify", "step"},
         Edge!WaitersQueued', Edge!Distinguished', Edge!Shadowed', Edge!Announced'
  PROVE  Edge!IInv'
PROOF
  <1>1. Fits(queue', life', gen', awaits')
    BY DEF Edge!Distinguished, Edge!WaitersQueued, Fits
  <1>3. Edge!EntriesOf(Edge!Triggers)' = EntriesIn(queue') /\ Edge!EdgesOf(Coros)' = EdgesIn(awaits')
    BY DEF Edge!EntriesOf, Edge!EdgesOf, EntriesIn, EdgesIn
  <1>4. /\ IsFiniteSet(EntriesIn(queue')) /\ entries' = Cardinality(EntriesIn(queue'))
        /\ entries' = stale' + Cardinality(EdgesIn(awaits'))
    BY EdgeSizes, <1>3 DEF Edge!Shadowed
  <1>5. /\ Cardinality(EntriesIn(queue')) \in Nat /\ Cardinality(EdgesIn(awaits')) \in Nat
        /\ Cardinality(EdgesIn(awaits')) <= Cardinality(EntriesIn(queue'))
    BY <1>1, <1>4, WaitsFit
  <1>6. entries' \in Nat /\ stale' \in Nat
    BY <1>4, <1>5
  <1>7. Edge!TypeOK'
    BY <1>6 DEF Edge!TypeOK
  <1> QED BY <1>7 DEF Edge!IInv

\* The waits of C end and their registrations stay behind as stale ones.
LEMMA WaitsEndStep ==
  ASSUME Edge!EdgeAssumption, Edge!IInv, NEW C \in SUBSET Coros, NEW l \in {"runnable", "done"},
         Edge!EndWaits(C, 0), Edge!Become(C, l), UNCHANGED <<queue, entries, table>>,
         nextGen' \in Nat, nextGen <= nextGen', gen' \in [Coros -> 0..nextGen'],
         \A c \in Coros \ C : gen'[c] = gen[c],
         where' \in {"due", "notify", "step"}
  PROVE  Edge!IInv'
PROOF
  <1>1. /\ awaits' \in [Coros -> SUBSET (Edge!Triggers \cup {Edge!Other})]
        /\ \A c \in Coros : awaits'[c] = IF c \in C THEN {} ELSE awaits[c]
        /\ counts' \in [Edge!Triggers -> Nat]
        /\ \A t \in Edge!Triggers : counts'[t] = Cardinality({x \in Edge!EdgesOf(Coros)' : x[2] = t})
        /\ falling' = Cardinality(Edge!FallingOf(Edge!EdgesOf(Coros)')) /\ falling' \in Nat
        /\ stale' \in Int
        /\ entries - 0 = stale' + Cardinality(Edge!EdgesOf(Coros)')
    BY EndWaitsCounts
  <1>2. /\ life' \in [Coros -> {"free", "runnable", "waiting", "done"}]
        /\ \A c \in Coros : life'[c] = IF c \in C THEN l ELSE life[c]
    BY DEF Edge!Become, Edge!IInv, Edge!TypeOK
  <1>3. Edge!WaitersQueued'
    BY <1>1, <1>2 DEF Edge!IInv, Edge!WaitersQueued
  <1>4. Edge!Distinguished'
    <2>1. \A c \in Coros : awaits'[c] # {} => life'[c] = "waiting"
      BY <1>1, <1>2 DEF Edge!IInv, Edge!Distinguished
    <2>2. ASSUME NEW t \in Edge!Triggers, NEW x \in queue[t]
          PROVE  /\ x.gen <= nextGen'
                 /\ Edge!Valid(x)' => t \in awaits'[x.coro]
      <3>1. x.coro \in Coros /\ x.gen \in Nat /\ x.gen <= nextGen /\ nextGen \in Nat
        BY DEF Edge!IInv, Edge!TypeOK, Edge!Distinguished, Edge!Registration
      <3>2. x.gen <= nextGen'
        BY <3>1
      <3>3. ASSUME Edge!Valid(x)'
            PROVE  t \in awaits'[x.coro]
        <4>1. x.coro \notin C
          BY <1>2, <3>1, <3>3 DEF Edge!Valid
        <4>2. Edge!Valid(x)
          BY <1>2, <3>1, <3>3, <4>1 DEF Edge!Valid
        <4> QED BY <1>1, <3>1, <4>1, <4>2 DEF Edge!IInv, Edge!Distinguished
      <3> QED BY <3>2, <3>3
    <2> QED BY <2>1, <2>2 DEF Edge!Distinguished
  <1>5. Edge!Shadowed'
    <2>1. Edge!EntriesOf(Edge!Triggers)' = Edge!EntriesOf(Edge!Triggers)
      BY DEF Edge!EntriesOf
    <2>2. entries' = stale' + Cardinality(Edge!EdgesOf(Coros)')
      BY <1>1 DEF Edge!IInv, Edge!Shadowed, Edge!TypeOK
    <2> QED BY EdgeSizes, <1>1, <2>1, <2>2 DEF Edge!IInv, Edge!Shadowed
  <1>6. /\ Edge!Announced'
        /\ published' \in [Edge!Signals -> SUBSET Edge!Directions] /\ changes' \subseteq Edge!Signals
        /\ lost' \in [Edge!Signals -> SUBSET Edge!Directions]
    BY EndWaitsAnnounced
  <1> QED BY <1>1, <1>2, <1>3, <1>4, <1>5, <1>6, Conclude DEF Edge!IInv, Edge!TypeOK

\* resume_edge empties two queues and ends the waits of those found live there.
LEMMA ResumeEdgeStep ==
  ASSUME Edge!EdgeAssumption, Edge!IInv, NEW s \in Edge!Signals,
         NEW e \in {"rising", "falling", "any"},
         Edge!ResumeEdge(s, e), where' \in {"due", "step"}
  PROVE  /\ Edge!IInv'
         /\ \A c \in Coros : life[c] = "waiting" /\ life'[c] = "runnable" =>
              \E t \in awaits[c] : queue[t] # {} /\ queue'[t] = {}
PROOF
  <1> DEFINE T == Edge!QueuesOf(s, e)
  <1> DEFINE taken == Edge!EntriesOf(T)
  <1> DEFINE C == {x[2].coro : x \in {y \in taken : Edge!Valid(y[2])}}
  <1>1. /\ Edge!EndWaits(C, Cardinality(taken)) /\ Edge!Become(C, "runnable")
        /\ queue' = [t \in Edge!Triggers |-> IF t \in T THEN {} ELSE queue[t]]
        /\ entries' = entries - Cardinality(taken)
        /\ UNCHANGED <<gen, nextGen, table>>
    BY EdgeSizes DEF Edge!ResumeEdge
  <1>2. T \subseteq Edge!Triggers
    BY DEF Edge!QueuesOf, Edge!Triggers
  <1>3. taken \in SUBSET Edge!EntriesOf(Edge!Triggers) /\ IsFiniteSet(Edge!EntriesOf(Edge!Triggers))
    BY EdgeSizes, <1>2 DEF Edge!EntriesOf, Edge!IInv, Edge!Shadowed
  <1>4. ASSUME NEW c \in C
        PROVE  /\ c \in Coros /\ life[c] = "waiting"
               /\ \E t \in T : t \in awaits[c] /\ queue[t] # {}
    <2>1. PICK y \in taken : Edge!Valid(y[2]) /\ c = y[2].coro
      OBVIOUS
    <2>2. y[1] \in T /\ y[2] \in queue[y[1]]
      BY EntryIs
    <2>3. y[2] \in Edge!Registration
      BY <1>2, <2>2 DEF Edge!IInv, Edge!TypeOK
    <2> QED BY <1>2, <2>1, <2>2, <2>3 DEF Edge!Registration, Edge!IInv, Edge!Distinguished, Edge!Valid
  <1>5. ASSUME NEW t \in T, NEW x \in queue[t], Edge!Valid(x)
        PROVE  x.coro \in C
    <2>1. <<t, x>> \in taken
      BY EntryIs
    <2> QED BY <1>5, <2>1
  <1>6. /\ Edge!EntriesOf(Edge!Triggers)' = Edge!EntriesOf(Edge!Triggers) \ taken
    <2>1. ASSUME NEW z
          PROVE  z \in Edge!EntriesOf(Edge!Triggers)' <=> z \in Edge!EntriesOf(Edge!Triggers) \ taken
      <3>1. z \in Edge!EntriesOf(Edge!Triggers)' <=> \E t \in Edge!Triggers \ T : z \in {t} \X queue[t]
        BY <1>1, <1>2 DEF Edge!EntriesOf
      <3>2. z \in taken <=> \E t \in T : z \in {t} \X queue[t]
        BY DEF Edge!EntriesOf
      <3>3. z \in Edge!EntriesOf(Edge!Triggers) <=> \E t \in Edge!Triggers : z \in {t} \X queue[t]
        BY DEF Edge!EntriesOf
      <3>4. ASSUME NEW t \in Edge!Triggers \ T, z \in {t} \X queue[t]
            PROVE  z \notin taken
        BY <3>2, <3>4
      <3> QED BY <1>2, <3>1, <3>2, <3>3, <3>4
    <2> QED BY <2>1
  <1>7. C \in SUBSET Coros
    BY <1>4
  <1> HIDE DEF taken, C
  <1>8. /\ IsFiniteSet(Edge!EntriesOf(Edge!Triggers)') /\ Cardinality(taken) \in Nat
        /\ Cardinality(Edge!EntriesOf(Edge!Triggers)')
             = Cardinality(Edge!EntriesOf(Edge!Triggers)) - Cardinality(taken)
    BY <1>3, <1>6, SizeOfRest
  <1>9. /\ awaits' \in [Coros -> SUBSET (Edge!Triggers \cup {Edge!Other})]
        /\ \A c \in Coros : awaits'[c] = IF c \in C THEN {} ELSE awaits[c]
        /\ counts' \in [Edge!Triggers -> Nat]
        /\ \A t \in Edge!Triggers : counts'[t] = Cardinality({x \in Edge!EdgesOf(Coros)' : x[2] = t})
        /\ falling' = Cardinality(Edge!FallingOf(Edge!EdgesOf(Coros)')) /\ falling' \in Nat
        /\ stale' \in Int
        /\ entries - Cardinality(taken) = stale' + Cardinality(Edge!EdgesOf(Coros)')
    BY <1>1, <1>7, <1>8, EndWaitsCounts
  <1>10. /\ life' \in [Coros -> {"free", "runnable", "waiting", "done"}]
         /\ \A c \in Coros : life'[c] = IF c \in C THEN "runnable" ELSE life[c]
    BY <1>1 DEF Edge!Become, Edge!IInv, Edge!TypeOK
  <1>11. /\ queue' \in [Edge!Triggers -> SUBSET Edge!Registration]
         /\ \A t \in Edge!Triggers : queue'[t] = IF t \in T THEN {} ELSE queue[t]
    BY <1>1 DEF Edge!IInv, Edge!TypeOK
  <1>12. Edge!WaitersQueued'
    <2>1. ASSUME NEW c \in Coros, life'[c] = "waiting",
                 NEW t \in awaits'[c] \cap Edge!Triggers
          PROVE  [coro |-> c, gen |-> gen[c]] \in queue'[t]
      <3>1. c \notin C /\ life[c] = "waiting" /\ t \in awaits[c]
        BY <1>9, <1>10, <2>1
      <3>2. [coro |-> c, gen |-> gen[c]] \in queue[t]
        BY <3>1 DEF Edge!IInv, Edge!WaitersQueued
      <3>3. Edge!Valid([coro |-> c, gen |-> gen[c]])
        BY <3>1 DEF Edge!Valid
      <3>4. t \notin T
        BY <1>5, <3>1, <3>2, <3>3
      <3> QED BY <1>11, <3>2, <3>4
    <2> QED BY <1>1, <2>1 DEF Edge!WaitersQueued
  <1>13. Edge!Distinguished'
    <2>1. \A c \in Coros : awaits'[c] # {} => life'[c] = "waiting"
      BY <1>9, <1>10 DEF Edge!IInv, Edge!Distinguished
    <2>2. ASSUME NEW t \in Edge!Triggers, NEW x \in queue'[t]
          PROVE  /\ x.gen <= nextGen
                 /\ Edge!Valid(x)' => t \in awaits'[x.coro]
      <3>1. x \in queue[t] /\ x.coro \in Coros
        BY <1>11 DEF Edge!IInv, Edge!TypeOK, Edge!Registration
      <3>2. ASSUME Edge!Valid(x)'
            PROVE  t \in awaits'[x.coro]
        <4>1. x.coro \notin C /\ Edge!Valid(x)
          BY <1>1, <1>10, <3>1, <3>2 DEF Edge!Valid
        <4> QED BY <1>9, <3>1, <4>1 DEF Edge!IInv, Edge!Distinguished
      <3> QED BY <3>1, <3>2 DEF Edge!IInv, Edge!Distinguished
    <2> QED BY <1>1, <2>1, <2>2 DEF Edge!Distinguished
  <1>14. Edge!Shadowed'
    <2>1. /\ entries = Cardinality(Edge!EntriesOf(Edge!Triggers)) /\ entries \in Nat
          /\ entries = stale + Cardinality(Edge!EdgesOf(Coros))
      BY EdgeSizes DEF Edge!IInv, Edge!Shadowed, Edge!TypeOK
    <2>2. entries' = Cardinality(Edge!EntriesOf(Edge!Triggers)')
      BY <1>1, <1>8, <2>1
    <2>3. entries' = stale' + Cardinality(Edge!EdgesOf(Coros)')
      BY <1>1, <1>9
    <2> QED BY EdgeSizes, <1>8, <1>9, <2>2, <2>3 DEF Edge!Shadowed
  <1>15. /\ Edge!Announced'
         /\ published' \in [Edge!Signals -> SUBSET Edge!Directions] /\ changes' \subseteq Edge!Signals
         /\ lost' \in [Edge!Signals -> SUBSET Edge!Directions]
    BY <1>1, <1>7, <1>8, EndWaitsAnnounced
  <1>16. Edge!IInv'
    BY <1>1, <1>9, <1>10, <1>11, <1>12, <1>13, <1>14, <1>15, Conclude DEF Edge!IInv, Edge!TypeOK
  <1>17. ASSUME NEW c \in Coros, life[c] = "waiting", life'[c] = "runnable"
         PROVE  \E t \in awaits[c] : queue[t] # {} /\ queue'[t] = {}
    <2>1. c \in C
      BY <1>10, <1>17
    <2> QED BY <1>2, <1>4, <1>11, <2>1
  <1> QED BY <1>16, <1>17

\* A slot changes hands, or a coroutine returns: nothing of it is registered live.
LEMMA LifeStep ==
  ASSUME Edge!EdgeAssumption, Edge!IInv, NEW c \in Coros,
         Edge!Spawn(c) \/ Edge!Finish(c) \/ Edge!Reclaim(c)
  PROVE  Edge!IInv'
PROOF
  <1>1. /\ UNCHANGED <<awaits, nextGen, Edge!bookVars, Edge!interestVars, where>>
        /\ life[c] # "waiting"
    BY DEF Edge!Spawn, Edge!Finish, Edge!Reclaim
  <1>2. /\ life' \in [Coros -> {"free", "runnable", "waiting", "done"}]
        /\ \A d \in Coros : d # c => life'[d] = life[d]
        /\ life'[c] # "waiting"
    BY DEF Edge!Spawn, Edge!Finish, Edge!Reclaim, Edge!Become, Edge!IInv, Edge!TypeOK
  <1>3. gen' \in [Coros -> 0..nextGen] /\ \A d \in Coros : d # c => gen'[d] = gen[d]
    BY DEF Edge!Spawn, Edge!Finish, Edge!Reclaim, Edge!IInv, Edge!TypeOK
  <1>4. Edge!WaitersQueued'
    BY <1>1, <1>2, <1>3 DEF Edge!IInv, Edge!WaitersQueued, Edge!bookVars
  <1>5. Edge!Distinguished'
    <2>1. \A d \in Coros : awaits'[d] # {} => life'[d] = "waiting"
      BY <1>1, <1>2 DEF Edge!IInv, Edge!Distinguished
    <2>2. ASSUME NEW t \in Edge!Triggers, NEW x \in queue[t]
          PROVE  x.gen <= nextGen /\ (Edge!Valid(x)' => t \in awaits[x.coro])
      <3>1. x.coro \in Coros
        BY DEF Edge!IInv, Edge!TypeOK, Edge!Registration
      <3>2. Edge!Valid(x)' => Edge!Valid(x)
        BY <1>2, <1>3, <3>1 DEF Edge!Valid
      <3> QED BY <3>2 DEF Edge!IInv, Edge!Distinguished
    <2> QED BY <1>1, <2>1, <2>2 DEF Edge!Distinguished, Edge!bookVars
  <1>6. Edge!Shadowed' /\ Edge!Announced'
    BY <1>1 DEF Edge!IInv, Edge!Shadowed, Edge!Announced, Edge!EntriesOf, Edge!EdgesOf, Edge!FallingOf, Edge!Mask,
                Edge!bookVars, Edge!interestVars
  <1>7. Edge!TypeOK'
    BY <1>1, <1>2, <1>3 DEF Edge!IInv, Edge!TypeOK, Edge!bookVars, Edge!interestVars
  <1> QED BY <1>4, <1>5, <1>6, <1>7 DEF Edge!IInv

\* begin_wait and register_wait: the new registrations are of a generation that
\* no registration had before.
LEMMA AwaitStep ==
  ASSUME Edge!EdgeAssumption, Edge!IInv, NEW c \in Coros, NEW R \in Edge!TriggerSets, Edge!Await(c, R)
  PROVE  Edge!IInv'
PROOF
  <1> DEFINE r == [coro |-> c, gen |-> nextGen + 1]
  <1> DEFINE N == {c} \X (R \cap Edge!Triggers)
  <1> DEFINE M == {y \in Edge!Triggers \X {r} : y[1] \in R}
  <1> DEFINE E == Edge!EdgesOf(Coros)
  <1> DEFINE cnt == [t \in Edge!Triggers |-> IF t \in R THEN counts[t] + 1 ELSE counts[t]]
  <1>1. /\ where' \in {"due", "step"} /\ life[c] = "runnable"
        /\ Edge!Become({c}, "waiting")
        /\ nextGen' = nextGen + 1
        /\ gen' = [gen EXCEPT ![c] = nextGen + 1]
        /\ awaits' = [awaits EXCEPT ![c] = R]
        /\ queue' = [t \in Edge!Triggers |-> IF t \in R THEN queue[t] \cup {r} ELSE queue[t]]
        /\ entries' = entries + Cardinality(N)
        /\ falling' = falling + Cardinality(Edge!FallingOf(N))
        /\ Edge!Announce(cnt)
        /\ UNCHANGED <<stale, table>>
    BY EdgeSizes DEF Edge!Await, Edge!Draining
  <1>2. R \subseteq Edge!Triggers \cup {Edge!Other}
    <2>1. PICK f \in [1..MaxTriggers -> Edge!Triggers \cup {Edge!Other}] :
            R = {f[i] : i \in 1..MaxTriggers}
      BY DEF Edge!TriggerSets
    <2> QED BY <2>1
  <1>3. /\ nextGen \in Nat /\ nextGen' \in Nat /\ nextGen + 1 \in 0..nextGen'
        /\ r \in Edge!Registration /\ r.coro = c /\ r.gen = nextGen + 1
    BY <1>1 DEF Edge!IInv, Edge!TypeOK, Edge!Registration
  <1>4. awaits[c] = {}
    BY <1>1 DEF Edge!IInv, Edge!Distinguished
  <1>5. /\ life' \in [Coros -> {"free", "runnable", "waiting", "done"}]
        /\ \A d \in Coros : life'[d] = IF d = c THEN "waiting" ELSE life[d]
    BY <1>1 DEF Edge!Become, Edge!IInv, Edge!TypeOK
  <1>6. /\ gen' \in [Coros -> 0..nextGen']
        /\ \A d \in Coros : gen'[d] = IF d = c THEN nextGen + 1 ELSE gen[d]
    BY <1>1, <1>3 DEF Edge!IInv, Edge!TypeOK
  <1>7. /\ awaits' \in [Coros -> SUBSET (Edge!Triggers \cup {Edge!Other})]
        /\ \A d \in Coros : awaits'[d] = IF d = c THEN R ELSE awaits[d]
    BY <1>1, <1>2 DEF Edge!IInv, Edge!TypeOK
  <1> HIDE DEF r
  <1>8. /\ queue' \in [Edge!Triggers -> SUBSET Edge!Registration]
        /\ \A t \in Edge!Triggers : queue'[t] = IF t \in R THEN queue[t] \cup {r} ELSE queue[t]
    BY <1>1, <1>3 DEF Edge!IInv, Edge!TypeOK
  <1>9. ASSUME NEW t \in Edge!Triggers, NEW x \in queue[t]
        PROVE  /\ x \in Edge!Registration /\ x.coro \in Coros /\ x.gen \in Nat
               /\ x.gen <= nextGen /\ x.gen # nextGen + 1 /\ x # r
    BY <1>3 DEF Edge!IInv, Edge!TypeOK, Edge!Distinguished, Edge!Registration
  <1>10. Edge!WaitersQueued'
    BY <1>3, <1>5, <1>6, <1>7, <1>8 DEF Edge!IInv, Edge!WaitersQueued, r
  <1>11. Edge!Distinguished'
    <2>1. \A d \in Coros : awaits'[d] # {} => life'[d] = "waiting"
      BY <1>5, <1>7 DEF Edge!IInv, Edge!Distinguished
    <2>2. ASSUME NEW t \in Edge!Triggers, NEW x \in queue'[t]
          PROVE  x.gen <= nextGen' /\ (Edge!Valid(x)' => t \in awaits'[x.coro])
      <3>1. CASE x \in queue[t]
        <4>1. x.gen <= nextGen'
          BY <1>1, <1>3, <1>9, <3>1
        <4>2. ASSUME Edge!Valid(x)'
              PROVE  t \in awaits'[x.coro]
          <5>1. x.coro # c
            BY <1>6, <1>9, <3>1, <4>2 DEF Edge!Valid
          <5>2. Edge!Valid(x)
            BY <1>5, <1>6, <1>9, <3>1, <4>2, <5>1 DEF Edge!Valid
          <5> QED BY <1>7, <1>9, <3>1, <5>1, <5>2 DEF Edge!IInv, Edge!Distinguished
        <4> QED BY <4>1, <4>2
      <3>2. CASE x \notin queue[t]
        BY <1>1, <1>3, <1>7, <1>8, <2>2, <3>2
      <3> QED BY <3>1, <3>2
    <2> QED BY <2>1, <2>2 DEF Edge!Distinguished
  <1>12. /\ E' = E \cup N /\ E \cap N = {}
         /\ E \in SUBSET (Coros \X Edge!Triggers) /\ N \in SUBSET (Coros \X Edge!Triggers)
    BY <1>4, <1>7 DEF Edge!EdgesOf
  <1>13. Edge!EntriesOf(Edge!Triggers)' = Edge!EntriesOf(Edge!Triggers) \cup M /\ Edge!EntriesOf(Edge!Triggers) \cap M = {}
    <2>1. ASSUME NEW z
          PROVE  z \in Edge!EntriesOf(Edge!Triggers)' <=> z \in Edge!EntriesOf(Edge!Triggers) \cup M
      <3>1. z \in Edge!EntriesOf(Edge!Triggers)' <=> \E t \in Edge!Triggers : z \in {t} \X queue'[t]
        BY DEF Edge!EntriesOf
      <3>2. z \in Edge!EntriesOf(Edge!Triggers) <=> \E t \in Edge!Triggers : z \in {t} \X queue[t]
        BY DEF Edge!EntriesOf
      <3>3. z \in M <=> \E t \in Edge!Triggers : t \in R /\ z \in {t} \X {r}
        OBVIOUS
      <3>4. ASSUME NEW t \in Edge!Triggers
            PROVE  z \in {t} \X queue'[t] <=>
                     z \in {t} \X queue[t] \/ (t \in R /\ z \in {t} \X {r})
        BY <1>8
      <3> QED BY <3>1, <3>2, <3>3, <3>4
    <2>2. \A z \in Edge!EntriesOf(Edge!Triggers) : z \notin M
      BY <1>9, EntryIs
    <2> QED BY <2>1, <2>2
  <1>14. IsFiniteSet(M) /\ Cardinality(M) = Cardinality(N) /\ Cardinality(N) \in Nat
    <2> DEFINE f == [x \in N |-> <<x[2], r>>]
    <2>1. IsFiniteSet(N)
      BY <1>12, CountersType
    <2>2. f \in [N -> M]
      OBVIOUS
    <2>3. \A x, y \in N : f[x] = f[y] => x = y
      OBVIOUS
    <2>4. ASSUME NEW z \in M
          PROVE  \E x \in N : f[x] = z
      <3>1. <<c, z[1]>> \in N /\ z = <<z[1], r>>
        OBVIOUS
      <3> QED BY <3>1
    <2>5. \A z \in M : \E x \in N : f[x] = z
      BY <2>4
    <2> HIDE DEF f, N, M
    <2> QED BY ONLY <2>1, <2>2, <2>3, <2>5, SameSize
  <1> HIDE DEF N, M, E
  <1>15. /\ IsFiniteSet(Edge!EntriesOf(Edge!Triggers)')
         /\ entries' = Cardinality(Edge!EntriesOf(Edge!Triggers)')
    <2>1. IsFiniteSet(Edge!EntriesOf(Edge!Triggers)) /\ entries = Cardinality(Edge!EntriesOf(Edge!Triggers))
      BY EdgeSizes DEF Edge!IInv, Edge!Shadowed
    <2> QED BY <1>1, <1>13, <1>14, <2>1, SizeOfBoth
  <1>16. entries' = stale' + Cardinality(E')
    <2>1. IsFiniteSet(E) /\ IsFiniteSet(N)
      BY <1>12, CountersType
    <2>2. /\ Cardinality(E') = Cardinality(E) + Cardinality(N)
          /\ Cardinality(E) \in Nat /\ Cardinality(N) \in Nat
      BY <1>12, <2>1, SizeOfBoth
    <2>3. entries = stale + Cardinality(E) /\ stale \in Nat
      BY EdgeSizes DEF Edge!IInv, Edge!Shadowed, Edge!TypeOK, E
    <2> QED BY <1>1, <2>2, <2>3
  <1>17. falling' = Cardinality(Edge!FallingOf(E')) /\ falling' \in Nat
    <2>1. Edge!FallingOf(E') = Edge!FallingOf(E) \cup Edge!FallingOf(N)
          /\ Edge!FallingOf(E) \cap Edge!FallingOf(N) = {}
      BY <1>12 DEF Edge!FallingOf
    <2>2. IsFiniteSet(Edge!FallingOf(E)) /\ IsFiniteSet(Edge!FallingOf(N))
      BY <1>12, CountersType
    <2>3. falling = Cardinality(Edge!FallingOf(E))
      BY EdgeSizes DEF Edge!IInv, Edge!Shadowed, E
    <2>4. /\ Cardinality(Edge!FallingOf(E')) = Cardinality(Edge!FallingOf(E)) + Cardinality(Edge!FallingOf(N))
          /\ Cardinality(Edge!FallingOf(E)) \in Nat /\ Cardinality(Edge!FallingOf(N)) \in Nat
      BY <2>1, <2>2, SizeOfBoth
    <2> QED BY <1>1, <2>3, <2>4
  <1>18. ASSUME NEW t \in Edge!Triggers
         PROVE  cnt[t] = Cardinality({x \in E' : x[2] = t}) /\ cnt[t] \in Nat
    <2> DEFINE S == {x \in E : x[2] = t}
    <2>1. IsFiniteSet(S) /\ Cardinality(S) \in Nat
      BY <1>12, CountersType
    <2>2. counts[t] = Cardinality(S)
      BY EdgeSizes DEF Edge!IInv, Edge!Shadowed, E
    <2>3. CASE t \in R
      <3>1. {x \in E' : x[2] = t} = S \cup {<<c, t>>}
        BY <1>12, <2>3 DEF N
      <3>2. <<c, t>> \notin S
        BY <1>12, <2>3 DEF N
      <3> HIDE DEF S
      <3>3. Cardinality(S \cup {<<c, t>>}) = Cardinality(S) + 1
        BY <2>1, <3>2, FS_AddElement
      <3>4. cnt[t] = counts[t] + 1
        BY <2>3
      <3> HIDE DEF cnt
      <3>5. cnt[t] = Cardinality(S \cup {<<c, t>>}) /\ cnt[t] \in Nat
        BY <2>1, <2>2, <3>3, <3>4
      <3> QED BY <3>1, <3>5
    <2>4. CASE t \notin R
      <3>1. {x \in E' : x[2] = t} = S
        BY <1>12, <2>4 DEF N
      <3> HIDE DEF S
      <3> QED BY <2>1, <2>2, <2>4, <3>1
    <2> QED BY <2>3, <2>4
  <1>19. cnt \in [Edge!Triggers -> Nat] /\ counts' = cnt
    <2>1. counts \in [Edge!Triggers -> Nat]
      BY DEF Edge!IInv, Edge!TypeOK
    <2> QED BY <1>1, <2>1 DEF Edge!Announce
  <1>20. Edge!Shadowed'
    <2>1. \A t \in Edge!Triggers : counts'[t] = Cardinality({x \in E' : x[2] = t})
      BY <1>18, <1>19
    <2> QED BY EdgeSizes, <1>15, <1>16, <1>17, <2>1 DEF Edge!Shadowed, E
  <1> HIDE DEF cnt
  <1>21. /\ Edge!Announced'
         /\ published' \in [Edge!Signals -> SUBSET Edge!Directions] /\ changes' \subseteq Edge!Signals
         /\ lost' \in [Edge!Signals -> SUBSET Edge!Directions]
    BY <1>1, <1>19, AnnounceStep
  <1> QED
    BY <1>1, <1>3, <1>5, <1>6, <1>7, <1>8, <1>10, <1>11, <1>17, <1>19, <1>20, <1>21,
       Conclude DEF Edge!IInv, Edge!TypeOK

\* compact_stale_edge_queues drops what is not live, and nothing else.
LEMMA CompactStep ==
  ASSUME Edge!EdgeAssumption, Edge!IInv, Edge!Compact, UNCHANGED <<Edge!waitVars, counts, falling>>
  PROVE  /\ queue' \in [Edge!Triggers -> SUBSET Edge!Registration] /\ stale' \in Int
         /\ Edge!WaitersQueued' /\ Edge!Distinguished' /\ Edge!Shadowed'
PROOF
  <1>1. UNCHANGED <<life, gen, awaits, nextGen, counts, falling>>
    BY DEF Edge!waitVars
  <1>2. Edge!EdgesOf(Coros)' = Edge!EdgesOf(Coros)
    BY <1>1 DEF Edge!EdgesOf
  <1>3. CASE ~(stale >= CompactThreshold /\ stale * 2 >= entries)
    <2>1. UNCHANGED <<queue, entries, stale>>
      BY <1>3 DEF Edge!Compact
    <2> QED
      BY <1>1, <1>2, <2>1
      DEF Edge!IInv, Edge!TypeOK, Edge!WaitersQueued, Edge!Distinguished, Edge!Shadowed, Edge!EntriesOf, Edge!Valid
  <1>4. CASE stale >= CompactThreshold /\ stale * 2 >= entries
    <2> DEFINE Dead == {x \in Edge!EntriesOf(Edge!Triggers) : ~Edge!Valid(x[2])}
    <2>1. /\ queue' = [t \in Edge!Triggers |-> {x \in queue[t] : Edge!Valid(x)}]
          /\ entries' = entries - Cardinality(Dead)
          /\ stale' = stale - Cardinality(Dead)
      BY EdgeSizes, <1>4 DEF Edge!Compact
    <2>2. /\ queue' \in [Edge!Triggers -> SUBSET Edge!Registration]
          /\ \A t \in Edge!Triggers : queue'[t] = {x \in queue[t] : Edge!Valid(x)}
      BY <2>1 DEF Edge!IInv, Edge!TypeOK
    <2>3. Edge!EntriesOf(Edge!Triggers)' = Edge!EntriesOf(Edge!Triggers) \ Dead
      <3>1. ASSUME NEW z
            PROVE  z \in Edge!EntriesOf(Edge!Triggers)' <=> z \in Edge!EntriesOf(Edge!Triggers) \ Dead
        <4>1. z \in Edge!EntriesOf(Edge!Triggers)' <=> \E t \in Edge!Triggers : z \in {t} \X queue'[t]
          BY DEF Edge!EntriesOf
        <4>2. z \in Edge!EntriesOf(Edge!Triggers) <=> \E t \in Edge!Triggers : z \in {t} \X queue[t]
          BY DEF Edge!EntriesOf
        <4>3. ASSUME NEW t \in Edge!Triggers
              PROVE  z \in {t} \X queue'[t] <=> z \in {t} \X queue[t] /\ Edge!Valid(z[2])
          BY <2>2
        <4> QED BY <4>1, <4>2, <4>3
      <3> QED BY <3>1
    <2>4. Dead \in SUBSET Edge!EntriesOf(Edge!Triggers) /\ IsFiniteSet(Edge!EntriesOf(Edge!Triggers))
      BY EdgeSizes DEF Edge!IInv, Edge!Shadowed
    <2> HIDE DEF Dead
    <2>5. /\ IsFiniteSet(Edge!EntriesOf(Edge!Triggers)')
          /\ Cardinality(Edge!EntriesOf(Edge!Triggers)')
               = Cardinality(Edge!EntriesOf(Edge!Triggers)) - Cardinality(Dead)
          /\ Cardinality(Dead) \in Nat /\ Cardinality(Edge!EntriesOf(Edge!Triggers)) \in Nat
      BY <2>3, <2>4, SizeOfRest
    <2>6. Edge!WaitersQueued'
      BY <1>1, <2>2 DEF Edge!IInv, Edge!WaitersQueued, Edge!Valid
    <2>7. Edge!Distinguished'
      BY <1>1, <2>2 DEF Edge!IInv, Edge!Distinguished, Edge!Valid
    <2>8. Edge!Shadowed'
      <3>1. /\ entries = Cardinality(Edge!EntriesOf(Edge!Triggers)) /\ stale \in Nat
            /\ entries = stale + Cardinality(Edge!EdgesOf(Coros))
            /\ Cardinality(Edge!EdgesOf(Coros)) \in Nat
        BY EdgeSizes, EdgeIs, FS_CardinalityType DEF Edge!IInv, Edge!Shadowed, Edge!TypeOK
      <3>2. entries' = Cardinality(Edge!EntriesOf(Edge!Triggers)')
        BY <2>1, <2>5, <3>1
      <3>3. entries' = stale' + Cardinality(Edge!EdgesOf(Coros)')
        BY <1>2, <2>1, <2>5, <3>1
      <3>4. /\ \A t \in Edge!Triggers : counts'[t] = Cardinality({x \in Edge!EdgesOf(Coros)' : x[2] = t})
            /\ falling' = Cardinality(Edge!FallingOf(Edge!EdgesOf(Coros)'))
        BY EdgeSizes, <1>1, <1>2 DEF Edge!IInv, Edge!Shadowed
      <3> QED BY EdgeSizes, <2>5, <3>2, <3>3, <3>4 DEF Edge!Shadowed
    <2>9. stale' \in Int
      BY <2>1, <2>5 DEF Edge!IInv, Edge!TypeOK
    <2> QED BY <2>2, <2>6, <2>7, <2>8, <2>9
  <1> QED BY <1>3, <1>4

\* At the end of a step the wrapper's table catches up with the counters.
LEMMA EdgeEndStep ==
  ASSUME Edge!EdgeAssumption, Edge!IInv, Edge!EndStep
  PROVE  Edge!IInv'
PROOF
  <1>1. /\ Edge!Compact /\ Edge!ServiceRequests /\ changes' = {} /\ where' = "wrapper"
        /\ UNCHANGED <<Edge!waitVars, counts, falling, published, lost>>
    BY DEF Edge!EndStep
  <1>2. /\ queue' \in [Edge!Triggers -> SUBSET Edge!Registration] /\ stale' \in Int
        /\ Edge!WaitersQueued' /\ Edge!Distinguished' /\ Edge!Shadowed'
    BY <1>1, CompactStep
  <1>3. \A s : Edge!Mask(counts, s) \subseteq Edge!Directions
    BY DEF Edge!Mask
  <1>4. CASE changes \cap (Clocks \cup Observers) = {}
    <2>1. table' = table
      BY <1>1, <1>4 DEF Edge!ServiceRequests
    <2>2. Edge!Announced'
      BY <1>1, <1>4, <2>1 DEF Edge!IInv, Edge!Announced, Edge!Mask
    <2> QED BY <1>1, <1>2, <2>1, <2>2, Conclude DEF Edge!IInv, Edge!TypeOK, Edge!waitVars
  <1>5. CASE changes \cap (Clocks \cup Observers) # {}
    <2>1. table' = [s \in Edge!Signals |->
                      CASE s \in Clocks -> table[s] \cup Edge!Mask(counts, s)
                        [] s \in Observers -> Edge!Mask(counts, s)
                        [] OTHER -> table[s]]
      BY <1>1, <1>5 DEF Edge!ServiceRequests
    <2>2. Clocks \subseteq Edge!Signals /\ Observers \subseteq Edge!Signals /\ Clocks \cap Observers = {}
      BY DEF Edge!Signals, Edge!EdgeAssumption
    <2>3. ASSUME NEW s \in Edge!Signals
          PROVE  /\ s \in Clocks => table'[s] = table[s] \cup Edge!Mask(counts, s)
                 /\ s \in Observers => table'[s] = Edge!Mask(counts, s)
                 /\ s \notin Clocks \cup Observers => table'[s] = table[s]
                 /\ table'[s] \subseteq Edge!Directions
      BY <1>3, <2>1, <2>2 DEF Edge!IInv, Edge!TypeOK
    <2>4. table' \in [Edge!Signals -> SUBSET Edge!Directions]
      BY <2>1, <2>3
    <2>5. \A s \in Observers : table'[s] = Edge!Mask(counts', s)
      BY <1>1, <2>2, <2>3
    <2>6. ASSUME NEW s \in Clocks
          PROVE  /\ Edge!Mask(counts', s) \subseteq published'[s]
                 /\ published'[s] \subseteq table'[s] \cup lost'[s]
      BY <1>1, <2>2, <2>3 DEF Edge!IInv, Edge!Announced
    <2>7. Edge!Announced'
      BY <1>1, <2>5, <2>6 DEF Edge!Announced, Edge!Mask
    <2> QED BY <1>1, <1>2, <2>4, <2>7, Conclude DEF Edge!IInv, Edge!TypeOK, Edge!waitVars
  <1> QED BY <1>4, <1>5

\* When the due Delays have run, the queues are compacted and nothing else changes.
LEMMA EdgeEndDue ==
  ASSUME Edge!EdgeAssumption, Edge!IInv, Edge!EndDue
  PROVE  Edge!IInv'
PROOF
  <1>1. /\ Edge!Compact /\ where' = "notify"
        /\ UNCHANGED <<Edge!waitVars, counts, falling, published, changes, table, lost>>
    BY DEF Edge!EndDue, Edge!interestVars
  <1>2. /\ queue' \in [Edge!Triggers -> SUBSET Edge!Registration] /\ stale' \in Int
        /\ Edge!WaitersQueued' /\ Edge!Distinguished' /\ Edge!Shadowed'
    BY <1>1, CompactStep
  <1>3. Edge!Announced'
    BY <1>1 DEF Edge!IInv, Edge!Announced, Edge!Mask
  <1> QED BY <1>1, <1>2, <1>3, Conclude DEF Edge!IInv, Edge!TypeOK, Edge!waitVars

-----------------------------------------------------------------------------
(* The theorems.                                                           *)

LEMMA EdgeInit ==
  ASSUME Edge!EdgeAssumption, Edge!Init
  PROVE  Edge!IInv
PROOF
  <1>1. Edge!TypeOK
    BY DEF Edge!Init, Edge!TypeOK
  <1>2. Edge!WaitersQueued /\ Edge!Distinguished
    BY DEF Edge!Init, Edge!WaitersQueued, Edge!Distinguished
  <1>3. Edge!EdgesOf(Coros) = {} /\ Edge!EntriesOf(Edge!Triggers) = {}
    BY DEF Edge!Init, Edge!EdgesOf, Edge!EntriesOf
  <1>4. Edge!Shadowed
    <2>1. Edge!FallingOf({}) = {}
      BY DEF Edge!FallingOf
    <2>2. \A t \in Edge!Triggers : {x \in {} : x[2] = t} = {} /\ counts[t] = 0
      BY DEF Edge!Init
    <2>3. entries = 0 /\ stale = 0 /\ falling = 0
      BY DEF Edge!Init
    <2> QED BY EdgeSizes, <1>3, <2>1, <2>2, <2>3, FS_EmptySet DEF Edge!Shadowed
  <1>5. Edge!Announced
    <2>1. \A s \in Edge!Signals : Edge!Mask(counts, s) = {}
      BY DEF Edge!Init, Edge!Mask, Edge!Triggers, Edge!Directions
    <2>2. Clocks \subseteq Edge!Signals /\ Observers \subseteq Edge!Signals
      BY DEF Edge!Signals
    <2> QED BY <2>1, <2>2 DEF Edge!Init, Edge!Announced
  <1> QED BY <1>1, <1>2, <1>4, <1>5 DEF Edge!IInv

LEMMA EdgeNext ==
  ASSUME Edge!EdgeAssumption, Edge!IInv, [Edge!Next]_(Edge!vars)
  PROVE  Edge!IInv'
PROOF
  <1>1. ASSUME NEW c \in Coros, Edge!WakeUp(c)
        PROVE  Edge!IInv'
    <2>1. nextGen' \in Nat /\ nextGen <= nextGen' /\ gen' \in [Coros -> 0..nextGen']
          /\ gen' = gen
      BY <1>1 DEF Edge!WakeUp, Edge!IInv, Edge!TypeOK
    <2> QED BY <1>1, <2>1, WaitsEndStep DEF Edge!WakeUp, Edge!Draining
  <1>2. ASSUME NEW c \in Coros, Edge!Cancel(c)
        PROVE  Edge!IInv'
    <2>1. nextGen' \in Nat /\ nextGen <= nextGen' /\ gen' \in [Coros -> 0..nextGen']
          /\ \A d \in Coros \ {c} : gen'[d] = gen[d]
      BY <1>2 DEF Edge!Cancel, Edge!IInv, Edge!TypeOK
    <2> QED BY <1>2, <2>1, WaitsEndStep DEF Edge!Cancel, Edge!Draining
  <1>3. ASSUME NEW c \in Coros, \E R \in Edge!TriggerSets : Edge!Await(c, R)
        PROVE  Edge!IInv'
    BY <1>3, AwaitStep
  <1>4. ASSUME NEW s \in Edge!Signals, NEW e \in {"rising", "falling", "any"}, Edge!LocalEdge(s, e)
        PROVE  Edge!IInv'
    BY <1>4, ResumeEdgeStep DEF Edge!LocalEdge, Edge!Draining
  <1>5. ASSUME NEW s \in Edge!Signals, NEW e \in Edge!Directions, Edge!WrapperEdge(s, e)
        PROVE  Edge!IInv'
    BY <1>5, ResumeEdgeStep DEF Edge!WrapperEdge, Edge!Directions
  <1>6. ASSUME NEW C \in SUBSET Coros, Edge!DueDelays(C) \/ Edge!OtherStep(C)
        PROVE  Edge!IInv'
    <2>1. nextGen' \in Nat /\ nextGen <= nextGen' /\ gen' \in [Coros -> 0..nextGen']
          /\ gen' = gen
      BY <1>6 DEF Edge!DueDelays, Edge!OtherStep, Edge!IInv, Edge!TypeOK
    <2> QED BY <1>6, <2>1, WaitsEndStep DEF Edge!DueDelays, Edge!OtherStep
  <1>7. CASE UNCHANGED Edge!vars
    BY <1>7 DEF Edge!vars, Edge!waitVars, Edge!bookVars, Edge!interestVars, Edge!IInv, Edge!TypeOK, Edge!WaitersQueued,
                Edge!Distinguished, Edge!Shadowed, Edge!Announced, Edge!EntriesOf, Edge!EdgesOf, Edge!FallingOf,
                Edge!Mask, Edge!Valid
  <1>8. CASE Edge!EndStep \/ Edge!EndDue
    BY <1>8, EdgeEndStep, EdgeEndDue
  <1>9. ASSUME NEW c \in Coros, Edge!Spawn(c) \/ Edge!Finish(c) \/ Edge!Reclaim(c)
        PROVE  Edge!IInv'
    BY <1>9, LifeStep
  <1> QED BY <1>1, <1>2, <1>3, <1>4, <1>5, <1>6, <1>7, <1>8, <1>9 DEF Edge!Next

\* The invariant of the edge waits.
THEOREM EdgeInvariant ==
  ASSUME Edge!EdgeAssumption
  PROVE  Edge!Spec => []Edge!IInv
PROOF
  <1>1. Edge!Init => Edge!IInv
    BY EdgeInit
  <1>2. Edge!IInv /\ [Edge!Next]_(Edge!vars) => Edge!IInv'
    BY EdgeNext
  <1> QED BY <1>1, <1>2, PTL DEF Edge!Spec

\* No registration of a current wait is lost, whatever was resumed, cancelled or
\* compacted in between, and the counters agree with the live registrations.
THEOREM EdgeBooksAgree ==
  ASSUME Edge!EdgeAssumption
  PROVE  Edge!Spec => []Edge!BooksAgree
PROOF
  <1>1. ASSUME Edge!IInv
        PROVE  Edge!BooksAgree
    <2> DEFINE all == Edge!EntriesOf(Edge!Triggers)
    <2> DEFINE live == {x \in all : Edge!Valid(x[2])}
    <2> DEFINE E == Edge!EdgesOf(Coros)
    <2>1. Fits(queue, life, gen, awaits) /\ queue \in [Edge!Triggers -> SUBSET Edge!Registration]
      BY <1>1 DEF Edge!IInv, Edge!TypeOK, Edge!WaitersQueued, Edge!Distinguished, Fits
    <2>2. E = EdgesIn(awaits) /\ all = EntriesIn(queue)
      BY DEF Edge!EdgesOf, EdgesIn, Edge!EntriesOf, EntriesIn
    <2>3. ASSUME NEW x \in live
          PROVE  /\ x = <<x[1], x[2]>> /\ x[1] \in Edge!Triggers
                 /\ <<x[2].coro, x[1]>> \in E
      <3>1. x = <<x[1], x[2]>> /\ x[1] \in Edge!Triggers /\ x[2] \in queue[x[1]] /\ Edge!Valid(x[2])
        BY EntryIs
      <3>2. x[2].coro \in Coros /\ x[1] \in awaits[x[2].coro]
        BY <1>1, <3>1 DEF Edge!IInv, Edge!TypeOK, Edge!Distinguished, Edge!Registration
      <3> QED BY <3>1, <3>2 DEF Edge!EdgesOf
    <2>4. ASSUME NEW S \in SUBSET E
          PROVE  Cardinality({x \in live : <<x[2].coro, x[1]>> \in S}) = Cardinality(S)
      <3>1. LiveIn(queue, life, gen, S) = {x \in live : <<x[2].coro, x[1]>> \in S}
        BY <2>2 DEF LiveIn, Edge!Valid
      <3>2. Cardinality(LiveIn(queue, life, gen, S)) = Cardinality(S)
        BY <2>1, <2>2, LiveEntries
      <3> QED BY <3>1, <3>2
    <2>5. /\ entries = Cardinality(all) /\ stale \in Nat /\ entries \in Nat
          /\ entries = stale + Cardinality(E)
          /\ \A t \in Edge!Triggers : counts[t] = Cardinality({x \in E : x[2] = t})
          /\ falling = Cardinality(Edge!FallingOf(E))
      BY EdgeSizes, <1>1 DEF Edge!IInv, Edge!TypeOK, Edge!Shadowed
    <2> HIDE DEF all, live, E
    <2>6. stale = Cardinality(all) - Cardinality(live)
      <3>1. live = {x \in live : <<x[2].coro, x[1]>> \in E}
        BY <2>3
      <3>2. Cardinality(live) = Cardinality(E)
        BY <2>4, <3>1
      <3>3. Cardinality(E) \in Nat
        BY EdgeIs, FS_CardinalityType DEF E
      <3> QED BY <2>5, <3>2, <3>3
    <2>7. ASSUME NEW t \in Edge!Triggers
          PROVE  counts[t] = Cardinality({x \in live : x[1] = t})
      <3> DEFINE S == {x \in E : x[2] = t}
      <3>1. {x \in live : x[1] = t} = {x \in live : <<x[2].coro, x[1]>> \in S}
        BY <2>3
      <3>2. S \in SUBSET E
        OBVIOUS
      <3> HIDE DEF S
      <3>3. Cardinality({x \in live : <<x[2].coro, x[1]>> \in S}) = Cardinality(S)
        BY <2>4, <3>2
      <3> QED BY <2>5, <3>1, <3>3 DEF S
    <2>8. falling = Cardinality({x \in live : x[1][2] # "rising"})
      <3> DEFINE S == Edge!FallingOf(E)
      <3>1. {x \in live : x[1][2] # "rising"} = {x \in live : <<x[2].coro, x[1]>> \in S}
        BY <2>3 DEF Edge!FallingOf
      <3>2. S \in SUBSET E
        BY DEF Edge!FallingOf
      <3> HIDE DEF S
      <3>3. Cardinality({x \in live : <<x[2].coro, x[1]>> \in S}) = Cardinality(S)
        BY <2>4, <3>2
      <3> QED BY <2>5, <3>1, <3>3 DEF S
    <2> QED BY EdgeSizes, <1>1, <2>5, <2>6, <2>7, <2>8 DEF Edge!BooksAgree, Edge!Bookkeeping, all, live
  <1>2. Edge!Spec => []Edge!IInv
    BY EdgeInvariant
  <1> QED BY <1>1, <1>2, PTL

\* While the simulator runs, the wrapper's entry of an observed signal is the mask
\* of its waiters; and it delivers every awaited edge of a clock but those for which
\* a wait ended in the DPI step that began it, whatever ended it: a cancellation, a
\* local edge, or the notification that follows the due Delays of the step.
THEOREM EdgeInterestKnown ==
  ASSUME Edge!EdgeAssumption
  PROVE  Edge!Spec => []Edge!InterestKnown
PROOF
  <1>1. ASSUME Edge!IInv
        PROVE  Edge!InterestKnown
    BY <1>1 DEF Edge!IInv, Edge!Announced, Edge!InterestKnown, Edge!ObserversExact,
                Edge!ClocksDeliveredOrLost
  <1>2. Edge!Spec => []Edge!IInv
    BY EdgeInvariant
  <1> QED BY <1>1, <1>2, PTL

\* A registration left by an earlier wait, of this coroutine or of a previous
\* owner of its slot, resumes nobody.
THEOREM EdgeNoStaleResume ==
  ASSUME Edge!EdgeAssumption
  PROVE  Edge!Spec => Edge!NoStaleResume
PROOF
  <1>1. ASSUME Edge!IInv, [Edge!Next]_(Edge!vars)
        PROVE  [\A c \in Coros :
                 life[c] = "waiting" /\ life'[c] = "runnable" =>
                   \/ Edge!Other \in awaits[c]
                   \/ \E t \in awaits[c] : queue[t] # {} /\ queue'[t] = {}]_(Edge!vars)
    <2>1. ASSUME NEW s \in Edge!Signals, NEW e \in {"rising", "falling", "any"}, Edge!LocalEdge(s, e),
                 NEW c \in Coros, life[c] = "waiting", life'[c] = "runnable"
          PROVE  \E t \in awaits[c] : queue[t] # {} /\ queue'[t] = {}
      BY <1>1, <2>1, ResumeEdgeStep DEF Edge!LocalEdge, Edge!Draining
    <2>2. ASSUME NEW s \in Edge!Signals, NEW e \in Edge!Directions, Edge!WrapperEdge(s, e),
                 NEW c \in Coros, life[c] = "waiting", life'[c] = "runnable"
          PROVE  \E t \in awaits[c] : queue[t] # {} /\ queue'[t] = {}
      BY <1>1, <2>2, ResumeEdgeStep DEF Edge!WrapperEdge, Edge!Directions
    <2>3. ASSUME NEW d \in Coros,
                 \/ Edge!Spawn(d) \/ Edge!WakeUp(d) \/ Edge!Finish(d) \/ Edge!Cancel(d) \/ Edge!Reclaim(d)
                 \/ \E R \in Edge!TriggerSets : Edge!Await(d, R),
                 NEW c \in Coros, life[c] = "waiting", life'[c] = "runnable"
          PROVE  Edge!Other \in awaits[c]
      BY <2>3 DEF Edge!Spawn, Edge!WakeUp, Edge!Finish, Edge!Cancel, Edge!Reclaim, Edge!Await, Edge!Become
    <2>4. ASSUME NEW C \in SUBSET Coros, Edge!DueDelays(C) \/ Edge!OtherStep(C),
                 NEW c \in Coros, life[c] = "waiting", life'[c] = "runnable"
          PROVE  Edge!Other \in awaits[c]
      BY <2>4 DEF Edge!DueDelays, Edge!OtherStep, Edge!Become
    <2>5. CASE Edge!EndStep \/ Edge!EndDue \/ UNCHANGED Edge!vars
      BY <2>5 DEF Edge!EndStep, Edge!EndDue, Edge!vars, Edge!waitVars
    <2> QED BY <1>1, <2>1, <2>2, <2>3, <2>4, <2>5 DEF Edge!Next
  <1>2. Edge!Spec => []Edge!IInv
    BY EdgeInvariant
  <1> QED BY <1>1, <1>2, PTL DEF Edge!Spec, Edge!NoStaleResume
=============================================================================
