-------------------------------- MODULE Apb --------------------------------
(***************************************************************************)
(* The APB components: an ApbMaster shared by several callers through its  *)
(* lock, a passive ApbMonitor and an ApbProtocolChecker on the same bus.   *)
(* Time is the bus clock, one action per edge.  At a rising edge everyone  *)
(* samples the same bus; the master drives at the falling edges, or, with  *)
(* DeferredWrites, after the samples of the rising one.  The device only   *)
(* decides when it is ready, whether it fails and what it returns.         *)
(***************************************************************************)
EXTENDS Integers, Sequences, SequencesExt

CONSTANTS
    Clients,         \* the coroutines that call write and read; also the addresses and data they use
    Nobody,          \* no client
    Values,          \* what the device may return
    Transfers,       \* bound: calls of one client
    Stalls,          \* bound: cycles the device keeps an access waiting
    Cancels,         \* bound: clients killed
    Starts,          \* bound: starts and stops of the monitor and the checker
    MaxWaitCycles,   \* ApbConfig::max_wait_cycles
    HasStrobe,       \* the bus has a PSTRB signal
    DeferredWrites   \* built with CPPTB_DEFERRED_WRITES

\* What an instance gives the constants.
ApbAssumption ==
    /\ Nobody \notin Clients \cup Values
    /\ {Transfers, Stalls, Cancels, Starts, MaxWaitCycles} \subseteq Nat
    /\ {HasStrobe, DeferredWrites} \subseteq BOOLEAN

VARIABLES
    clk,        \* the level the last edge left
    bus,        \* the signals the master drives
    lock,       \* lock_: its owner and the callers queued behind it
    pc,         \* where each client's coroutine is suspended
    req,        \* the request it makes
    waits,      \* wait_cycles of wait_for_completion
    answer,     \* the response of its last call
    monitor,    \* ApbMonitor::run
    checker,    \* ApbProtocolChecker and the flags it keeps between samples
    stall,      \* cycles the device has kept the access waiting
    budget,     \* what is left of the bounds
    history     \* what the device did for each client, what was published, what excuses a report

vars == <<clk, bus, lock, pc, req, waits, answer, monitor, checker, stall, budget, history>>

Strobes == {"all", "part", "none"}
Requests == [write: BOOLEAN, strobe: {"all", "part"}]
\* The response of a call that waits for its first edge.
Unanswered == [status |-> "none", waits |-> 0, value |-> Nobody]
Idle == [bus EXCEPT !.select = FALSE, !.enable = FALSE, !.write = FALSE]
Owner == lock.owner

\* A monitor and a checker with nothing captured; what they captured is dropped once it is not read again.
Watching(at) ==
    [at |-> at, waits |-> 0, write |-> FALSE, address |-> Nobody, data |-> Nobody, strobe |-> "none"]
Checking(on, fresh, waiting) ==
    [on |-> on, fresh |-> fresh, setup |-> FALSE, waiting |-> waiting,
     write |-> FALSE, address |-> Nobody, data |-> Nobody, strobe |-> "none"]

Init ==
    /\ clk = "low"
    /\ bus = [select |-> FALSE, enable |-> FALSE, write |-> FALSE, address |-> Nobody,
              data |-> Nobody, strobe |-> "none"]
    /\ lock = [owner |-> Nobody, queue |-> <<>>]
    /\ pc = [c \in Clients |-> "idle"]
    /\ req = [c \in Clients |-> [write |-> FALSE, strobe |-> "all"]]
    /\ waits = [c \in Clients |-> 0]
    /\ answer = [c \in Clients |-> Unanswered]
    /\ \E at \in {"off", "seek"} : monitor = Watching(at)
    /\ \E on \in BOOLEAN : checker = Checking(on, on, FALSE)
    /\ stall = 0
    /\ budget = [calls |-> [c \in Clients |-> Transfers], cancels |-> Cancels,
                 starts |-> Starts]
    /\ history = [served |-> [c \in Clients |-> <<>>], published |-> [c \in Clients |-> <<>>],
                  watched |-> [c \in Clients |-> FALSE], excused |-> FALSE, reports |-> FALSE]

\* The lock goes to the first caller queued, which then waits for its first edge.
Released ==
    IF lock.queue = <<>> THEN [owner |-> Nobody, queue |-> <<>>]
    ELSE [owner |-> Head(lock.queue), queue |-> Tail(lock.queue)]

\* Mutant: the lock changes hands and nobody is resumed.
MovesAsleep(c, to) == [pc EXCEPT ![c] = to]
Moves(c, to) ==
    [d \in Clients |->
        IF d = c THEN to
        ELSE IF to \in {"idle", "gone"} /\ d = Released.owner /\ c = Owner THEN "anchor"
        ELSE pc[d]]

-----------------------------------------------------------------------------
(* The callers *)

\* write and read up to the lock; a partial write needs PSTRB, and is refused before anything is driven.
Call(c) == \E r \in Requests :
    /\ pc[c] = "idle" /\ budget.calls[c] > 0
    /\ r.write \/ r.strobe = "all"
    /\ budget' = [budget EXCEPT !.calls[c] = @ - 1]
    /\ req' = [req EXCEPT ![c] = r]
    /\ history' = [history EXCEPT !.served[c] = <<>>, !.published[c] = <<>>, !.watched[c] = FALSE]
    /\ waits' = [waits EXCEPT ![c] = 0]
    /\ IF r.strobe = "part" /\ ~HasStrobe
       THEN /\ answer' = [answer EXCEPT ![c] = [Unanswered EXCEPT !.status = "invalid"]]
            /\ UNCHANGED <<lock, pc>>
       ELSE /\ answer' = [answer EXCEPT ![c] = Unanswered]
            /\ IF Owner = Nobody
               THEN /\ lock' = [lock EXCEPT !.owner = c]
                    /\ pc' = [pc EXCEPT ![c] = "anchor"]
               ELSE /\ lock' = [lock EXCEPT !.queue = Append(@, c)]
                    /\ pc' = [pc EXCEPT ![c] = "queued"]
    /\ UNCHANGED <<clk, bus, monitor, checker, stall>>

\* Mutant: the lock is not released when its owner dies.
CancelLeaks(c) ==
    /\ pc[c] \notin {"idle", "gone"} /\ budget.cancels > 0
    /\ budget' = [budget EXCEPT !.cancels = @ - 1]
    /\ pc' = [pc EXCEPT ![c] = "gone"]
    /\ UNCHANGED <<clk, bus, lock, req, waits, answer, monitor, checker, stall, history>>
\* The coroutine is destroyed: LockGuard releases the lock, nothing returns the bus to idle.
Cancel(c) ==
    /\ pc[c] \notin {"idle", "gone"} /\ budget.cancels > 0
    /\ budget' = [budget EXCEPT !.cancels = @ - 1]
    /\ \/ c = Owner /\ lock' = Released
       \/ \E i \in DOMAIN lock.queue :
              lock.queue[i] = c /\ lock' = [lock EXCEPT !.queue = RemoveAt(@, i)]
    /\ pc' = Moves(c, "gone")
    /\ history' = [history EXCEPT !.excused = @ \/ bus.enable]
    /\ UNCHANGED <<clk, bus, req, waits, answer, monitor, checker, stall>>

-----------------------------------------------------------------------------
(* The master *)

\* The first drive of a transfer.
Setup(c) ==
    [select |-> TRUE, enable |-> FALSE, write |-> req[c].write, address |-> c,
     data |-> IF req[c].write THEN c ELSE bus.data,
     strobe |-> IF ~HasStrobe THEN "all" ELSE IF req[c].write THEN req[c].strobe ELSE "none"]

\* One sample of wait_for_completion.
Completion(c, ready, failed) ==
    IF ready THEN IF failed THEN "error" ELSE "okay"
    ELSE IF MaxWaitCycles # 0 /\ waits[c] + 1 >= MaxWaitCycles THEN "timeout" ELSE "none"

\* The owner's coroutine resumes at a falling edge (immediate writes).
MasterFalls ==
    LET c == Owner IN
    IF DeferredWrites \/ c = Nobody THEN UNCHANGED <<bus, lock, pc>>
    ELSE CASE pc[c] = "anchor" -> /\ bus' = Setup(c)
                                  /\ pc' = [pc EXCEPT ![c] = "setup"]
                                  /\ UNCHANGED lock
           [] pc[c] = "turn" -> /\ bus' = [bus EXCEPT !.enable = TRUE]
                                /\ pc' = [pc EXCEPT ![c] = "access"]
                                /\ UNCHANGED lock
           [] pc[c] = "drop" -> /\ bus' = Idle
                                /\ pc' = Moves(c, "idle")
                                /\ lock' = Released
           [] OTHER -> UNCHANGED <<bus, lock, pc>>

\* The owner's coroutine resumes at a rising edge.
MasterRises(ready, failed, value) ==
    LET c == Owner
        status == Completion(c, ready, failed) IN
    IF c = Nobody THEN UNCHANGED <<bus, lock, pc, waits, answer>>
    ELSE \/ /\ pc[c] = "anchor" /\ DeferredWrites
            /\ bus' = Setup(c)
            /\ pc' = [pc EXCEPT ![c] = "setup"]
            /\ UNCHANGED <<lock, waits, answer>>
         \/ /\ pc[c] = "setup"
            /\ bus' = IF DeferredWrites THEN [bus EXCEPT !.enable = TRUE] ELSE bus
            /\ pc' = [pc EXCEPT ![c] = IF DeferredWrites THEN "access" ELSE "turn"]
            /\ UNCHANGED <<lock, waits, answer>>
         \/ /\ pc[c] = "access" /\ status = "none"
            /\ waits' = [waits EXCEPT ![c] = @ + 1]
            /\ UNCHANGED <<bus, lock, pc, answer>>
         \/ /\ pc[c] = "access" /\ status # "none"
            /\ waits' = [waits EXCEPT ![c] = IF ready THEN @ ELSE @ + 1]
            /\ answer' = [answer EXCEPT ![c] =
                   [status |-> status, waits |-> waits'[c],
                    value |-> IF status = "timeout" \/ req[c].write THEN Nobody ELSE value]]
            /\ IF DeferredWrites
               THEN bus' = Idle /\ pc' = Moves(c, "idle") /\ lock' = Released
               ELSE UNCHANGED <<bus, lock>> /\ pc' = [pc EXCEPT ![c] = "drop"]
         \/ /\ pc[c] \notin {"setup", "access"} /\ ~(pc[c] = "anchor" /\ DeferredWrites)
            /\ UNCHANGED <<bus, lock, pc, waits, answer>>

-----------------------------------------------------------------------------
(* The monitor and the checker *)

\* capture_setup
CaptureSetup ==
    [at |-> "access", waits |-> 0, write |-> bus.write, address |-> bus.address,
     data |-> IF bus.write THEN bus.data ELSE Nobody,
     strobe |-> IF bus.write THEN bus.strobe ELSE "all"]

\* observe_one at one sample; after a transaction run may have seen as many as it wanted.
MonitorSamples(ready) ==
    IF monitor.at = "off" THEN monitor' = monitor
    ELSE IF bus.select /\ ~bus.enable THEN monitor' = CaptureSetup
    ELSE IF monitor.at = "seek" THEN monitor' = monitor
    ELSE IF ~bus.select THEN monitor' = Watching("seek")
    ELSE IF ~ready THEN monitor' = [monitor EXCEPT !.waits = @ + 1]
    ELSE \E next \in {"seek", "off"} : monitor' = Watching(next)

\* The transactions a sample publishes, with the response it read from the bus.
Published(ready, failed, value) ==
    IF monitor.at = "access" /\ bus.select /\ bus.enable /\ ready
    THEN {[address |-> monitor.address, data |-> monitor.data, strobe |-> monitor.strobe,
           answer |-> [status |-> IF failed THEN "error" ELSE "okay", waits |-> monitor.waits,
                       value |-> IF monitor.write THEN Nobody ELSE value]]}
    ELSE {}

\* The control signals have changed since they were captured.
Changed ==
    \/ bus.address # checker.address
    \/ bus.write # checker.write
    \/ checker.write /\ bus.data # checker.data
    \/ bus.strobe # checker.strobe

\* The conditions one sample of the checker reports.
Violates ==
    LET access == bus.select /\ bus.enable IN
    \/ bus.enable /\ ~bus.select
    \/ access /\ ~checker.setup /\ ~checker.waiting
    \/ checker.waiting /\ (~bus.select \/ ~bus.enable \/ Changed)
    \/ bus.select /\ ~bus.enable /\ HasStrobe /\ ~bus.write /\ bus.strobe # "none"
    \/ access /\ checker.setup /\ Changed

CheckerSamples(ready) ==
    IF ~checker.on THEN checker' = checker
    ELSE IF bus.select /\ ~bus.enable
    THEN checker' = [on |-> TRUE, fresh |-> FALSE, setup |-> TRUE, waiting |-> FALSE,
                     write |-> bus.write, address |-> bus.address, data |-> bus.data,
                     strobe |-> bus.strobe]
    ELSE IF bus.select /\ bus.enable /\ ~ready
    THEN checker' = [checker EXCEPT !.fresh = FALSE, !.setup = FALSE, !.waiting = TRUE]
    ELSE checker' = Checking(TRUE, FALSE, FALSE)

\* run, run_forever, run_cycles and run_until start and end between samples; the flags outlive them.
StartMonitor ==
    /\ monitor.at = "off" /\ budget.starts > 0
    /\ budget' = [budget EXCEPT !.starts = @ - 1]
    /\ monitor' = Watching("seek")
    /\ UNCHANGED <<clk, bus, lock, pc, req, waits, answer, checker, stall, history>>
StartStopChecker ==
    /\ budget.starts > 0
    /\ budget' = [budget EXCEPT !.starts = @ - 1]
    /\ checker' = [checker EXCEPT !.on = ~@, !.fresh = ~checker.on]
    /\ UNCHANGED <<clk, bus, lock, pc, req, waits, answer, monitor, stall, history>>

-----------------------------------------------------------------------------
(* The edges *)

\* The device completes the access on the bus.
Serves(ready) == bus.select /\ bus.enable /\ ready

Watch(ready, failed, value) ==
    LET c == bus.address
        event == [request |-> [write |-> bus.write, strobe |-> bus.strobe, data |-> bus.data],
                  status |-> IF failed THEN "error" ELSE "okay",
                  value |-> IF bus.write THEN Nobody ELSE value, waits |-> stall] IN
    history' = [history EXCEPT
        !.served = IF Serves(ready) /\ Len(@[c]) < 2
                   THEN [history.served EXCEPT ![c] = Append(@, event)] ELSE @,
        !.published = [d \in Clients |->
            IF \E t \in Published(ready, failed, value) : t.address = d
            THEN Append(@[d], CHOOSE t \in Published(ready, failed, value) : TRUE)
            ELSE @[d]],
        !.watched = IF bus.select /\ ~bus.enable
                    THEN [@ EXCEPT ![c] = monitor.at # "off"] ELSE @,
        !.reports = @ \/ (checker.on /\ Violates),
        !.excused = \/ @
                    \/ checker.fresh /\ (checker.waiting \/ (bus.select /\ bus.enable))
                    \/ \E d \in Clients : answer'[d].status = "timeout"]

\* A rising edge: everyone samples, then deferred drives apply.
Rise == \E ready, failed \in BOOLEAN, value \in Values \cup {Nobody} :
    LET access == bus.select /\ bus.enable IN
    /\ clk = "low"
    /\ ready => access
    /\ value # Nobody <=> ready /\ ~bus.write
    /\ failed => ready
    /\ access /\ stall = Stalls => ready
    /\ clk' = "high"
    /\ MasterRises(ready, failed, value)
    /\ MonitorSamples(ready)
    /\ CheckerSamples(ready)
    /\ stall' = IF access /\ ~ready THEN stall + 1 ELSE 0
    /\ Watch(ready, failed, value)
    /\ UNCHANGED <<req, budget>>

\* A falling edge.
Fall ==
    /\ clk = "high"
    /\ clk' = "low"
    /\ MasterFalls
    /\ UNCHANGED <<req, waits, answer, monitor, checker, stall, budget, history>>

Next ==
    \/ Rise \/ Fall \/ StartMonitor \/ StartStopChecker
    \/ \E c \in Clients : Call(c) \/ Cancel(c)

\* The clock keeps running.
Spec == Init /\ [][Next]_vars /\ WF_vars(Rise) /\ WF_vars(Fall)

-----------------------------------------------------------------------------
(* Properties *)

Party == Clients \cup {Nobody}
Data == Values \cup {Nobody}
Statuses == {"okay", "error", "timeout", "invalid", "none"}
Places == {"idle", "queued", "anchor", "setup", "turn", "access", "drop", "gone"}
Responses == [status: Statuses, waits: Nat, value: Data]
Events == [request: [write: BOOLEAN, strobe: Strobes, data: Party], status: Statuses,
           value: Data, waits: Nat]
Observations == [address: Party, data: Party, strobe: Strobes, answer: Responses]

\* The state the master, the monitor and the checker keep has its types.
TypeOK ==
    /\ clk \in {"low", "high"}
    /\ bus \in [select: BOOLEAN, enable: BOOLEAN, write: BOOLEAN, address: Party, data: Party,
                strobe: Strobes]
    /\ lock \in [owner: Party, queue: Seq(Clients)]
    /\ pc \in [Clients -> Places]
    /\ req \in [Clients -> Requests]
    /\ waits \in [Clients -> Nat]
    /\ answer \in [Clients -> Responses]
    /\ monitor \in [at: {"off", "seek", "access"}, waits: Nat, write: BOOLEAN, address: Party,
                    data: Party, strobe: Strobes]
    /\ checker \in [on: BOOLEAN, fresh: BOOLEAN, setup: BOOLEAN, waiting: BOOLEAN,
                    write: BOOLEAN, address: Party, data: Party, strobe: Strobes]
    /\ stall \in 0..Stalls
    /\ budget \in [calls: [Clients -> 0..Transfers], cancels: 0..Cancels, starts: 0..Starts]
    /\ history \in [served: [Clients -> Seq(Events)], published: [Clients -> Seq(Observations)],
                    watched: [Clients -> BOOLEAN], excused: BOOLEAN, reports: BOOLEAN]

\* A finished call: the coroutine has returned its response and has not called again.
Finished(c) == pc[c] = "idle" /\ answer[c].status # "none"

\* The lock has one owner and every call that is neither finished nor killed holds it or is queued
\* for it: two callers never interleave their drives, whoever is cancelled.
Serialised ==
    /\ \A c \in Clients : (pc[c] \in {"anchor", "setup", "turn", "access", "drop"}) <=> c = Owner
    /\ \A c \in Clients : pc[c] = "queued" <=> \E i \in DOMAIN lock.queue : lock.queue[i] = c

\* A response okay or error is what the device answered to this very request, performed once; after
\* a timeout the device has performed nothing; a refused partial write never reaches the bus.
ServedAsAnswered(c) ==
    LET done == history.served[c] IN
    IF answer[c].status \in {"timeout", "invalid"} THEN done = <<>>
    ELSE /\ Len(done) = 1
         /\ done[1].status = answer[c].status
         /\ done[1].value = answer[c].value
         /\ done[1].waits = answer[c].waits
         /\ done[1].request.write = req[c].write
         /\ req[c].write => done[1].request.data = c /\ done[1].request.strobe = req[c].strobe

\* A monitor that saw the setup phase publishes the transfer once, with the status, data and wait
\* cycles the caller got, and never one the device has not performed; one started in the middle of a
\* transfer, or watching a transfer that timed out, publishes nothing for it.
PublishedAsAnswered(c) ==
    history.published[c] =
        IF history.watched[c] /\ answer[c].status \in {"okay", "error"}
        THEN <<[address |-> c, data |-> IF req[c].write THEN c ELSE Nobody,
                strobe |-> IF req[c].write THEN req[c].strobe ELSE "all", answer |-> answer[c]]>>
        ELSE <<>>

\* Every response is the device's, to a request performed once.
ServedOnce == \A c \in Clients : Finished(c) => ServedAsAnswered(c)

\* What is observed of a call agrees with what the caller got, and nothing is observed twice.
ObservedAsAnswered == \A c \in Clients :
    /\ Len(history.published[c]) <= 1
    /\ Len(history.published[c]) <= Len(history.served[c])
    /\ Finished(c) => PublishedAsAnswered(c)

\* The checker reports nothing about the library's own master unless a call timed out, a client was
\* killed during its access phase, or the checker was started in the middle of an access.
ReportsExcused == history.reports => history.excused

\* Whoever shares the bus, is killed, stalled or times out: a transfer happens once, its caller and
\* the monitor learn what the device answered, and the checker finds fault with no innocent.
TransfersOnce == TypeOK /\ Serialised /\ ServedOnce /\ ObservedAsAnswered /\ ReportsExcused

\* Every call queued for the bus returns or is killed, whoever dies holding the lock.
CallsReturn == \A c \in Clients : pc[c] = "queued" ~> pc[c] \in {"idle", "gone"}

-----------------------------------------------------------------------------
(* The inductive invariant behind them. *)

OnBus == {"setup", "turn", "access", "drop"}
Waiting == {"queued", "anchor", "setup", "turn", "access"}

\* A caller waits for the lock in one place, and nobody waits for a lock that is free.
Locked == Serialised /\ IsInjective(lock.queue) /\ (Owner = Nobody => lock.queue = <<>>)

\* The bus carries the request of c.
Carries(c) ==
    /\ bus.select /\ bus.address = c /\ bus.write = req[c].write
    /\ bus.enable <=> pc[c] \in {"access", "drop"}
    /\ bus.write => bus.data = c
    /\ bus.strobe = IF ~HasStrobe THEN "all" ELSE IF bus.write THEN req[c].strobe ELSE "none"

\* The bus carries the owner's request while it is on the bus, or what a killed owner left there.
Driven ==
    /\ \A c \in Clients : pc[c] \in OnBus => Carries(c)
    /\ bus.enable => bus.select
    /\ bus.select => bus.address \in Clients /\ pc[bus.address] \in OnBus \cup {"gone"}
    /\ bus.select /\ HasStrobe /\ ~bus.write => bus.strobe = "none"
    /\ \A c \in Clients : pc[c] = "drop" => clk = "high" /\ ~DeferredWrites

\* The master counts the cycles the device has stalled the access, up to its limit.
Counts(c) ==
    /\ MaxWaitCycles # 0 => waits[c] <= MaxWaitCycles
    /\ pc[c] = "access" => waits[c] = stall /\ (MaxWaitCycles # 0 => waits[c] < MaxWaitCycles)
    /\ pc[c] = "turn" => stall = 0
    /\ pc[c] \in {"queued", "anchor", "setup", "turn"} => waits[c] = 0

\* Nothing has happened for a call that has no response.
Settled(c) ==
    /\ pc[c] \in Waiting =>
           answer[c].status = "none" /\ history.served[c] = <<>> /\ history.published[c] = <<>>
    /\ pc[c] \in {"queued", "anchor", "setup"} => ~history.watched[c]
    /\ pc[c] \in Waiting \cup {"drop"} /\ req[c].strobe = "part" => HasStrobe /\ req[c].write
    /\ pc[c] = "drop" => answer[c].status # "none"
    /\ pc[c] \in {"idle", "drop"} /\ answer[c].status # "none" =>
           ServedAsAnswered(c) /\ PublishedAsAnswered(c)

Turning == \E c \in Clients : pc[c] = "turn"

\* The monitor holds what is on the bus.
Captured ==
    /\ monitor.address = bus.address /\ monitor.write = bus.write
    /\ monitor.data = IF bus.write THEN bus.data ELSE Nobody
    /\ monitor.strobe = IF bus.write THEN bus.strobe ELSE "all"

\* A monitor that has seen the setup phase holds what is on the bus, and has not published it.
Monitored ==
    /\ monitor.at = "access" => monitor.waits = stall
    /\ monitor.at = "access" /\ (bus.enable \/ Turning) => Captured
    /\ monitor.at = "access" /\ bus.enable => history.published[bus.address] = <<>>
    /\ \A c \in Clients :
           /\ pc[c] \in {"turn", "access"} => (history.watched[c] <=> monitor.at = "access")
           /\ Len(history.published[c]) <= 1
           /\ Len(history.published[c]) <= Len(history.served[c])

\* A checker that has sampled since it was started has seen the phases of the transfer on the bus,
\* unless there is an excuse already; what a killed client leaves enabled is one.
Checked == ~history.excused =>
    /\ bus.enable => pc[bus.address] # "gone"
    /\ checker.on /\ ~checker.fresh =>
           /\ checker.waiting => bus.enable /\ pc[bus.address] = "access"
           /\ (bus.enable /\ pc[bus.address] = "access") \/ Turning =>
                  (checker.setup \/ checker.waiting) /\ ~Changed

IInv ==
    /\ TypeOK /\ Locked /\ Driven /\ Monitored /\ Checked /\ ReportsExcused
    /\ \A c \in Clients : Counts(c) /\ Settled(c)
=============================================================================
