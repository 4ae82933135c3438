------------------------------ MODULE Stream -------------------------------
(***************************************************************************)
(* The ready/valid components around a device that queues words: a         *)
(* ReadyValidDriver on its input, a ReadyValidSink on its output and a     *)
(* ReadyValidMonitor on either side.  A cycle has four points: the rising  *)
(* edge, the sample delay after it, the falling edge and the sample delay  *)
(* after that.  A coroutine that resumes at the rising edge reads what the *)
(* device samples there; after the delay it reads what the device made of  *)
(* the edge.  Words are numbered in the order they are sent.               *)
(***************************************************************************)
EXTENDS Integers, Sequences

CONSTANTS
    Words,           \* bound: calls of send
    Depth,           \* words the device holds
    Cancels,         \* bound: coroutines killed
    DriverDelay,     \* the driver's sample_delay is not zero
    SinkDelay,       \* the sink's
    MonitorDelay,    \* the monitor's
    MonitorEdge,     \* the monitor's sample_edge
    MonitorSide,     \* the signals it watches: the device's input or its output
    DeferredWrites   \* built with CPPTB_DEFERRED_WRITES

\* What an instance gives the constants.
StreamAssumption ==
    /\ Words \in Nat /\ Depth \in Nat \ {0} /\ Cancels \in Nat
    /\ {DriverDelay, SinkDelay, MonitorDelay, DeferredWrites} \subseteq BOOLEAN
    /\ MonitorEdge \in {"rising", "falling"} /\ MonitorSide \in {"in", "out"}

VARIABLES
    point,     \* the point of the cycle that was reached last
    driver,    \* ReadyValidDriver::send: where it is suspended, its word, its stalls
    sink,      \* ReadyValidSink::receive: where it is suspended
    monitor,   \* ReadyValidMonitor::run: whether it waits, and the transfers still wanted
    wire,      \* the signals the driver and the sink drive
    store,     \* the words in the device
    cancels,   \* kills left
    history    \* what the device accepted and gave away, what was returned and observed

vars == <<point, driver, sink, monitor, wire, store, cancels, history>>

\* in_ready, out_valid and out_data follow from what the device holds; nothing is read of an empty one.
InReady == Len(store) < Depth
OutValid == store # <<>>
OutData == Head(store)

Init ==
    /\ point = "fallLate"
    /\ driver = [pc |-> "idle", word |-> 0, stalls |-> 0]
    /\ sink = [pc |-> "idle"]
    /\ monitor = [pc |-> "off", left |-> 0]
    /\ wire = [valid |-> FALSE, data |-> 0, ready |-> FALSE]
    /\ store = <<>>
    /\ cancels = Cancels
    /\ history = [pushed |-> <<>>, popped |-> <<>>, received |-> <<>>, observed |-> <<>>,
                  since |-> 0, stalled |-> 0, driverKilled |-> FALSE, sinkKilled |-> FALSE]

-----------------------------------------------------------------------------
(* The callers *)

\* A test calls send for its next word; what it first waits for depends on the write model.
Send ==
    /\ driver.pc = "idle" /\ driver.word < Words
    /\ driver' = [pc |-> IF DeferredWrites THEN "anchor" ELSE "drive",
                  word |-> driver.word + 1, stalls |-> 0]
    /\ history' = [history EXCEPT !.stalled = 0]
    /\ UNCHANGED <<point, sink, monitor, wire, store, cancels>>

\* A test calls receive.
Receive ==
    /\ sink.pc = "idle"
    /\ sink' = [pc |-> "raise"]
    /\ UNCHANGED <<point, driver, monitor, wire, store, cancels, history>>

\* The transfers the device has made on the monitor's side.
Transferred == IF MonitorSide = "in" THEN history.pushed ELSE history.popped

\* A test starts the monitor for some number of transfers, on an idle bus.
Watch == \E n \in 1..Words :
    /\ monitor.pc = "off" /\ history.observed = <<>>
    /\ point = "fallLate" /\ ~wire.ready /\ ~wire.valid
    /\ monitor' = [pc |-> "edge", left |-> n]
    /\ history' = [history EXCEPT !.since = Len(Transferred)]
    /\ UNCHANGED <<point, driver, sink, wire, store, cancels>>

\* A kill destroys the coroutine; the signals it drives stay as they are.
KillSend ==
    /\ driver.pc \notin {"idle", "gone"} /\ cancels > 0
    /\ cancels' = cancels - 1
    /\ driver' = [driver EXCEPT !.pc = "gone"]
    /\ history' = [history EXCEPT !.driverKilled = TRUE]
    /\ UNCHANGED <<point, sink, monitor, wire, store>>
KillReceive ==
    /\ sink.pc \notin {"idle", "gone"} /\ cancels > 0
    /\ cancels' = cancels - 1
    /\ sink' = [pc |-> "gone"]
    /\ history' = [history EXCEPT !.sinkKilled = TRUE]
    /\ UNCHANGED <<point, driver, monitor, wire, store>>

-----------------------------------------------------------------------------
(* The components at one point of the cycle: the state of each after it. *)

\* Bound: stalls are counted up to this many.
Counted(n) == IF n < 2 * Words THEN n + 1 ELSE n

\* The driver reads ready: another stall, or the word is accepted.
DriverSample ==
    IF InReady THEN [driver EXCEPT !.pc = IF DeferredWrites THEN "idle" ELSE "drop"]
    ELSE [driver EXCEPT !.pc = IF DeferredWrites THEN "hold" ELSE "drive",
                        !.stalls = Counted(@)]

DriverAt(next) ==
    CASE driver.pc = "anchor" /\ next = "rise" -> [driver EXCEPT !.pc = "hold"]
      [] driver.pc = "drive" /\ next = "fall" -> [driver EXCEPT !.pc = "hold"]
      [] driver.pc = "drop" /\ next = "fall" -> [driver EXCEPT !.pc = "idle"]
      [] driver.pc = "hold" /\ next = "rise" ->
             IF DriverDelay THEN [driver EXCEPT !.pc = "delay"] ELSE DriverSample
      [] driver.pc = "delay" /\ next = "riseLate" -> DriverSample
      [] OTHER -> driver

\* The sink reads valid: go round again, or a word was taken.
SinkSample == IF OutValid THEN [pc |-> "drop"] ELSE [pc |-> "raise"]

SinkAt(next) ==
    CASE sink.pc = "raise" /\ next = "fall" -> [pc |-> "hold"]
      [] sink.pc = "drop" /\ next = "fall" -> [pc |-> "idle"]
      [] sink.pc = "hold" /\ next = "rise" -> IF SinkDelay THEN [pc |-> "delay"] ELSE SinkSample
      [] sink.pc = "delay" /\ next = "riseLate" -> SinkSample
      [] OTHER -> sink

\* What the driver and the sink have set by the end of a point.
Wire(next) ==
    LET d == DriverAt(next)
        s == SinkAt(next) IN
    [valid |-> IF d.pc = "hold" THEN TRUE
               ELSE IF driver.pc # "idle" /\ d.pc = "idle" THEN FALSE ELSE wire.valid,
     data |-> IF d.pc = "hold" THEN driver.word ELSE wire.data,
     ready |-> IF s.pc = "hold" THEN TRUE
               ELSE IF sink.pc = "drop" /\ s.pc = "idle" THEN FALSE ELSE wire.ready]

\* Mutant: the monitor publishes a word the sink is not ready for.
PassingEager(w) ==
    IF MonitorSide = "in" THEN IF w.valid THEN <<w.data>> ELSE <<>>
    ELSE IF OutValid THEN <<OutData>> ELSE <<>>
\* The word that passes on the monitor's side with some values of the signals, if one does.
Passing(w) ==
    IF MonitorSide = "in" THEN IF w.valid /\ InReady THEN <<w.data>> ELSE <<>>
    ELSE IF OutValid /\ w.ready THEN <<OutData>> ELSE <<>>

MonitorAnchor == IF MonitorEdge = "rising" THEN "rise" ELSE "fall"
\* The point at which the monitor samples.
Samples(next) ==
    IF MonitorDelay THEN monitor.pc = "delay" /\ next = MonitorAnchor \o "Late"
    ELSE monitor.pc = "edge" /\ next = MonitorAnchor

\* What the monitor may see at this point: an immediate write of the same point is made before or after.
Seen(next) ==
    IF ~Samples(next) THEN {<<>>}
    ELSE {Passing(w) : w \in {wire} \cup (IF DeferredWrites THEN {} ELSE {Wire(next)})}

MonitorAt(next, seen) ==
    IF Samples(next) THEN [pc |-> IF monitor.left = Len(seen) THEN "off" ELSE "edge",
                           left |-> monitor.left - Len(seen)]
    ELSE IF monitor.pc = "edge" /\ next = MonitorAnchor THEN [monitor EXCEPT !.pc = "delay"]
    ELSE monitor

-----------------------------------------------------------------------------
(* The clock *)

\* Bound: how much of a history is kept; only a word left on the bus by a kill outgrows it.
Keep(s, more) == IF Len(s) < 2 * Words THEN s \o more ELSE s

\* A point of the cycle: everyone waiting for it samples, the device takes the rising edge, the
\* signals change.
Step(next) ==
    LET pushes == IF next = "rise" /\ wire.valid /\ InReady THEN <<wire.data>> ELSE <<>>
        pops == IF next = "rise" /\ OutValid /\ wire.ready THEN <<OutData>> ELSE <<>>
        takes == IF sink.pc \in {"hold", "delay"} /\ SinkAt(next).pc = "drop" /\ OutValid
                 THEN <<OutData>> ELSE <<>> IN
    \E seen \in Seen(next) :
        /\ point' = next
        /\ driver' = DriverAt(next)
        /\ sink' = SinkAt(next)
        /\ monitor' = MonitorAt(next, seen)
        /\ wire' = Wire(next)
        /\ store' = (IF pops # <<>> THEN Tail(store) ELSE store) \o pushes
        /\ history' = [history EXCEPT
               !.pushed = Keep(@, pushes), !.popped = Keep(@, pops),
               !.received = Keep(@, takes), !.observed = @ \o seen,
               !.stalled = IF next = "rise" /\ driver.pc = "hold" /\ ~InReady THEN Counted(@) ELSE @]
        /\ UNCHANGED cancels

Rise == point = "fallLate" /\ Step("rise")
RiseLate == point = "rise" /\ Step("riseLate")
Fall == point = "riseLate" /\ Step("fall")
FallLate == point = "fall" /\ Step("fallLate")
Clock == Rise \/ RiseLate \/ Fall \/ FallLate

Next == Clock \/ Send \/ Receive \/ Watch \/ KillSend \/ KillReceive

\* The clock runs, and the test that receives keeps receiving.
Spec == Init /\ [][Next]_vars /\ WF_vars(Clock) /\ WF_vars(Receive)

-----------------------------------------------------------------------------
(* Properties *)

\* The components' states and the signals have their types.
TypeOK ==
    /\ point \in {"rise", "riseLate", "fall", "fallLate"}
    /\ driver.pc \in {"idle", "anchor", "drive", "hold", "delay", "drop", "gone"}
    /\ driver.word \in 0..Words /\ driver.stalls \in 0..(2 * Words)
    /\ sink.pc \in {"idle", "raise", "hold", "delay", "drop", "gone"}
    /\ monitor.pc \in {"off", "edge", "delay"} /\ monitor.left \in 0..Words
    /\ wire \in [valid : BOOLEAN, data : 0..Words, ready : BOOLEAN]
    /\ store \in Seq(1..Words) /\ Len(store) <= Depth

\* A word that send has returned for, or is returning for, was accepted by the device.
Sent == IF driver.pc \in {"idle", "drop"} THEN driver.word ELSE driver.word - 1

\* send drives one transfer: the device accepts every word once and in order, by the time send
\* returns and not before it saw the handshake; a send that is killed can only leave the word it
\* was sending on the bus, to be accepted again and again.
SentOnce ==
    /\ ~history.driverKilled => history.pushed = [i \in 1..Sent |-> i]
    /\ \A i \in DOMAIN history.pushed :
          history.pushed[i] = (IF i <= driver.word THEN i ELSE driver.word)

\* The count send returns is the number of rising edges at which the device was not ready for it.
StallsExact == driver.pc \in {"idle", "drop"} => driver.stalls = history.stalled

\* receive returns every word the device gives away, once and in order; what a killed receive leaves
\* ready high for is lost, and nothing else is.
ReceivedExactly ==
    /\ ~history.sinkKilled => history.received = history.popped
    /\ history.received = SubSeq(history.popped, 1, Len(history.received))

\* The monitor publishes every transfer of its side once, in order, until it has seen as many as it
\* was asked for; on the falling edge it is ahead of the device by the transfer about to be made.
ObservedExactly == point \in {"riseLate", "fall"} /\ ~(MonitorEdge = "falling" /\ point = "fall") =>
    LET n == Len(history.observed)
        done == SubSeq(Transferred, history.since + 1, Len(Transferred)) IN
    /\ n <= Len(done)
    /\ history.observed = SubSeq(done, 1, n)
    /\ monitor.pc # "off" => n = Len(done)

\* A send returns, however full the device was, when somebody keeps receiving.
SendsReturn == driver.pc # "idle" ~> driver.pc \in {"idle", "gone"}
=============================================================================
