---------------------------- MODULE MCTestbench ----------------------------
(* A test run and the components a test bench is built from: the APB         *)
(* components in both write models, the stream components around two         *)
(* devices, an analysis port, the scoreboards behind a buffer and the        *)
(* transaction recorder.  A run explores them one beside the other: the      *)
(* initial state chooses the subject, and only the subject moves.            *)
EXTENDS Apb, TLC

CONSTANTS
  Subjects,            \* what the run explores
  Immediate,           \* DeferredWrites of the second APB bus
  Caller, None,        \* of TestRun
  Handles,             \* of AnalysisPort
  Keys, Vals,          \* of Scoreboards
  Names, Memory, File  \* of TransactionRecorder

VARIABLES
  subject,
  \* Stream
  point, driver, sink, observer, wire, store, cancels, traffic,
  \* AnalysisPort
  slots, next_id, depth, compacting, handle, portAlive, frames, portBudget,
  \* Scoreboards
  items, dropped, overflows, consumer, inorder, keyed, predicted, observed, taken,
  \* TransactionRecorder
  streams, enabled, output, kept, file, written, torn, constant, thrown,
  recorderBudget,
  \* TestRun
  sched, pending, stack, calls, place, root, holders, alive, cleanups, result,
  expected, reported, spawned

streamVariables == <<point, driver, sink, observer, wire, store, cancels, traffic>>
portVariables == <<slots, next_id, depth, compacting, handle, portAlive, frames,
                   portBudget>>
boardVariables == <<items, dropped, overflows, consumer, inorder, keyed,
                    predicted, observed, taken>>
recorderVariables == <<streams, enabled, output, kept, file, written, torn, constant, thrown,
                       recorderBudget>>
testVariables == <<sched, pending, stack, calls, place, root, holders, alive,
                   cleanups, result, expected, reported, spawned>>
variables == <<vars, streamVariables, portVariables, boardVariables,
               recorderVariables, testVariables>>

\* The bus without PSTRB, in the other write model, and without a limit on wait
\* cycles: there a stalled access completes
Plain == INSTANCE Apb WITH
  DeferredWrites <- Immediate, HasStrobe <- FALSE, MaxWaitCycles <- 0

\* A device of one word, a monitor on its output at the rising edge
Rising == INSTANCE Stream WITH
  Words <- 3, Depth <- 1, Cancels <- 1, DriverDelay <- FALSE, SinkDelay <- FALSE,
  MonitorDelay <- FALSE, MonitorEdge <- "rising", MonitorSide <- "out",
  DeferredWrites <- TRUE, monitor <- observer, history <- traffic

\* A device of two words, a delayed monitor at the falling edge
Falling == INSTANCE Stream WITH
  Words <- 3, Depth <- 2, Cancels <- 1, DriverDelay <- FALSE, SinkDelay <- FALSE,
  MonitorDelay <- TRUE, MonitorEdge <- "falling", MonitorSide <- "out",
  DeferredWrites <- FALSE, monitor <- observer, history <- traffic

Port == INSTANCE AnalysisPort WITH
  Depth <- 3, Connects <- 4, Writes <- 3, pending <- compacting,
  alive <- portAlive, budget <- portBudget

\* The buffer forgets its oldest item, or refuses the newest
Lossy == INSTANCE Scoreboards WITH
  Vals <- {CHOOSE v \in Vals : TRUE}, Capacity <- 2, Policy <- "DropOldest",
  Observes <- 3, thrown <- overflows
Strict == INSTANCE Scoreboards WITH
  Capacity <- 1, Policy <- "Error", Observes <- 2, thrown <- overflows

Recorder == INSTANCE TransactionRecorder WITH
  Memories <- {Memory}, Files <- {File}, Publications <- 3, Reconnects <- 3,
  budget <- recorderBudget

\* A registered test with a time limit
Test == INSTANCE TestRun WITH
  Slots <- 1..3, MaxSpawns <- 3, Registered <- TRUE, HasTimeout <- TRUE,
  SimLogs <- FALSE, pc <- place

\* A bare TestContext, with a log sink that may throw while the simulator runs
Bare == INSTANCE TestRun WITH
  Slots <- 1..3, MaxSpawns <- 2, Registered <- FALSE, HasTimeout <- FALSE,
  SimLogs <- TRUE, pc <- place

\* A registered test whose log sink may throw while the simulator runs
Logging == INSTANCE TestRun WITH
  Slots <- 1..2, MaxSpawns <- 2, Registered <- TRUE, HasTimeout <- FALSE,
  SimLogs <- TRUE, pc <- place

ASSUME /\ ApbAssumption /\ Plain!ApbAssumption
       /\ Rising!StreamAssumption /\ Falling!StreamAssumption
       /\ Port!PortAssumption
       /\ Lossy!ScoreboardAssumption /\ Strict!ScoreboardAssumption
       /\ Recorder!RecorderAssumption
       /\ Test!TestRunAssumption /\ Bare!TestRunAssumption
       /\ Logging!TestRunAssumption

\* Subjects that share a component start alike, but for the tests.  A component
\* that is not the subject starts in one way only.
MCInit ==
  /\ subject \in Subjects
  /\ Init
  /\ subject \notin {"apb", "plain"} => monitor.at = "off" /\ ~checker.on
  /\ Rising!Init /\ Port!Init /\ Lossy!Init /\ Recorder!Init
  /\ CASE subject = "bare" -> Bare!Init
       [] subject = "logging" -> Logging!Init
       [] OTHER -> Test!Init
  /\ subject \notin {"test", "bare", "logging"} => ~expected

\* Bounds: on the plain bus the monitor and the checker are on from the start or
\* never, and a test with an expected failure spawns one process less.
MCNext ==
  \/ /\ \/ subject = "apb" /\ Next
        \/ subject = "plain" /\ Plain!Next /\ budget'.starts = Starts
     /\ UNCHANGED <<subject, streamVariables, portVariables, boardVariables,
                    recorderVariables, testVariables>>
  \/ /\ \/ subject = "rising" /\ Rising!Next
        \/ subject = "falling" /\ Falling!Next
     /\ UNCHANGED <<subject, vars, portVariables, boardVariables,
                    recorderVariables, testVariables>>
  \/ /\ subject = "port" /\ Port!Next
     /\ UNCHANGED <<subject, vars, streamVariables, boardVariables,
                    recorderVariables, testVariables>>
  \/ /\ \/ subject = "lossy" /\ Lossy!Next
        \/ subject = "strict" /\ Strict!Next
     /\ UNCHANGED <<subject, vars, streamVariables, portVariables,
                    recorderVariables, testVariables>>
  \/ /\ subject = "recorder" /\ Recorder!Next
     /\ UNCHANGED <<subject, vars, streamVariables, portVariables,
                    boardVariables, testVariables>>
  \/ /\ \/ subject = "test" /\ Test!Next /\ (expected => spawned' < 3)
        \/ subject = "bare" /\ Bare!Next
        \/ subject = "logging" /\ Logging!Next
     /\ UNCHANGED <<subject, vars, streamVariables, portVariables,
                    boardVariables, recorderVariables>>

MCSpec == MCInit /\ [][MCNext]_<<subject, variables>>

\* The device of the stream accepts every word once, gives every word to a receive, and the monitor
\* publishes every transfer once, in order.
StreamsExact ==
  /\ subject = "rising" =>
       /\ Rising!TypeOK /\ Rising!SentOnce /\ Rising!StallsExact
       /\ Rising!ReceivedExactly /\ Rising!ObservedExactly
  /\ subject = "falling" =>
       /\ Falling!TypeOK /\ Falling!SentOnce /\ Falling!StallsExact
       /\ Falling!ReceivedExactly /\ Falling!ObservedExactly

\* A write to the port calls those who were connected when it began and still
\* are, past slots that move and shrink under re-entrant subscribers.
AudienceServed == subject = "port" =>
  /\ Port!TypeOK /\ Port!InBounds
  /\ Port!HeldExactly /\ Port!AudienceServed /\ Port!Compacted

\* The scoreboards have compared exactly the pairs of equal rank, nothing of the
\* buffer is unaccounted for, and a test that finds nothing wrong is right.
ScoreboardsExact ==
  /\ subject = "lossy" =>
       /\ Lossy!TypeOK /\ Lossy!InOrderExact /\ Lossy!KeyedExact
       /\ Lossy!BufferAccounted
  /\ subject = "strict" =>
       /\ Strict!TypeOK /\ Strict!InOrderExact /\ Strict!KeyedExact
       /\ Strict!BufferAccounted /\ Strict!PassMeansEqual

\* A trace is numbered upwards, without a gap nobody was told of, in whole lines.
TracesHonest == subject = "recorder" =>
  /\ Recorder!TypeOK /\ Recorder!NumbersIncrease
  /\ Recorder!NoSilentGap /\ Recorder!WholeLines

\* A TestRunState lives as long as a process of the test or a reference, and a
\* registered test leaves none behind.
StateOutlives ==
  /\ subject = "test" => Test!TypeOK /\ Test!OwnerOutlives /\ Test!NothingLeft
  /\ subject = "bare" => Bare!TypeOK /\ Bare!OwnerOutlives

\* When a test is over none of its processes takes another step or is left over,
\* and no cancellation it asked for reaches another process.
StoppedAtOnce ==
  /\ subject = "test" => Test!StoppedAtOnce /\ Test!FinishedQuiet
  /\ subject = "bare" => Bare!FinishedQuiet /\ Bare!NoStrayCancel

\* A test has one verdict, which agrees with what was recorded.
OneVerdict ==
  /\ subject = "test" => Test!VerdictSound
  /\ subject = "bare" => Bare!ReportedOnce

\* A finished trace and a finished test result stay as they are.
FinishedStays == Recorder!FinalStays /\ Bare!Final

\* The state of a registered test outlives finish().
AliveWhileFinishing == subject = "logging" => Logging!AliveWhileFinishing
=============================================================================
