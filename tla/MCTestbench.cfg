CONSTANTS
  Subjects = {"apb", "plain", "rising", "falling", "port", "lossy", "strict",
              "recorder", "test", "bare"}
  Clients = {c1, c2}
  Nobody = Nobody
  Values = {v1}
  Transfers = 1
  Stalls = 1
  Cancels = 1
  Starts = 1
  MaxWaitCycles = 1
  HasStrobe = TRUE
  DeferredWrites = TRUE
  Immediate = FALSE
  Caller = Caller
  None = None
  Handles = {h1, h2, h3}
  Keys = {k1, k2}
  Vals = {v1, v2}
  Names = {s1, s2}
  Memory = m1
  File = f1
SPECIFICATION MCSpec
INVARIANTS
  TransfersOnce
  StreamsExact
  AudienceServed
  ScoreboardsExact
  TracesHonest
  StateOutlives
  StoppedAtOnce
  OneVerdict
PROPERTIES
  FinishedStays
\* A test, the monitors and the publishers may stop.
CHECK_DEADLOCK FALSE
