CONSTANTS
  Subjects = {"logging"}
  Clients = {c1, c2}
  Nobody = Nobody
  Values = {v1}
  Transfers = 1
  Stalls = 2
  Cancels = 1
  Starts = 1
  MaxWaitCycles = 1
  HasStrobe = TRUE
  DeferredWrites = TRUE
  Immediate = FALSE
  Caller = Caller
  None = None
  Handles = {h1, h2, h3}
  Keys = {k1, k2}
  Vals = {v1, v2}
  Names = {s1, s2}
  Memory = m1
  File = f1
SPECIFICATION MCSpec
INVARIANT
  AliveWhileFinishing
CHECK_DEADLOCK FALSE
