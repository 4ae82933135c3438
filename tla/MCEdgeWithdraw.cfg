CONSTANTS
  Subjects = {"clock"}
  c1 = c1
  c2 = c2
  clk = clk
  obs = obs
  drv = drv
  Waiters = {c1, c2}
  Coros = {1, 2}
  Clocks = {}
  Observers = {obs}
  Locals = {drv}
  Primary = clk
  Cancellable = {c1, c2}
  CompactThreshold = 2
  MaxTriggers = 2
  MaxGeneration = 3
  ClockGeneration = 3
  ClockObservers = {}
  Withdrawing = {c1, c2}
  Delays = {1}
  Forever = 2
  MaxTime = 1
  MaxTimers = 1
  DirectTime = 0
  VpiTime = 0
  PhaseQueue = 1
SYMMETRY Symmetry
SPECIFICATION MCSpec
INVARIANT
  ClocksKnown
