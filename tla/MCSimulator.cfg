CONSTANTS
  Subjects = {"edge", "clock", "delay", "direct", "vpi"}
  c1 = c1
  c2 = c2
  clk = clk
  obs = obs
  drv = drv
  Waiters = {c1, c2}
  Coros = {1, 2}
  Clocks = {}
  Observers = {obs}
  Locals = {drv}
  Primary = clk
  Cancellable = {c1, c2}
  CompactThreshold = 2
  MaxTriggers = 2
  MaxGeneration = 3
  ClockGeneration = 4
  ClockObservers = {obs}
  Withdrawing = {c1, c2}
  Delays = {1, 3, 7}
  Forever = 7
  MaxTime = 5
  MaxTimers = 3
  DirectTime = 1
  VpiTime = 1
  PhaseQueue = 2
SYMMETRY Symmetry
SPECIFICATION MCSpec
INVARIANTS
  BooksAgree
  InterestKnown
  DeadlinesArmed
  PhasesInOrder
PROPERTIES
  NoStaleResume
  OnTime
CHECK_DEADLOCK FALSE
