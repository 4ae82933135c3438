CONSTANTS
  Subjects = {"lock", "semaphore"}
  r1 = r1
  r2 = r2
  k1 = k1
  k2 = k2
  main = main
  Coros = {r1, r2, k1, k2}
  Children = {k1, k2}
  Cancellable = {r1, r2, k1}
  Main = main
  MaxReady = 1
  InitialPermits = 0
  MaxPermits = 2
SYMMETRY Symmetry
SPECIFICATION MCSpec
INVARIANTS
  IInv
  MutualExclusion
  NoAbort
  NoLostHandoff
  PermitsKept
PROPERTIES
  NoBarging
  OldestFirst
