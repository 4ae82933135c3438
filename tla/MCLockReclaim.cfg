CONSTANTS
  Subjects = {"lock"}
  r1 = r1
  r2 = r2
  k1 = k1
  main = main
  Coros = {r1, r2, k1}
  Cancellable = {r1, r2, k1}
  Children = {k1}
  Main = main
  MaxReady = 3
  InitialPermits = 0
  MaxPermits = 0
SPECIFICATION MCSpec
INVARIANT
  HandoffReturned
