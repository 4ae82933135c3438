CONSTANTS
  Subjects = {"lock", "delay", "bus", "stream", "test"}
  r1 = r1
  r2 = r2
  main = main
  Coros = {r1, r2}
  Cancellable = {r1, r2}
  Children = {}
  Main = main
  MaxReady = 2
  c1 = c1
  c2 = c2
  Nobody = Nobody
  Word = Word
  Caller = Caller
  None = None
SPECIFICATION MCFairSpec
PROPERTIES
  Served
  DelaysEnd
  CallsReturn
  Freed
CHECK_DEADLOCK FALSE
