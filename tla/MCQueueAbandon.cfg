CONSTANTS
  Subjects = {"queue"}
  k1 = k1
  k2 = k2
  k3 = k3
  Coros = {k1, k2, k3}
  Children = {k1, k2, k3}
  Cancellable = {k1, k2, k3}
  MaxReady = 1
  MaxSize = 1
  ItemBound = 1
  CalmReady = 1
  CalmSize = 1
  CalmBound = 1
  EventCoros = {}
  EventChildren = {}
  EventReady = 0
SYMMETRY Symmetry
SPECIFICATION MCSpec
INVARIANT
  NoneStranded
