CONSTANTS
  Subjects = {"queue", "calm", "event"}
  k1 = k1
  k2 = k2
  k3 = k3
  k4 = k4
  Coros = {k1, k2, k3, k4}
  Children = {k1, k2, k3, k4}
  Cancellable = {k1, k2, k3}
  MaxReady = 1
  MaxSize = 1
  ItemBound = 1
  CalmReady = 3
  CalmSize = 2
  CalmBound = 2
  e1 = e1
  e2 = e2
  e3 = e3
  EventCoros = {e1, e2, e3}
  EventChildren = {e3}
  EventReady = 2
SYMMETRY Symmetry
SPECIFICATION MCSpec
INVARIANTS
  ReservationsBacked
  WaitersRemembered
PROPERTIES
  OldestFirst
  IsLatch
