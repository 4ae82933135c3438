CONSTANTS
  Subjects = {"tasks", "nested"}
  s1 = s1
  s2 = s2
  s3 = s3
  s4 = s4
  s5 = s5
  p1 = p1
  p2 = p2
  j1 = j1
  j2 = j2
  None = None
  Slots = {s1, s2, s3, s4, s5}
  Processes = {p1, p2}
  Joins = {j1, j2}
  MaxInline = 1
SYMMETRY Symmetry
SPECIFICATION MCSpec
INVARIANTS
  FamiliesIntact
PROPERTIES
  JoinReturns
CHECK_DEADLOCK FALSE
