\* Two coroutines write fields of one register.
SPECIFICATION MCSpec
CONSTANTS
  Subjects = {"fields"}
  c1 = c1
  c2 = c2
  Nobody = Nobody
  Absent = Absent
  Custom = Custom
PROPERTY FieldWriteLands
CHECK_DEADLOCK FALSE
