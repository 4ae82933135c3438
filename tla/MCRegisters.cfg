\* Every part of the register model; its subjects one beside the other.
SPECIFICATION MCSpec
CONSTANTS
  Subjects = {"narrow", "effects", "shared", "monitored", "wide", "wide monitored",
              "disturbed", "disturbed split", "disturbed wide", "disturbed monitored", "map",
              "memory", "ending", "wide memory", "sparse", "predicting",
              "sequences", "table", "scan"}
  c1 = c1
  c2 = c2
  Nobody = Nobody
  Absent = Absent
  Custom = Custom
INVARIANTS MirrorsExact RulesAgree MapExact MemoriesExact SequencesHonest CoverageExact
PROPERTIES UpdatesHonest FlatSpec
CHECK_DEADLOCK FALSE
