SPECIFICATION Spec
CONSTANTS
  i1 = i1
  i2 = i2
  Assets <- MCAssets
  Flows <- MCFlows
  Evidences <- MCEvidences
  Decisions = {"Unknown", "Unexpected"}
  Learned <- MCLearned
  Captured <- MCCaptured
  NameOrder <- MCNameOrder
  Importers = {i1, i2}
  OwnTitles = {"external"}
  OwnPrefixes = {"OBS"}
  OwnRefs <- MCOwnRefs
  MaxId = 6
  Facts = {}
  Described = {"a2"}
  Points <- MCPoints
  Confidences = {50}
  EditedLevels = {"", "Level 4"}
  EditedTypes = {"Switch"}
  OldRows <- MCOldRows
  MaxOps = 4
SYMMETRY Importing
CHECK_DEADLOCK FALSE
INVARIANTS
  TypeOK
  NoDraftTwice
  GeneratedRefsDistinct
  UnexpectedIsDrafted
  LevelAccounting
  DiagramMatchesTable
PROPERTIES
  AssessorLevelsKept
  ImportComplete
