SPECIFICATION Spec
CONSTANTS
  t1 = t1
  t2 = t2
  Threads = {t1, t2}
  Files <- MCFiles
  BatchSize = 2
  Macs = {"m1"}
  MaxReaders = 2
  MaxSessions = 2
  Bind = "0.0.0.0"
  Wildcards = {"", "0.0.0.0", "::", "[::]"}
  Extra = {"collector"}
  OtherNames = {"other"}
  MaxLaunches = 2
SYMMETRY Requesting
CHECK_DEADLOCK FALSE
INVARIANTS
  TypeOK
  CapturesApart
  ImportIsPrefix
  VendorsCurrent
  OnlyOwnPage
PROPERTIES
  StopNotForgotten
