SPECIFICATION Spec
CONSTANTS
  t1 = t1
  t2 = t2
  t3 = t3
  Threads = {t1, t2, t3}
  MaxJobs = 4
SYMMETRY ThreadSymmetry
INVARIANTS
  TypeOK
  CleanEntryCurrent
  AcceptOnCurrentData
CHECK_DEADLOCK FALSE
