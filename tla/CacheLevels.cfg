SPECIFICATION Spec
CONSTANTS
  t1 = t1
  t2 = t2
  t3 = t3
  Threads = {t1, t2, t3}
  MaxJobs = 3
PROPERTY LevelsYouSetAreKept
CHECK_DEADLOCK FALSE
