SPECIFICATION Spec
CONSTANTS
  m1 = m1
  m2 = m2
  d1 = d1
  Macs = {m1, m2}
  Manual = {d1}
  Multicast = Multicast
  Sessions = {1}
  MaxId = 3
  MaxFrames = 1
PROPERTY ReimportUpdates
CHECK_DEADLOCK FALSE
