SPECIFICATION Spec
CONSTANTS
  m1 = m1
  m2 = m2
  d1 = d1
  Macs = {m1, m2}
  Manual = {d1}
  Multicast = Multicast
  Sessions = {1, 2}
  MaxId = 3
  MaxFrames = 2
SYMMETRY MacSymmetry
INVARIANTS
  TypeOK
  OneIdentity
  EvidenceBalanced
  SightingsWithinSession
  EvidenceBacked
  ReimportFindsMac
PROPERTIES
  EvidenceLostOnlyByDeletion
  IdentitySpec
CHECK_DEADLOCK FALSE
