CONSTANTS
  MAX_FILE_HANDLES = 3
  Client = {c1, c2, c3, c4}
  Stream = {s1, s2, s3, s4, s5}
  NULL = NULL
SPECIFICATION Spec
INVARIANTS
  HandlesDistinct
  FullMeansLastSlotHeld
PROPERTIES
  LostOnlyWhenFull
  ImplementsFilePool
