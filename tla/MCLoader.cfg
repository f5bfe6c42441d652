SPECIFICATION Spec
CONSTANTS
  Name <- MCName
  Offset <- MCOffset
  ArtifactSet <- MCArtifactSet
  Bases <- MCBases
  ExternalNames <- MCExternalNames
  RefptrTarget <- MCRefptrTarget
  NoName = "none"
  EntryName = "ba_entry"
  Half = 64
CHECK_DEADLOCK FALSE
INVARIANTS
  ReferencesResolve
  SegmentsAreInOrder
PROPERTIES
  WrittenWhileWritable
  LoadsSucceed
