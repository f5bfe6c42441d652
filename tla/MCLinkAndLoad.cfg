CONSTANTS
  Target = {"x64"}
  Name <- MCName
  Data <- MCData
  Offset <- MCOffset
  NameSize <- MCNameSize
  InputSet <- MCInputSet
  Bases <- MCBases
  ExternalNames <- MCExternalNames
  RefptrTarget <- MCRefptrTarget
  NoName = "none"
  EntryName = "ba_entry"
  Half = 128
SPECIFICATION ProgramSpec
CHECK_DEADLOCK FALSE
INVARIANTS
  JumpsGoWhereInputsMeant
  PointersGoWhereInputsMeant
PROPERTY CompleteProgramRuns
