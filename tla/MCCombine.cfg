CONSTANTS
  a = a
  b = b
  x64 = x64
  arm = arm
  Target <- MCTarget
  Name <- MCName
  Data <- MCData
  Offset <- MCOffset
  NameSize <- MCNameSize
  InputSet <- MCInputs
SPECIFICATION Spec
CHECK_DEADLOCK FALSE
INVARIANTS
  TypeOK
  UniqueNames
  MappingIsSound
  LocalsArePrivate
  TablesFit
PROPERTIES
  SymbolsAreStable
  ImplementsLink
  LinkableIsLinked
