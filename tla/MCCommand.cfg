CONSTANTS
  MaxFiles = 3
  Scenes <- MCScenes
  Spelling <- MCSpelling
  Cap = 15
  PerArg = 3
  ArgCap = 3
  TextCap = 8
SPECIFICATION CommandSpec
CHECK_DEADLOCK FALSE
INVARIANTS
  CallsWhatIsMeant
  EachInputItsArtifact
  ArgumentsArrive
