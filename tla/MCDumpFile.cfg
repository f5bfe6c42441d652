CONSTANTS
  Files <- MCFiles
  Meanings <- MCMeanings
SPECIFICATION DumpFileSpec
CHECK_DEADLOCK FALSE
INVARIANTS
  ParsedIsTheFile
  DumpShowsTheFile
