CONSTANTS
  Size = 4
  Byte <- MCByte
  Texts <- MCTexts
  Bases <- MCBases
  ValueOf <- MCValueOf
  Limit = 32
  Cases <- MCCases
  BufferRoom = 15
  IntLimit = 16
  PointerLimit = 256
SPECIFICATION LibrarySpec
CHECK_DEADLOCK FALSE
INVARIANT CallsAnswer
PROPERTY EveryCallReturns
