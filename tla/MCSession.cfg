CONSTANTS
  MAX_FILE_HANDLES = 6
  Client = {"file", "in_file"}
  Stream = {1, 2, 3, 4, 5, 6, 7, 8}
  NULL = 0
  MaxInputs = 2
  MaxCalls = 3
SPECIFICATION SessionSpec
CHECK_DEADLOCK FALSE
INVARIANTS
  LeftOpenAreShortOrFirst
  CallsGetTheirHandles
PROPERTY CallsEnd
