SPECIFICATION Spec
CONSTANTS
  InputSet <- MCInputSet
  TableSizes <- MCTableSizes
  TRANSFER_BUFFER_SIZE = 3
  MaxSize = 4
CHECK_DEADLOCK FALSE
INVARIANT SectionsAreCopied
