SPECIFICATION Spec
CONSTANTS
  InputSet <- MCInputSet
  TableSizes <- MCTableSizes
  TRANSFER_BUFFER_SIZE = 3
  MaxSize = 4
CHECK_DEADLOCK FALSE
INVARIANTS
  PlacesAreDisjoint
  PlacesAreAligned
  SmallSectionsAreCopied
  RelocationsAreStored
  WithinTotalSize
PROPERTY Ends
