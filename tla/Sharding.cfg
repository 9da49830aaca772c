SPECIFICATION SplitSpec
CONSTANTS
  MaxFiles = 5
  MaxSize = 3
  MaxNodes = 2
  MaxFactor = 2
  MAX_GROUP_COUNT = 3
INVARIANTS
  SplitTypeOK
  EachFileOnce
  NoShardEmpty
  NoSingleMoveHelps
