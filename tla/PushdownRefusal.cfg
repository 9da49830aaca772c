CONSTANTS
    Tables <- SmallTables
    Requests <- CountRequests
    MaxShards = 2
    Unit = 12
SPECIFICATION Spec
INVARIANT RefusalScopedToNamed
