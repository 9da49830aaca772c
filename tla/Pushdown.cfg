CONSTANTS
    Tables <- SmallTables
    Requests <- AllRequests
    MaxShards = 2
    Unit = 12
SPECIFICATION Spec
INVARIANTS
    AnswerIsTheQuery
    PositionalShape
    DeclinesExactlyUnanswerable
