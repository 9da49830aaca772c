SPECIFICATION Spec
CONSTANTS
    Contents <- Stored
    Requests <- Requested
    Types <- SharedTypes
INVARIANTS
    AnswerIsJoin
    DeclinesExactlyUnservable
