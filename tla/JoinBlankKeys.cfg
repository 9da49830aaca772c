SPECIFICATION Spec
CONSTANTS
    Contents <- BlankKeyContents
    Requests <- BlankKeyRequests
    Types <- SharedTypes
INVARIANTS
    AnswerIsJoin
