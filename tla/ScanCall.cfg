SPECIFICATION Spec
CONSTANTS
    Calls <- Made
    MaxFaults = 1
    MaxGap = 1
    MaxRequest = 6
CHECK_DEADLOCK FALSE
INVARIANTS
    TypeOK
    ExactlyLiveRows
    ValuesAsWritten
    MemoryAccounted
    OwnCredential
    UnappliedNeverServed
PROPERTIES
    ServableIsServed
    CallEnds
