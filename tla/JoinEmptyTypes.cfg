SPECIFICATION Spec
CONSTANTS
    Contents <- PairContents
    Requests <- TwoTypeRequests
    Types <- OwnTypes
INVARIANTS
    EmptyTypesAsDeclared
