CONSTANTS
    Order <- MCOrder
    Names <- MCNames
    Flatten <- MCFlatten
    Filters <- MCFilters
    Exposed <- MCExposed
    Factors <- MCFactors
    EntryLen <- MCEntryLen
    BaseLen = 1
    OmittedLen = 2
    MaxLen = 5
    MaxChanges = 2
    MaxOmitted = 3
SPECIFICATION Spec
INVARIANTS
    HiddenStaysHidden
    SkipsAccounted
PROPERTIES
    RefreshIsExact
    LongestPrefixKept
