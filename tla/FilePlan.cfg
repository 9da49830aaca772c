SPECIFICATION Spec
CONSTANTS
    Largest = 6
    MaxDepth = 2
    MaxCommits = 2
    Sources <- MCSources
    Changes <- MCChanges
    Filters <- MCFilters
INVARIANTS
    AnswerIsSnapshot
    EachFilePlannedOnce
    RequiredNeverNull
    RefusalIgnoresFilter
    FreshDeclarationServed
