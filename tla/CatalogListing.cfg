SPECIFICATION FairSpec
CONSTANTS
  Kinds = {"rest", "rest_sigv4", "unity", "glue"}
  Root = "root"
  Spaces <- MCSpaces
  ChildrenIn <- MCChildrenIn
  TablesIn <- MCTablesIn
  Exposed <- MCExposed
  Stored <- MCStored
  PageSize = 1
  CATALOG_REQUEST_CONCURRENCY = 2
  MaxChanges = 2
INVARIANTS
  SteadyListedOnce
  ListingsAgree
  OnlyExposedCount
PROPERTIES
  CallReturns
