SPECIFICATION HttpFairSpec
CONSTANTS
  Attempts = 5
  ReadTimeout = 80
  RetryWindow = 240
  BackoffBase = 2
  Durations <- PolicyDurations
  RetryAfters <- PolicyRetryAfters
  MaxOversleep = 1
  MaxParts = 1
INVARIANTS
  HttpTypeOK
  RetriesDueInWindow
  ReturnedIsFinal
PROPERTIES
  EveryRequestReturns
