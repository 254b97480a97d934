SPECIFICATION Spec
CONSTANTS
  Batches <- MCBatches
  Durations <- MCDurations
  Retries = 2
  RateLimitWaits = 3
  Timeout = 1
  MaxWait = 1
  PostTimeout = 4
  WaitSeconds = 2
  Threshold = 30
CHECK_DEADLOCK FALSE
INVARIANT TypeOK
INVARIANT StepsAreBounded
INVARIANT FailureNeverQualifies
PROPERTY BatchEnds
