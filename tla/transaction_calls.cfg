\* Managed transactions: nesting, retries, every error; callbacks let errors through.
SPECIFICATION FairCallSpec
CONSTANTS
  Queries = {q1, q2}
  DeadlockUndoes = TRUE
  MaxLevel = 4
  MaxSavepoints = 6
  Attempts = {1, 2}
  MaxCalls = 3
  CallbackMayCatch = FALSE
INVARIANTS
  OneAttemptDurable
  ThrewIsUndone
  ReturnedIsDurable
  NothingLeftOpen
  AnnouncedIsDurable
PROPERTIES
  CallsSettle
