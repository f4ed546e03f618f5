SPECIFICATION WPSpec
CONSTANTS
  Payers = {1, 2}
  Amounts = {100}
  TicksPerMs = 1
  MaxWrites = 2
  MaxInFlight = 1
  Workers = {w1}
  Callers = {w1}
  NoWorker = none
  Nobody = none
  JobIds = {0, 1, 2, 3, 4, 5}
  LockOf <- PocketLock
  Privacy = {}
  MaxRevision = 5
  MaxAttempts = 2
  MaxFaults = 0
  Stalls = FALSE
  Owner = 0
  Recipients = {1}
  MaxReminders = 0
  MaxSendAttempts = 2
  MaxClaims = 3
  MaxSends = 1
  SendStalls = FALSE
  MaxRefreshes = 0
CHECK_DEADLOCK FALSE
INVARIANTS
  UntouchedBillStaysNotified
