SPECIFICATION MCSpec
CONSTANTS
  Payers = {1, 2}
  Amounts = {100}
  TicksPerMs = 1
  MaxWrites = 3
  MaxInFlight = 1
  Workers = {w1, w2}
  Callers = {w1, w2}
  NoWorker = none
  Nobody = none
  JobIds = {0, 1, 2, 3, 4, 5}
  LockOf <- PocketLock
  Privacy = {}
  MaxRevision = 5
  MaxAttempts = 2
  MaxFaults = 1
  Stalls = TRUE
  Owner = 0
  Recipients = {}
  MaxReminders = 0
  MaxSendAttempts = 2
  MaxClaims = 0
  MaxSends = 0
  SendStalls = FALSE
  MaxRefreshes = 1
SYMMETRY Symmetry
CHECK_DEADLOCK FALSE
INVARIANTS
  SettledMeansPaid
  CollectingIsPayable
  CancelledMeansClosed
  CollectionComplete
  NeverStranded
PROPERTIES
  ImplementsPocketLifecycle
