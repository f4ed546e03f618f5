SPECIFICATION MCSpec
CONSTANTS
  Stores = {1}
  Templates = {1}
  Users = {1, 2}
  MaxEdits = 3
  Pictures = {c1, c2, c3}
  Sizes = {1, 2}
  DailyLimit = 2
  WindowLimit = 3
  Concurrent = 2
  MaxDay = 2
  WorkerIds = {0, 1}
  maxWorkerID = 1
  maxSequence = 1
  maxClockBackward = 1
  epochMillis = 1
  MaxClock = 3
  MaxIds = 4
SYMMETRY SamePictures
CHECK_DEADLOCK FALSE
INVARIANTS
  AllOrNothing
  QuotaOvershootBounded
  IdsUnique
PROPERTIES
  NoLostUpdate
