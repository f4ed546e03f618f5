SPECIFICATION LiveSpec
CONSTANTS
  s1 = s1
  s2 = s2
  p1 = p1
  p2 = p2
  UploadIds = {s1, p1}
  SampleUploads = {s1}
  SampleSets <- OneSampleEach
  EarlyUploads <- OneEach
  Workers = {w1}
  NoWorker = none
  Erasers = {w1, purger}
  Purger = purger
  Client = client
  Unlocked = none
  JobIds <- AllJobs
  LockOf <- ProfileOrPocket
  Privacy <- Deletions
  MaxVersion = 2
  MaxRecognitions = 1
  MaxAttempts = 2
  MaxFaults = 2
  Stalls = FALSE
CHECK_DEADLOCK FALSE
PROPERTIES
  DeletionsEnd
