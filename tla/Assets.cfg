SPECIFICATION MCSpec
CONSTANTS
  s1 = s1
  s2 = s2
  p1 = p1
  p2 = p2
  UploadIds = {s1, s2, p1, p2}
  SampleUploads = {s1, s2}
  SampleSets <- OneSampleEach
  EarlyUploads <- StoredBefore
  Workers = {w1}
  NoWorker = none
  Erasers = {w1, purger}
  Purger = purger
  Client = client
  Unlocked = none
  JobIds <- AllJobs
  LockOf <- ProfileOrPocket
  Privacy <- Deletions
  MaxVersion = 3
  MaxRecognitions = 2
  MaxAttempts = 2
  MaxFaults = 1
  Stalls = FALSE
SYMMETRY Symmetry
CHECK_DEADLOCK FALSE
INVARIANTS
  DeletedIsGone
  RevokedMeansErased
  ActivePersonExists
  FacesAccounted
  DeletedPhotoGone
PROPERTIES
  RevocationHolds
  RenewedConsentSurvives
  LateRecognitionIgnored
