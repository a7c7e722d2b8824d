SPECIFICATION FairImageSpec
CONSTANTS
  u1 = u1
  u2 = u2
  w1 = w1
  w2 = w2
  Uploads <- MCUploads
  Records = {r1}
  Existing = {}
  Requests = {c1,c2}
  Workers <- MCWorkers
  Deployments <- MCDeployments
  NoRecord = NoRecord
  Nobody = Nobody
  SignatureWindow = 1
  IntentWindow = 1
  AttachmentWindow = 2
  Settlement = 1
  Lease = 1
  Backoff = 1
  BatchSize = 2
  ObjectLimit = 2
  BudgetWindow = 1
  IssueUntil = 0
  Horizon = 4
  TroubledUntil = 2
INVARIANTS
  ImageTypeOK
  ShownImageIsStored
  CollectedForGood
PROPERTIES
  ImplementsImageStore
  EveryUploadSettles
CHECK_DEADLOCK FALSE
