SPECIFICATION FairWorkerSpec
CONSTANTS
  a = a
  c = c
  l = l
  w1 = w1
  w2 = w2
  p = p
  q = q
  None = None
  Queued <- MCQueued
  Live <- MCLive
  Skipped <- MCSkipped
  Photo <- MCPhoto
  Photos <- MCPhotos
  Workers <- MCWorkers
  Attempts = 2
  MaxFailures = 1
  MaxCrashes = 1
INVARIANTS PicturesExist DuplicatesExplained
PROPERTY Sent
CHECK_DEADLOCK FALSE
