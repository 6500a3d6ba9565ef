CONSTANTS
  r1 = r1
  r2 = r2
  c1 = c1
  n1 = n1
  AnyFile = AnyFile
  RqFiles = {r1}
  CodeFiles = {c1}
  Names = {n1}
  RqBodies <- MCName
  CodeBodies <- MCRefs
  Deletable = {r1}
  MaxMtime = 2
  MaxGen = 1
  MaxBatch = 2
  Commands = {"ensure", "rebuild", "idle", "late"}
  MayFail = TRUE
SPECIFICATION FairSpec
INVARIANTS TypeOK OneOwner CatalogOfPass
PROPERTIES SyncingEnds QueueDrains
CHECK_DEADLOCK FALSE
