CONSTANTS
  r1 = r1
  r2 = r2
  c1 = c1
  n1 = n1
  AnyFile = AnyFile
  RqFiles = {r1, r2}
  CodeFiles = {c1}
  Names = {n1}
  RqBodies <- MCNames
  CodeBodies <- MCRefs
  Deletable = {c1}
  MaxMtime = 2
  MaxGen = 0
  MaxBatch = 2
  Commands = {"ensure", "rebuild", "cancel"}
  MayFail = FALSE
SPECIFICATION Spec
INVARIANTS CurrentIsTrue Rooted NoStaleRow LinksExactAtRest
CHECK_DEADLOCK FALSE
