CONSTANTS
  r1 = r1
  r2 = r2
  c1 = c1
  n1 = n1
  AnyFile = AnyFile
  RqFiles = {r1}
  CodeFiles = {c1}
  Names = {n1}
  RqBodies <- MCNames
  CodeBodies <- MCRefs
  Deletable = {}
  MaxMtime = 3
  MaxGen = 1
  MaxBatch = 2
  Commands = {"ensure", "idle"}
  MayFail = FALSE
SPECIFICATION Spec
INVARIANTS NoStaleRow
CHECK_DEADLOCK FALSE
