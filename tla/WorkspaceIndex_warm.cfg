CONSTANTS
  r1 = r1
  r2 = r2
  c1 = c1
  n1 = n1
  AnyFile = AnyFile
  RqFiles = {r1}
  CodeFiles = {c1}
  Names = {n1}
  RqBodies <- MCNames
  CodeBodies <- MCRefs
  Deletable = {}
  MaxMtime = 2
  MaxGen = 0
  MaxBatch = 1
  Commands = {"ensure"}
  MayFail = FALSE
SPECIFICATION Spec
INVARIANTS Warm
CHECK_DEADLOCK FALSE
