CONSTANTS
  r1 = r1
  r2 = r2
  c1 = c1
  n1 = n1
  n2 = n2
  AnyFile = AnyFile
  RqFiles = {r1}
  CodeFiles = {c1}
  Names = {n1, n2}
  Procs = {p1}
  Kinds = {"soft", "hard", "paths"}
  RqBodies <- MCOneName
  CodeBodies <- MCOneRef
  MaxMtime = 2
  MaxBuild = 2
  InterruptAt <- MCAnywhereSafe
  RacyWrites = TRUE
  MayFail = TRUE
  MayCancel = TRUE
SPECIFICATION Spec
INVARIANT RowsRooted
