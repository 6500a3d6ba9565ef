CONSTANTS
  r1 = r1
  r2 = r2
  c1 = c1
  n1 = n1
  n2 = n2
  AnyFile = AnyFile
  RqFiles = {r1}
  CodeFiles = {c1}
  Names = {n1, n2}
  Procs = {p1, p2}
  Kinds = {"soft"}
  RqBodies <- MCTwoNames
  CodeBodies <- MCAnyRef
  MaxMtime = 2
  MaxBuild = 1
  InterruptAt <- MCNowhere
  RacyWrites = FALSE
  MayFail = FALSE
  MayCancel = FALSE
SPECIFICATION Spec
INVARIANTS MtimeHonest NoPhantomLink
