CONSTANTS
  r1 = r1
  r2 = r2
  c1 = c1
  n1 = n1
  n2 = n2
  AnyFile = AnyFile
  RqFiles = {r1, r2}
  CodeFiles = {c1}
  Names = {n1, n2}
  Procs = {p1}
  Kinds = {"soft", "hard"}
  RqBodies <- MCOneName
  CodeBodies <- MCRefs
  MaxMtime = 2
  MaxBuild = 1
  InterruptAt <- MCNowhere
  RacyWrites = FALSE
  MayFail = FALSE
  MayCancel = FALSE
SPECIFICATION FairSpec
INVARIANTS TypeOK LinksExact CatalogMirrorsStore
PROPERTIES Converges PassEnds
