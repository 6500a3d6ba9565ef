CONSTANTS
    Names = {"a", "b"}
    Files <- MCFiles
    Roots <- MCRoots
    NoBase = NoBase
    Refreshes = {r1}
    NotRunning = NotRunning
    None = None
    Idle = Idle
    b1 = b1
    b2 = b2
    d1 = d1
    d2 = d2
    f1 = f1
    f2 = f2
    i1 = i1
    i2 = i2
    p1 = p1
    p2 = p2
    Open = {b1, b2}
    GoneBase = b3
    MaxSelects = 3
    MaxSwitchEvents = 2
    Docs = {d1, d2}
    Owner <- MCOwner
    MaxPushChanges = 2
    IdeaCount = 5
    FileOf <- MCFileOf
    BatchSize = 2
    MaxPerWave = 3
    Ahead = 1
    MaxFetch = 3
    MaxPumpEvents = 2
    Searches = {"p", "q"}
    Pages = 2
    MaxLoads = 2
    MaxSearchActs = 3
    Filters = {"t"}
    Centres = {"c"}
    MaxGraphActs = 2
    Paths = {f1, f2}
    Synced = {f1}
    Renames = {1, 2}
    MaxRenameChanges = 1
    Callers = {p1, p2}
    Keys = {k1, k2}
    Clickable = {i1, i2}
    FileTargets = {}
    Others = {}
    Asked = {i1}
    Lists <- MCLists
    Limit = 1
    Gone = Gone
    MaxSessions = 1
    MaxCalls <- MCCalls
    MaxUpsets = 1
SPECIFICATION EditorSpec
INVARIANTS PartTyped OwnersAgree SelectionKept PagesContiguous GateSeesRows WithinLimit BodyOnce
PROPERTIES SwitchEnds PinnedOpens LastRowsArrive Filled EditorFirst SearchEnds GraphSettles
CHECK_DEADLOCK FALSE
