SPECIFICATION SSpec
CONSTANTS
    fac = fac
    room = room
    q = q
    p = p
    f1 = f1
    Users = {fac}
    Admins = {}
    SessionIds = {room}
    Owner <- MCOwner
    Refs = {q, p}
    FipIds = {f1}
    NetworkIds = {n1, n2}
    InitialRows <- MCInitialRows
    InitialNetwork = {n2}
    MinPopulation = 5
    None = None
    FipRows <- MCFipRows
    Specs <- MCSpecs
    SpecOf <- MCSpecOf
    SavedBy <- MCSavedBy
    Views = {"coverage", "clusters"}
    PairViews = {"clusters"}
    LiveMax = 0
    SyncMax = 1
    FallbackMax = 1
    Jobs = {j1, j2}
    RefreshLists <- MCRefreshLists
    MaxClock = 1
    MaxEvents = 1
    MaxStarted = 2
INVARIANTS ServedIsCurrent NobodyHidden DeletedIsForgotten
PROPERTY RefreshSettles
CHECK_DEADLOCK FALSE
