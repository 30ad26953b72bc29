SPECIFICATION RSpec
CONSTANTS
    ann = ann
    bob = bob
    A = A
    x = x
    y = y
    legacy = legacy
    None = None
    Users <- MCUsers
    Admins = {}
    Authors = {}
    Unverified = {}
    Models = {A}
    Versions <- MCVersions
    SessionIds = {s1}
    FipIds = {f1}
    RefLists <- MCRefLists
    AnonymousFips = TRUE
    InitialKms <- MCKms
    InitialFips <- MCInitialFips
    Requests = {r1, r2}
    Answers = {x, y, legacy}
    Stored = {legacy}
    FirstBodies <- MCFirstBodies
    PatchBodies <- MCPatchBodies
    Overlap = TRUE
    MaxClock = 3
SYMMETRY MCSymmetry
INVARIANTS
    FipRowsResolve
PROPERTIES
    OnlyAnswersWriteAnswers
    ClaimNotUndone
