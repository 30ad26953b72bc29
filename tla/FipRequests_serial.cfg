SPECIFICATION RSpec
CONSTANTS
    ann = ann
    bob = bob
    A = A
    x = x
    y = y
    legacy = legacy
    None = None
    Users <- MCUsers
    Admins <- MCAdmins
    Authors = {}
    Unverified = {}
    Models = {A}
    Versions <- MCVersions
    SessionIds = {s1}
    FipIds = {f1, f2}
    RefLists <- MCRefLists
    AnonymousFips = TRUE
    InitialKms <- MCKms
    InitialFips <- MCInitialFips
    Requests = {r1}
    Answers = {x, y, legacy}
    Stored = {legacy}
    FirstBodies <- MCSerialBodies
    PatchBodies <- MCPatchBodies
    Overlap = FALSE
    MaxClock = 3
SYMMETRY MCSerialSymmetry
INVARIANTS
    ProjectionExact
PROPERTIES
    SerialRequestsRefineLifecycle
