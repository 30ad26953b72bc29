SPECIFICATION Spec
CONSTANTS
    adm = adm
    ann = ann
    bob = bob
    A = A
    B = B
    None = None
    Users <- MCUsers
    Admins <- MCAdmins
    Authors <- MCUsers
    Unverified <- MCUnverified
    Models = {A}
    Versions <- MCVersions
    SessionIds = {s1}
    FipIds = {f1}
    RefLists <- MCOneRef
    AnonymousFips = TRUE
    InitialKms <- MCOneModel
    InitialFips <- MCInitialFips
INVARIANTS
    TypeOK
    FipRowsResolve
    SessionPrimaryResolves
    OwnedFipHasNoToken
    PrivateFipHasAReader
    SingleRefSessionPinned
PROPERTIES
    OwnershipNeverTransferred
    ClosedSessionFrozen
