SPECIFICATION MSpec
CONSTANTS
    Questions = {"F2", "F2m", "F2d", "A2"}
    Halves <- MCHalves
    FerTypes = {"id", "repo"}
    Texts = {"s", "t", "old"}
    Blank = Blank
    None = None
    Versions = {1, 2, 3}
    Models <- MCModels
    Lists <- MCLists
    Normals <- MCNormals
    Offers <- MCOffers
    Requests = {r1, r2}
    MaxRequests = 3
INVARIANT DefaultsAreValid
CHECK_DEADLOCK FALSE
