SPECIFICATION ESpec
CONSTANTS
    fip1 = fip1
    fip2 = fip2
    None = None
    Fips <- MCFips
    First <- MCFirst
    Edits = {e1, e2}
    MaxOutages = 0
    MaxSides = 0
    MaxNavigations = 0
INVARIANTS
    NoEditLost
