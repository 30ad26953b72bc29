SPECIFICATION ESpec
CONSTANTS
    fip1 = fip1
    fip2 = fip2
    None = None
    Fips <- MCFips
    First <- MCFirst
    Edits = {e1, e2}
    MaxOutages = 1
    MaxSides = 1
    MaxNavigations = 1
INVARIANTS
    AtMostOneSave
    NoForeignEdits
    SavedIsOnServer
PROPERTIES
    UnsavedIsSettled
CHECK_DEADLOCK FALSE
