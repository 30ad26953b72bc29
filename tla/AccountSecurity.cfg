SPECIFICATION Spec
CONSTANTS
    Users = {alice}
    Cookies = {c1, c2}
    Links = {l1, l2}
    Requests = {r1, r2}
    MaxPasswords = 3
    MaxCrashes = 1
    LoginLimit = 1
    None = None
SYMMETRY Symmetry
INVARIANTS ATypeOK OneLiveLink TemporaryIsFlagged AttemptsBounded
PROPERTIES LinksKeepTheirPromise ChangeLocksOut
