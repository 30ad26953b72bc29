SPECIFICATION KSpec
CONSTANTS
    ana = ana
    root = root
    A = A
    B = B
    s = s
    f = f
    g = g
    q1 = q1
    r1 = r1
    r2 = r2
    None = None
    Users = {ana, root}
    Admins = {root}
    Lines = {A, B}
    MaxVersion = 2
    Ids = {q1}
    Fers = {s, f, g}
    Seeds = {s}
    Shipped <- MCShipped
    Documents <- MCDocuments
    Requests = {r1, r2}
    MaxRequests = 3
    MaxEvents = 2
    MaxInline = 300
    MaxSections = 50
    MaxQuestions = 300
    MaxSuggested = 16
INVARIANTS SuggestedExists PublishedIsFrozen DraftStaysSavable
CHECK_DEADLOCK FALSE
