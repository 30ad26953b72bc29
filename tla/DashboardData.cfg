SPECIFICATION DSpec
CONSTANTS
    q1 = q1
    q2 = q2
    q3 = q3
    X = X
    Y = Y
    t = t
    u = u
    V1 = V1
    V2 = V2
    None = None
    PrincipleOf <- MCPrincipleOf
    LetterOf <- MCLetterOf
    KnownPrinciples = {"F1", "A1.1"}
    Normal <- MCNormal
    K = 4
    BandRows = 2
    Hash <- MCHash
    Unit = 5184
    SkipPercent = 50
    MinKeys = 2
    PostingBudget = 4
    PostingCap = 2
    CandidateCap = 2
    NeighbourLimit = 3
    ExactPairsMax = 3
    PairCap = 5
    BucketMax = 2
    MinSim = 2592
    FipIds = {1, 2, 4}
    NetworkIds = {3}
    Contents <- MCContents
    Documents <- MCDocuments
    Payloads <- MCPayloads
    Initial <- MCInitial
    NetworkRef = V2
    FallbackMax = 3
    Populations <- MCPopulations
    MaxEvents = 3
INVARIANTS ViewsCountTheAnswers CleanMeansRight DfCountsRows NeighboursComplete ScoreIsAMeasure ClustersAreComponents
CHECK_DEADLOCK FALSE
