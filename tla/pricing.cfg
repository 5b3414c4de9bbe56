SPECIFICATION MCSpec
CONSTANTS
    Products = {p1, p2}
    Suggestions = {s1, s2}
    Generators = {g1}
    Reviewers = {r1, r2}
    Answers <- MCAnswers
    CurrentPrices <- MCCurrentPrices
    Cent = 10
    MaxFaults = 2
    Runs = {run1, run2}
    Environments <- MCEnvironments
    MaxRotations = 2
    Contexts <- MCContexts
    Texts <- MCTexts
    MetadataValues <- MCMetadata
    AuditRecords <- MCAuditRecords
    MaxDepth = 2
    MaxKeys = 2
    MaxItems = 2
    MaxText = 3
    MaxAuditText = 3
    CentralUrls = {TRUE, FALSE}
    PaidOrders <- MCPaidOrders
    StrayReservations <- MCStrayReservations
    MaxLapses = 2
    ReplayOrders <- MCReplayOrders
    ReplayRequests <- MCReplayRequests
    DefaultReplayLimit = 2
    LargestReplayLimit = 3
    MaxReplayOrders = 4
    MaxReplayMoves = 1
SYMMETRY MCServicesSymmetry
INVARIANTS
    ApprovedIsApplied
    OneOpenSuggestion
    VerdictHonest
    LogsAreClean
    HandoffSound
PROPERTIES
    DecisionsAreFinal
    ReplaySound
CHECK_DEADLOCK FALSE
