SPECIFICATION Spec
CONSTANTS
    IdempotencyKeys = {k1}
    NoKey = NoKey
    Handlers = {h1, h2}
    ItemHandlers = {}
    Items = {i1, i2}
    ExtraItems = {}
    AddedStatus = {}
    References = {r1}
    NoReference = NoReference
    Overlap = TRUE
    StatusRequests = {"processing", "cancelled"}
    PaymentRequests = {"completed", "failed"}
    FulfillmentReports = {"collecting"}
    Approvals <- MCOneApproval
    InitialPayments = {"none"}
    MaxRequests = 3
    MaxItemRequests = 0
    MaxFaults = 1
SYMMETRY HandlerSymmetry
INVARIANTS
    AnnouncedAfterWarehouse
    DispatchedOnlyIfConsumed
    HandoffTruthful
CHECK_DEADLOCK FALSE
