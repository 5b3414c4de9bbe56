SPECIFICATION Spec
CONSTANTS
    IdempotencyKeys = {k1}
    NoKey = NoKey
    Handlers = {h1}
    ItemHandlers = {}
    Items = {i1}
    ExtraItems = {}
    AddedStatus = {}
    References = {r1}
    NoReference = NoReference
    Overlap = FALSE
    StatusRequests = {}
    PaymentRequests = {"completed", "failed"}
    FulfillmentReports = {}
    Approvals <- MCOneApproval
    InitialPayments = {"none"}
    MaxRequests = 2
    MaxItemRequests = 0
    MaxFaults = 0
INVARIANT
    StageChangesAnnounced
CHECK_DEADLOCK FALSE
