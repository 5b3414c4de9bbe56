SPECIFICATION Spec
CONSTANTS
    IdempotencyKeys = {k1}
    NoKey = NoKey
    Handlers = {h1, h2}
    ItemHandlers = {}
    Items = {i1}
    ExtraItems = {}
    AddedStatus = {}
    References = {r1}
    NoReference = NoReference
    Overlap = TRUE
    StatusRequests = {}
    PaymentRequests = {"completed"}
    FulfillmentReports = {}
    Approvals <- MCOneApproval
    InitialPayments = {"none"}
    MaxRequests = 2
    MaxItemRequests = 0
    MaxFaults = 0
INVARIANT
    PaidAnnouncedOnce
CHECK_DEADLOCK FALSE
