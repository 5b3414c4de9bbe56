SPECIFICATION Spec
CONSTANTS
    IdempotencyKeys = {k1}
    NoKey = NoKey
    Handlers = {h1}
    ItemHandlers = {}
    Items = {i1}
    ExtraItems = {}
    AddedStatus = {}
    References = {r1}
    NoReference = NoReference
    Overlap = FALSE
    StatusRequests = {"cancelled"}
    PaymentRequests = {"completed"}
    FulfillmentReports <- MCReports
    Approvals <- MCOneApproval
    InitialPayments = {"none"}
    MaxRequests = 2
    MaxItemRequests = 0
    MaxFaults = 0
PROPERTY
    EveryReportFollowsTable
CHECK_DEADLOCK FALSE
