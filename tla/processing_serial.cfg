SPECIFICATION FairSpec
CONSTANTS
    IdempotencyKeys = {k1}
    NoKey = NoKey
    Handlers = {h1}
    ItemHandlers = {}
    Items = {i1}
    ExtraItems = {}
    AddedStatus = {}
    References = {r1, r2}
    NoReference = NoReference
    Overlap = FALSE
    StatusRequests <- MCStatusRequests
    PaymentRequests <- MCPaymentRequests
    FulfillmentReports <- MCReports
    Approvals <- MCApprovals
    InitialPayments = {"none", "paid"}
    MaxRequests = 4
    MaxItemRequests = 0
    MaxFaults = 1
INVARIANTS
    TypeOK
    StockConsumedOnlyIfPaid
    CancelledHoldsNoStock
PROPERTIES
    PaidIsFinal
    CancelledNeverPaid
    StatusFollowsTable
    BoundaryKept
    HandlersSettle
CHECK_DEADLOCK FALSE
