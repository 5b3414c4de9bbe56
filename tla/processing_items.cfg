SPECIFICATION MCSpec
CONSTANTS
    IdempotencyKeys = {k1}
    NoKey = NoKey
    Handlers = {h1, h2}
    ItemHandlers = {w1, w2}
    Items = {i1}
    ExtraItems = {i2}
    AddedStatus = {"pending"}
    References = {r1}
    NoReference = NoReference
    Overlap = TRUE
    StatusRequests = {"processing", "shipped", "delivered", "cancelled"}
    PaymentRequests = {}
    FulfillmentReports = {}
    Approvals <- MCOneApproval
    InitialPayments = {"none"}
    MaxRequests = 3
    MaxItemRequests = 4
    MaxFaults = 0
    ShipmentIds = {s1}
    ShipmentHandlers = {w1, w2}
    CreateBodies <- MCCreateBodies
    TrackingNumbers = {"n1", "n2"}
    ShipmentWords = {"in_transit", "delivered", "returned"}
    MaxShipmentRequests = 4
SYMMETRY MCSymmetry
INVARIANTS
    ShippedMeansItemsShipped
PROPERTIES
    ItemsMoveForward
    EvidenceKept
CHECK_DEADLOCK FALSE
