SPECIFICATION MCSpec
CONSTANTS
    OrderEvents = {e1, e2}
    PricingEvents = {p1}
    BatchSize = 1
    MaxAttempts = 2
    Refuses = TRUE
    MaxFaults = 1
INVARIANTS
    AttemptsBounded
    DuplicatesBounded
    ReadyMeansSent
PROPERTIES
    StoredIsSent
    OutboxDrains
