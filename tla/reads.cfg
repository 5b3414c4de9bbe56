SPECIFICATION MCSpec
CONSTANTS
    IdempotencyKeys = {}
    NoKey = NoKey
    Callers <- MCCallers
    Channels = {"flipflop", "allegro"}
    Subjects = {"anna", "boris"}
    NoSubject = NoSubject
    Lines = {"l1", "l2"}
    ProductLines = {"l1"}
    Orders <- MCOrders
    Statuses = {"confirmed", "shipped", "delivered"}
    Stages = {"ordered_unpaid", "not_received"}
    Limits = {1, 2}
    SampleLimit = 2
    MaxOrders = 4
    MaxMoves = 1
    Money <- MCMoney
    AdminActors <- MCActors
    AdminKeys <- MCKeys
    AdminFilters <- MCFilters
    LimitTexts = {NoLimit, 0, 1, 3}
    NoLimit = NoLimit
    DefaultLimit = 2
    LargestLimit = 2
    ActionStatuses = {"processing", "cancelled"}
    MaxBook = 3
    MaxParcels = 1
    MaxDeskMoves = 1
    ParcelIds = {"p1", "p2"}
    ParcelBodies <- MCParcelBodies
    MaxClock = 7
    Tokens = {t1, t2}
    Readers = {t1, t2}
    Actors = {t1}
    ConsoleOrders = {o1, o2}
    NoToken = NoToken
    NoOrder = NoOrder
    MaxSignIns = 2
    MaxCalls = 2
INVARIANTS
    OnlyOwnOrders
    ReportsAgree
    
    ScreenIsOwn
PROPERTIES
    PageIsNewestMatching
    SessionIsOwn
