SPECIFICATION FairSpec
CONSTANTS
    Calls = {c1, c2, c3}
    NoCall = NoCall
    Requests <- AllNames
    Body <- Bodies
    NoRequest = NoRequest
    NoOrder = NoOrder
    Uuids <- MCUuids
    Currencies <- MCCurrencies
    NoNumber = NoNumber
    NotANumber = NotANumber
    Enabled = TRUE
    MaxFaults = 1
INVARIANTS
    OneOrderPerKey
    CommittedIsReserved
    AnnouncedOnce
    FailedHoldsNothing
    AnswersAgree
    ConflictHasCause
PROPERTIES
    EveryCallEnds
    RegisterKept
CHECK_DEADLOCK FALSE
