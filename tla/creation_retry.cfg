SPECIFICATION Spec
CONSTANTS
    Calls = {c1, c2}
    NoCall = NoCall
    Requests <- OneName
    Body <- OneBody
    NoRequest = NoRequest
    NoOrder = NoOrder
    Uuids <- MCUuids
    Currencies <- MCCurrencies
    NoNumber = NoNumber
    NotANumber = NotANumber
    Enabled = TRUE
    MaxFaults = 0
INVARIANT
    RetryReplays
CHECK_DEADLOCK FALSE
