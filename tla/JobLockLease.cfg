CONSTANTS
    Ticks <- MCTicks
    ProcessOf <- MCProcessOf
    Owner <- FreshOwner
    FlagFirst = TRUE
    TTL = 2
    Horizon = 5
    NoOne = NoOne
SPECIFICATION Spec
INVARIANT TypeOK
INVARIANT OneSweeper
INVARIANT OneTickPerProcess
CHECK_DEADLOCK FALSE
