CONSTANTS
    Ticks <- MCTicks
    ProcessOf <- MCProcessOf
    Owner <- InstanceOwner
    FlagFirst = FALSE
    TTL = 2
    Horizon = 5
    NoOne = NoOne
SPECIFICATION Spec
INVARIANT OneInstance
CHECK_DEADLOCK FALSE
