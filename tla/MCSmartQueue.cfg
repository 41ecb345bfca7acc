SPECIFICATION Spec
CONSTANTS
    couple = couple
    single = single
    Parties <- MCParties
    Quantity <- MCQuantity
    MaxReadyParties = 1
    MaxReadyGuests = 2
    MaxActiveParties = 2
    Grace = 2
    CallFrom = 0
    Start = 1
    Close = 4
    DayEnd = 5
    Slack = 1
    MaxTime = 5
    MaxPause = 1
INVARIANTS
    TypeOK
    GateWithinCapacity
    CheckInsStick
PROPERTIES
    NoShowHadItsTime
    EveryEntryCloses
CHECK_DEADLOCK FALSE
