SPECIFICATION Spec
CONSTANTS
    trip = trip
    e1 = e1
    e2 = e2
    e3 = e3
    h1 = h1
    h2 = h2
    maker = maker
    checker = checker
    None = None
    Bookings <- MCBookings
    Manual <- MCManual
    Events <- MCEvents
    EventBooking <- MCEventBooking
    Exact <- MCExact
    Handlers <- MCHandlers
    Admins <- MCAdmins
    Total = 2
    CustomerAmount = 1
    Difference = 1
    MaxCrash = 1
SYMMETRY MCSymmetry
INVARIANTS
    TypeOK
    OwedIsRequested
    PaidBackWithinPayment
    AcknowledgedIsRecorded
PROPERTIES
    TransferContract
CHECK_DEADLOCK FALSE
