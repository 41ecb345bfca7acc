SPECIFICATION Spec
CONSTANTS
    difference = difference
    replacement = replacement
    worker = worker
    staff = staff
    mailer = mailer
    None = None
    Requests <- MCRequests
    Queued <- MCQueued
    Waits <- MCWaits
    Amount <- MCAmount
    Captured = 2
    MaxTx = 2
    Workers <- MCWorkers
    Staff <- NoStaff
    Senders <- MCSenders
    MaxCrash = 0
INVARIANT
    ApprovedIsPaid
CHECK_DEADLOCK FALSE
