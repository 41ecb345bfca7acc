SPECIFICATION Spec
CONSTANTS
    difference = difference
    replacement = replacement
    worker = worker
    staff = staff
    mailer = mailer
    None = None
    Requests <- MCRequests
    Queued <- MCQueued
    Waits <- MCWaits
    Amount <- MCAmount
    Captured = 2
    MaxTx = 2
    Workers <- MCWorkers
    Staff <- MCStaff
    Senders <- MCSenders
    MaxCrash = 1
INVARIANTS
    TypeOK
    FailedIsUnpaid
    OnlyStaffStrandsRequests
    PaidBackWithinCaptured
PROPERTIES
    UnpaidApprovalsAreEchoes
    RefundContractHolds
    ClaimIsReleased
    ApprovedIsTold
CHECK_DEADLOCK FALSE
