CONSTANTS
    Reservations <- MCReservations
    Layers <- MCLayers
    LayersOf <- MCLayersOf
    Units <- MCUnits
    Owner <- MCOwner
    Offer <- MCOffer
    Attempts <- MCAttempts
    BookingOf <- MCBookingOf
    WithVoucher <- MCWithVoucher
    Capacity <- MCCapacity
    MaxHolds = 1
    VoucherLimit = 1
    VoucherPerUser = 1
    HoldTime = 2
    PayWindow = 2
    ApprovalTime = 2
    ApprovedWindow = 2
    MinLead = 1
    Grace = 1
    Start = 4
    RefundBy = 2
    Horizon = 6
SPECIFICATION Spec
INVARIANT TypeOK
INVARIANT BookingBacked
INVARIANT RefundedOnce
PROPERTY SweepOnlyExpired
PROPERTY PaidInTimeIsServed
PROPERTY KeepsContract
