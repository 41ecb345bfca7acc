CONSTANTS
    Reservations <- MCReservations
    Layers <- MCLayers
    LayersOf <- MCLayersOf
    Units <- MCUnits
    Owner <- MCOwner
    Offer <- MCOffer
    Attempts <- MCAttempts
    BookingOf <- MCBookingOf
    WithVoucher <- MCWithVoucher
    Capacity <- MCCapacity
    MaxHolds = 2
    VoucherLimit = 1
    VoucherPerUser = 1
    HoldTime = 1
    PayWindow = 1
    ApprovalTime = 2
    ApprovedWindow = 1
    MinLead = 2
    Grace = 1
    Start = 3
    RefundBy = 2
    Horizon = 5
SPECIFICATION SharedSpec
INVARIANT HoldsLimited
INVARIANT VoucherLedger
INVARIANT WithinCapacity
PROPERTY StockSpec
