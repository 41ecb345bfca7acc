CONSTANTS
    Day <- MCDay
    Slots <- MCSlots
    Layers <- MCLayers
    Reservations <- MCReservations
    LayersOf <- MCLayersOf
    Units <- MCUnits
    Schedules <- MCSchedules
    None = None
SPECIFICATION Spec
INVARIANT TypeOK
INVARIANT Conservation
INVARIANT NoDrift
PROPERTY StockSpec
PROPERTY AdmissionWithinSchedule
PROPERTY OversellOnlyByOvertaking
