CONSTANTS
    Acts = {1, 2}
    Starts = {1, 2}
    Length = 2
    ActKeys = {1, 2}
    RivalCells = {3}
    MaxVersion = 3
    AtomicRescheduleNoOverlap = TRUE
SPECIFICATION MCSpec
INVARIANTS ActionsTypeOK ProviderSlotIsHeld RetriesAreSafe
PROPERTIES RowFollowsProvider
CHECK_DEADLOCK FALSE
