CONSTANTS
    Notifications = {n1}
    Workers = {w1, w2}
    ActionKeys = {a1}
    MaxSafeDeliveryAttempts = 2
    BatchLimit = 1
    MaxCrashes = 1
SPECIFICATION Spec
SYMMETRY Symmetry
INVARIANTS TypeOK NoDuplicateSms RequeueIsSafe RowTellsTheTruth
PROPERTIES SettledStays
