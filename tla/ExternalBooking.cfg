SPECIFICATION Spec
CONSTANTS
    Calls = {c1, c2}
    Keys = {k1, k2}
    Requests = {r1, r2}
    Overlaps <- AllOverlap
    NewStatuses = {"accepted", "pending", "declined"}
    MaxEpoch = 1
    None = None
    Import = Import
SYMMETRY Symmetry
INVARIANTS TypeOK NoDoubleBooking SafeRetryMeansNoBooking AttemptsAreSingle AttemptsAreAccountedFor
PROPERTIES CalendarMovesForward
CHECK_DEADLOCK FALSE
