SPECIFICATION Spec
CONSTANTS
    Calls = {c1, c2}
    Keys = {k1, k2}
    Requests = {r1}
    Overlaps <- AllOverlap
    NewStatuses = {"accepted", "pending"}
    MaxEpoch = 0
    None = None
    Import = Import
INVARIANTS ConvergenceConfirmsClaim
CHECK_DEADLOCK FALSE
