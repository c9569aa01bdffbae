CONSTANTS
    w1 = w1
    w2 = w2
    Workers = {w1, w2}
    Interval = 1
    HeartbeatEvery = 1
    Jitter = 0
    Lease = 3
    Skew <- FastSecond
    MaxTime = 6
    MaxRuns = 2
    MaxFaults = 1
    Notifications = {n1}
    ActionKeys = {}
    MaxSafeDeliveryAttempts = 2
    BatchLimit = 1
    MaxCrashes = 1
    Calls = {c1, c2}
    Keys = {k1, k2}
    Requests = {r1}
    Overlaps <- AllOverlap
    NewStatuses = {"accepted"}
    MaxEpoch = 1
    None = None
    Import = Import
SPECIFICATION MCSpec
INVARIANTS TypeOK LedgersAgree HealthyRunIsExclusive
PROPERTIES RunsAreFenced EveryRunEnds EventuallySettled EveryAttemptSettles
CHECK_DEADLOCK FALSE
