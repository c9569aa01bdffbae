CONSTANTS
    NStaff = 2
    Services = {"gel"}
    Pools = {chair}
    Appts = {1, 2}
    Quotes = {1, 2}
    Keys = {1, 2, 3}
    None = None
    Duration <- MCDuration
    Day = 2
    QuoteTTL = 1
    Requests <- MCRequests
    ConfigInputs <- MCConfigInputs
    HoursInputs <- MCHoursInputs
    ProfileInputs <- MCProfileInputs
    PolicyInputs <- MCPolicyInputs
    ResourceInputs <- MCResourceInputs
    ExceptionInputs <- MCExceptionInputs
    InitialConfig <- MCInitialConfig
    ExtBusy <- MCExtBusy
    Elsewhere = {"owner_manual"}
    MaxConfig = 2
    MaxAuthority = 2
    MaxNow = 1
    Ops = {o1}
    Runs = {1, 2}
    Callers = {c1, c2}
    NoCall = NoCall
    MaxSwitches = 3
    MaxEdits = 1
SPECIFICATION MCSpec
SYMMETRY MCSymmetry
INVARIANTS SchedulingTypeOK NoStaffOverlap BooksAgree
PROPERTIES SwitchIsFenced ImplementsLedger
CHECK_DEADLOCK FALSE
