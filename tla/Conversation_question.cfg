CONSTANTS
    MenuServices = {"a", "b"}
    OpenSlots = {1, 2}
    CallerNames = {"n"}
    Mentions <- MCMentions
    Policies <- MCPolicies
    MaxTalkTurns = 4
    MaxPolicyChanges = 0
    HistoryLimit = 1
    Visits = {"a", "b"}
    InternalVisits = {"a"}
    VisitTimes = {1, 2}
    LifePolicies <- MCLifePolicies
    MaxLifeTurns = 0
    MaxVisitEdits = 1
    MaxLifePolicies = 1
    Offerings = {"a", "b"}
    Outcomes = {"x", "y"}
    Approved <- MCApproved
    FirstProfiles <- MCFirstProfiles
    MaxNoProgress = 2
    MaxGuideTurns = 0
    MaxGuideEdits = 1
    TurnIds = {c1, c2}
    Collections = {"services", "staff"}
    MaxChanges = 0
    MaxFenceLoads = 2
    Searches = {"r"}
    Customers = {c1, c2}
    Places = {"p", "q"}
    Starts = {1}
    Menus = {1, 2}
    MaxQuotes = 0
    MaxDisturbances = 1
SPECIFICATION MCSpec
SYMMETRY MCSymmetry
INVARIANTS ReviewedIsExecuted
CHECK_DEADLOCK FALSE
