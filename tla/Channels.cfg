CONSTANTS
    OutputModes = {"streaming", "identity", "legacy"}
    MaxUtterances = 3
    InputHandoffThreshold = 2
    ReplyQueueLimit = 3
    StartupFrames = 1
    QueueFrameLimit = 1
    EventBufferLimit = 1
    VoiceSalons = {s1, s2}
    CallHandlers = {h1, h2}
    CallIds = {"c"}
    TurnEvents = {"e"}
    MaxRouteChanges = 1
    MaxAudios = 1
    MaxTurns = 2
    MaxConflicts = 1
    Messages = {1}
    ConsentKeys = {1}
    Senders = {h1, h2}
    DayMinutes = {0, 1, 2}
    QuietPolicies <- MCQuietPolicies
    MaxSmsAttempts = 2
    MaxOwnerRequeues = 1
    MaxSource = 2
    MaxConsent = 3
    MaxPolicy = 2
    HookDays = {0, 3}
    RepairDays = 2
    HookWorkers = {h1, h2}
    MaxHookAttempts = 1
    MaxHookRequeues = 1
    HookKeys = {"k"}
    MaxChanges = 2
    MaxGenerations = 2
    MaxRepairs = 1
SPECIFICATION MCSpec
SYMMETRY MCSymmetry
INVARIANTS ChannelsTypeOK CallersAreAnswered CallsAreSound DeliveredAsRecorded
PROPERTIES ChannelsKeepOrder
CHECK_DEADLOCK FALSE
