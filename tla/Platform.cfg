CONSTANTS
    Merchants = {"a", "b"}
    ShopLocations = {"x", "y"}
    ImportedServices = {"s"}
    ImportedStaff = {"t"}
    LocalServices = {"l"}
    OAuthStates = {1, 2}
    SyncRequests = {1, 2}
    MaxSnapshots = 2
    MaxGateKeys = 3
    GateRequests = {1}
    MaxGateVersion = 5
    MaxConfigVersion = 2
    Operators = {o1, o2}
    AccessSalons = {"s"}
    MaxAccessActions = 5
    MaxSupport = 1
    MaxRotations = 1
    Applications = {"r"}
    TenantUsers = {"u", "v"}
    TenantEmails = {"e", "f"}
    MaxReviewVersion = 5
    MaxMemberVersion = 2
    MaxInvitations = 2
    MaxQuotaUnits = 2
    Admins = {"p"}
    ActionKeys = {1, 2, 3}
    TransferRequests = {"r"}
    Texts = {"a", "b"}
    Selections <- MCSelections
    Uploads <- MCUploads
    MaxConfigEdits = 2
    MaxPreviews = 1
    MaxRecords = 2
SPECIFICATION MCSpec
SYMMETRY MCSymmetry
INVARIANTS PlatformTypeOK ProviderIsTrusted SalonsAreInOrder
PROPERTIES ChangesAreSafe
CHECK_DEADLOCK FALSE
