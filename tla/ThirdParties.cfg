SPECIFICATION ThirdPartiesSpec
CONSTANTS
    i1 = i1
    i2 = i2
    a1 = a1
    a2 = a2
    p1 = p1
    p2 = p2
    Nobody = Nobody
    Integrations <- MCIntegrations
    Assets <- MCAssets
    Processes <- MCProcesses
    MaxEvents = 2
    Starts <- MCStarts
    MaxPages = 2
    PerPage = 2
    MaxNames = 4
    MaxLayers = 3
    MaxEntries = 3
    MaxPackages = 3
    MaxCtPages = 2
    MaxEnumNames = 2
    Callers <- MCProcesses
    MaxCalls = 3
    MaxAttempts = 2
    MaxChanges = 1
INVARIANTS
    CompleteOrRefused
    SecretsStayHome
    ExposureHonest
    ImageNeverContradicted
    InventoryExact
    SurfaceHonest
    OnlyVetted
    GatesFollowEngine
PROPERTIES
    ArchivedWasGone
    Converges
    OneRowPerScan
\* After the last call or event there may be nothing left to do.
CHECK_DEADLOCK FALSE
