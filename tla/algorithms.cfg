CONSTANTS
    None = None
    SearchInputs <- SmallSearches
    OneSearch <- ASearch
    AbsoluteLimits <- Absolute
    QuickLimits <- Quick
    ExaPerRequest = 2
    ExaPerRun = 3
    GithubPerRun = 2
    PacketInputs <- SmallPackets
    OnePacket <- APacket
    MaxSources = 2
    MaxAccounts = 2
    MaxChars = 24
    MinChars = 12
    PerAccount = 3
    CiteScan = 2
    MaxCites = 1
    ScanLimit = 3
    SeedSize = 2
    Scans <- SmallScans
    Seeds <- AnySeed
    Profiles <- AnyProfile
    Stranger <- SomeoneElse
    MaximumNames = 2
SPECIFICATION Spec
CHECK_DEADLOCK FALSE
INVARIANTS
    BudgetIsDealtWell
    SearchesAreHonest
    PacketIsRight
    BriefIsGrounded
