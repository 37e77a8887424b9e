SPECIFICATION MCPartsSpec
CONSTANTS
    c1 = c1
    c2 = c2
    c3 = c3
    x1 = x1
    x2 = x2
    s1 = s1
    s2 = s2
    Clients <- MCClients
    Elevated <- MCElevated
    Changes <- MCChanges
    MaxHeld = 1
    HoldFor = 2
    MaxClock = 3
    MaxNames = 3
    Wishes = {"best", "p1"}
    First = 1
    Cap = 5
    MinGap = 4
    MaxStarts = 2
    KeysDocs <- MCKeysDocs
    FeedDocs <- MCFeedDocs
    Roots = {"r1", "r2", "r3"}
    RootThreshold = 2
    MinKeysVersion = 1
    Skew = 0
    MaxNow = 2
    MaxFeedStarts = 3
    MaxRuns = 3
    Paths <- MCPaths
    GatewaysOf <- MCGatewaysOf
    Preference <- MCPreference
    Levels = {0, 3}
    DegradeFor = 1
    UnusableFor = 1
    StableFor = 0
    MinDwell = 1
    MaxMoves = 1
    Window = 2
    HoldAfter = 1
    Subscribers <- MCSubscribers
    Backlog = 2
    MaxSubscribers = 1
    MaxEvents = 5
    Settings = {0, 1}
    Default = 0
    MaxEndpoints = 2
    MaxIds = 3
    Profiles = {"q1", "q2"}
    Tier <- MCTier
    NoProfile = NoProfile
    Deadline = 2
    Grace = 1
    MinBytes = 2
    MinRate = 3
    Measurements <- MCMeasurements
    MaxRaces = 2
    MaxUndeleted = 1
    Spelled <- MCSpelled
    Hosts <- MCHosts
    Addresses <- MCAddresses
    Ranges <- MCRanges
    Pool <- MCPool
    Servers <- MCServers
    Origins <- MCOrigins
    Local <- MCLocal
    Portals <- MCPortals
    Resolvers <- MCResolvers
    BlockStart = 5
    UserStart = 8
    MaxPrecedence = 10
    MaxUserRules = 2
    Carriers = {"wifi", "cell"}
    Reasons = {"OnlyPath", "Budget"}
    PoorFor = 2
    RecoverFor = 2
INVARIANTS PartsTypeOK AppliedOnce TriedInTime NeverOlder EffectIsVouched AccountedFor CleanReportIsTrue RouteIsCarrying GapsAreTold CredentialsExist NothingLeftBehind PartsRoutedAsRuled PartsReadBackTheSame
PROPERTIES ConnectsAsLastAsked RetriesAreSpaced StartKeepsEffect PromisedOutcome ToldAsSeen
CHECK_DEADLOCK FALSE
