SPECIFICATION ServiceSpec
CONSTANTS
    p1 = p1
    e1 = e1
    NoProfile = NoProfile
    NoEndpoint = NoEndpoint
    Profiles = {p1}
    Probeable = {}
    Carriers = {}
    Names = {}
    Tier <- MCTier
    ProfileOrder <- MCProfileOrder
    Endpoints = {e1}
    Enabled = {e1}
    EndpointOrder <- MCEndpointOrder
    Environments <- MCEnvironments
    Reaches <- MCReaches
    StartCauses = {"CoreFailedPersistently"}
    ProbeOutcomes = {"failed"}
    BlockAfter = 1
    UnreachableAfter = 1
    DegradedAfterBad = 1
    HealthyAfterGood = 1
    MailboxCap = 1
    ProbeEvery = 1
    MaxAttempts = 1
    MaxChanges = 1
INVARIANTS RetiredStaysAtRest
