SPECIFICATION FairSpec
CONSTANTS
    p1 = p1
    p3 = p3
    e1 = e1
    e2 = e2
    NoProfile = NoProfile
    NoEndpoint = NoEndpoint
    Profiles = {p1, p3}
    Probeable = {p1}
    Carriers = {p1}
    Names = {p1, p3}
    Tier <- MCTier
    ProfileOrder <- MCProfileOrder
    Endpoints = {e1}
    Enabled = {e1}
    EndpointOrder <- MCEndpointOrder
    Environments <- MCEnvironments
    Reaches <- MCReaches
    StartCauses = {"CoreFailedPersistently"}
    ProbeOutcomes = {"good", "failed"}
    BlockAfter = 1
    UnreachableAfter = 1
    DegradedAfterBad = 1
    HealthyAfterGood = 1
    MailboxCap = 1
    ProbeEvery = 1
    MaxAttempts = 1
INVARIANTS TypeOK RaceWhileDown
PROPERTIES AttemptSettles DisconnectTakesDown ShutdownReturns BlockedForTheAttempt
