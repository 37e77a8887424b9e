SPECIFICATION Spec
CONSTANTS
    p1 = p1
    p3 = p3
    e1 = e1
    e2 = e2
    NoProfile = NoProfile
    NoEndpoint = NoEndpoint
    Profiles = {p1}
    Probeable = {p1}
    Carriers = {p1}
    Names = {}
    Tier <- MCTier
    ProfileOrder <- MCProfileOrder
    Endpoints = {e1, e2}
    Enabled = {e1, e2}
    EndpointOrder <- MCEndpointOrder
    Environments <- MCEnvironments
    Reaches <- MCReaches
    StartCauses = {"CoreFailedPersistently"}
    ProbeOutcomes = {"good", "poor", "failed"}
    BlockAfter = 1
    UnreachableAfter = 1
    DegradedAfterBad = 1
    HealthyAfterGood = 1
    MailboxCap = 2
    ProbeEvery = 1
    MaxAttempts = 1
INVARIANTS QuietMeansDown ShutdownLeavesNothing
PROPERTIES ConnectsAsPromised
