SPECIFICATION Spec
CONSTANTS
    p1 = p1
    p3 = p3
    e1 = e1
    e2 = e2
    NoProfile = NoProfile
    NoEndpoint = NoEndpoint
    Profiles = {p3}
    Probeable = {}
    Carriers = {}
    Names = {}
    Tier <- MCTier
    ProfileOrder <- MCProfileOrder
    Endpoints = {e1}
    Enabled = {e1}
    EndpointOrder <- MCEndpointOrder
    Environments <- MCEnvironments
    Reaches <- MCReaches
    StartCauses = {"CoreFailedPersistently"}
    ProbeOutcomes = {"good", "failed"}
    BlockAfter = 1
    UnreachableAfter = 1
    DegradedAfterBad = 1
    HealthyAfterGood = 1
    MailboxCap = 2
    ProbeEvery = 1
    MaxAttempts = 1
PROPERTIES NotConnectedIsTrue
