SPECIFICATION Spec
CONSTANTS
    p1 = p1
    p2 = p2
    p3 = p3
    stranger = stranger
    e1 = e1
    e2 = e2
    NoProfile = NoProfile
    NoEndpoint = NoEndpoint
    Profiles <- MCProfiles
    Probeable <- MCProbeable
    Names <- MCNames
    Tier <- MCTier
    ProfileOrder <- MCProfileOrder
    Endpoints <- MCEndpoints
    Enabled <- MCEndpoints
    EndpointOrder <- MCEndpointOrder
    Environments <- MCEnvironments
    Reaches <- MCReaches
    StartCauses = {"CoreFailedPersistently"}
    ProbeOutcomes = {"good", "poor", "failed"}
    BlockAfter = 2
    UnreachableAfter = 2
    DegradedAfterBad = 1
    HealthyAfterGood = 1
INVARIANTS AskedIsPhase EndpointInUse
PROPERTIES StopThenStart ChangesAreTold
