SPECIFICATION MachineSpec
CONSTANTS
    a1 = a1
    g1 = g1
    g2 = g2
    Addresses <- MCAddresses
    Gateways <- MCGateways
    Routes <- MCRoutes
    MaxRecords = 2
    MaxCrashes = 1
SYMMETRY MCSymmetry
INVARIANTS ChangesAreRecorded PeerIsGuarded OnlyStuckRemains
PROPERTIES KeepsItsPromise ReadyIsRestored
CHECK_DEADLOCK FALSE
