SPECIFICATION HeldSpec
CONSTANTS
    c1 = c1
    c2 = c2
    x1 = x1
    x2 = x2
    Clients <- MCClients
    Elevated <- MCElevated
    Changes <- MCChanges
    MaxHeld = 1
    HoldFor = 2
    MaxClock = 3
    MaxNames = 2
INVARIANTS WithdrawnIsNotApplied
