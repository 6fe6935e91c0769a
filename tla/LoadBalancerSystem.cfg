CONSTANTS
    NumPrimaries = 2
    NumBackups = 1
    Clients = {c1, unknown}
    StickyClients = {c1}
    Dispatches = {d1, d2}
    MaxLimit = 2
SPECIFICATION Spec
INVARIANTS
    TypeOK
    SelectionIsTotal
PROPERTIES
    SelectsBestTier
    ProbesReachEveryone
    SweepsComeRound
    SelectionWithinFairShare
    InstancesRecover
    TrafficFailsBack
    ExpiredPinsGo
