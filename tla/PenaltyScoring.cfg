CONSTANTS
    Scorings = {s1, s2}
    Clients <- MCClients
    ContextOf <- MCContextOf
    Scoring <- MCScoring
    Backends <- MCBackends
    Overrides <- MCOverrides
    MaxCount = 2
SPECIFICATION FairSpec
INVARIANTS
    TypeOK
    ExemptPaysOwnOnly
    PenaltyNeverEases
PROPERTIES
    OnlyFailuresOrphan
    WindowsAreFixed
    ChargedInFull
    CountersReset
