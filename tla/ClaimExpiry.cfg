CONSTANTS
    Scorings = {s1, s2}
    Clients <- MCClients
    ContextOf <- MCContextOf
    Scoring <- MCScoring
    Backends <- MCBackends
    Overrides <- MCOverrides
    MaxCount = 2
SPECIFICATION Spec
INVARIANT
    CountersHaveExpiry
