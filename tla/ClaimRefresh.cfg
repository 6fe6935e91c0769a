CONSTANTS
    Editions = {city}
    CacheMaxSize = 2
    k1 = k1
    k2 = k2
    Kids = {k1, k2}
    KeySets <- MCKeySets
    c1 = c1
    c2 = c2
    private = private
    outer = outer
    inner = inner
    probe = probe
    Addresses <- MCAddresses
    Clients = {c1, c2}
    InnerProxies <- MCInnerProxies
    LastProxy = inner
    OtherPeers = {probe}
    SentEntries <- MCSentEntries
    TrustedPeers = {inner}
    Hops = 2
    Backends <- MCBackends
    ExemptPaths <- MCExemptPaths
    OwnRoutes <- MCOwnRoutes
    PathPrefixes <- MCPathPrefixes
    Paths <- MCPaths
SPECIFICATION Spec
INVARIANT
    RefreshNeverRaises
