CONSTANTS
    MinLimit = 1
    MaxLimit = 2
    WindowSize = 1
    MinSamples = 1
    Latencies = {2}
    Requests = {1, 2, 3}
    Scores = {1}
    QueueMaxSize = 2
    QueueTimeout = 1
    NumPrimaries = 1
    NumBackups = 0
    Clients = {c1}
    StickyClients = {}
SPECIFICATION FairSpec
PROPERTIES
    WaitersAreServed
    AdmissionReopens
    CancelledResponseCloses
    ImplementsService
