CONSTANTS
    MinLimit = 20
    MaxLimit = 22
    InitialLimit = 24
    WindowSize = 2
    MinSamples = 2
    Latencies = {1, 3, 5, 9}
    TargetP95 = 4
    TimeoutPercent = 50
    ErrorPercent = 50
    Interval = 30
    Callers = {w1, w2, w3}
SPECIFICATION Spec
INVARIANTS
    TypeOK
    NoLostWakeup
PROPERTIES
    ImplementsContract
