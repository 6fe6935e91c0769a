CONSTANTS
    MinLimit = 1
    MaxLimit = 5
    InitialLimit = 4
    WindowSize = 2
    MinSamples = 2
    Latencies = {1, 3, 5, 9}
    TargetP95 = 4
    TimeoutPercent = 50
    ErrorPercent = 50
    Interval = 30
    Callers = {w1}
SPECIFICATION Spec
PROPERTY
    FastBackendsGrow
