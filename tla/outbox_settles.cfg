CONSTANTS
    w1 = w1
    w2 = w2
    Events = {1, 2}
    Unsupported = {}
    Workers = {w1}
    BatchSize = 1
    MaxAttempts = 2
    MaxFaults = 2
    None = None
SPECIFICATION FairSpec
PROPERTIES EveryEventSettles WorkersStop
