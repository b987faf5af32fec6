CONSTANTS
    w1 = w1
    w2 = w2
    Events = {1, 2}
    Unsupported = {2}
    Workers = {w1, w2}
    BatchSize = 2
    MaxAttempts = 3
    MaxFaults = 2
    None = None
SPECIFICATION Spec
INVARIANTS TypeOK ProcessedWasInvalidated GivenUpAfterRetries ClaimsDistinct RetriesBounded
PROPERTY DeliversEvents
SYMMETRY WorkerSymmetry
