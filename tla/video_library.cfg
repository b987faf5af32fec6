CONSTANTS
    l1 = l1
    v1 = v1
    a1 = a1
    a2 = a2
    p1 = p1
    p2 = p2
    Loads = {l1}
    Views = {v1}
    Attempts = {a1, a2}
    Dels = {v1, a1, a2}
    Instances = {p1, p2}
    InstanceOf <- TwoProcesses
    MaxSends = 1
    MaxCommits = 1
    MaxAttempts = 2
    None = None
    Corrupt = Corrupt
SPECIFICATION LibFairSpec
INVARIANTS LibTypeOK HiddenViewsArePending InvalidatedViewsShown
PROPERTY ViewsAppear
