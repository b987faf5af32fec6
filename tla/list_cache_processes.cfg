CONSTANTS
    l1 = l1
    l2 = l2
    l3 = l3
    d1 = d1
    d2 = d2
    p1 = p1
    p2 = p2
    Loads = {l1, l2}
    Dels = {d1, d2}
    Instances = {p1, p2}
    InstanceOf <- TwoProcesses
    MaxSends = 1
    MaxCommits = 1
    None = None
    Corrupt = Corrupt
SPECIFICATION Spec
INVARIANTS CachedShowsInvalidations ReadsShowInvalidations
PROPERTY KeepsPromise
SYMMETRY LoadSymmetry
