CONSTANTS
    r1 = r1
    r2 = r2
    r3 = r3
    r4 = r4
    r5 = r5
    k1 = k1
    k2 = k2
    k3 = k3
    Requests = {r1, r2, r3, r4, r5}
    Keys = {k1, k2, k3}
    Limit = 2
    Window = 2
    MaxEntries = 2
    CleanupFrom = 1
    MaxClock = 4
SPECIFICATION Spec
INVARIANT AdmissionRate
PROPERTIES RefusedForCause WindowsRunTheirCourse
SYMMETRY RequestSymmetry
CHECK_DEADLOCK FALSE
