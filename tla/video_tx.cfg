CONSTANTS
    r1 = r1
    r2 = r2
    g1 = g1
    a = a
    ViewRequests = {r1, r2}
    GetRequests = {g1}
    Videos = {a}
    Absent = Absent
    Malformed = Malformed
    PoolSize = 2
    None = None
SPECIFICATION FairSpec
INVARIANTS TypeOK NoLostViews RefusalsHaveNoEffect AnswersInOrder
PROPERTIES CountsViews RequestsAnswered LocksEnd
CHECK_DEADLOCK FALSE
