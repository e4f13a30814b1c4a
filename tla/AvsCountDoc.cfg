CONSTANTS
    t1 = t1
    t2 = t2
    t3 = t3
    Threads = {t1, t2}
    NoThread = NoThread
    Queries = {q1, q2}
    NoQuery = NoQuery
    Ops <- SearchOps
    Failures = {}
    WordCounts = {1}
    LicenseArgs = {FALSE}
    MaxOpens = 1
    MaxLocation = 0
    MaxResults = 2
SPECIFICATION Spec
CHECK_DEADLOCK FALSE
INVARIANTS
    CountIsOfPrefix
