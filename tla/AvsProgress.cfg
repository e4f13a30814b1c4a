CONSTANTS
    t1 = t1
    t2 = t2
    t3 = t3
    Threads = {t1, t2}
    NoThread = NoThread
    Queries = {q1}
    NoQuery = NoQuery
    Ops <- LivenessOps
    Failures = {"make_stable", "search"}
    WordCounts = {1}
    LicenseArgs = {FALSE}
    MaxOpens = 2
    MaxLocation = 2
    MaxResults = 1
SPECIFICATION FairSpec
CHECK_DEADLOCK FALSE
PROPERTIES
    SomeCallReturns
