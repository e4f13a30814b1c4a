CONSTANTS
    t1 = t1
    t2 = t2
    t3 = t3
    Threads = {t1}
    NoThread = NoThread
    Queries = {q1}
    NoQuery = NoQuery
    Ops <- LifecycleRunOps
    Failures = {}
    WordCounts = {1}
    LicenseArgs = {FALSE, TRUE}
    MaxOpens = 2
    MaxLocation = 0
    MaxResults = 0
SPECIFICATION Spec
CHECK_DEADLOCK FALSE
INVARIANTS
    LicenseCopyKept
