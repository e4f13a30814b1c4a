CONSTANTS
    t1 = t1
    t2 = t2
    t3 = t3
    Threads = {t1, t2, t3}
    NoThread = NoThread
    Queries = {q1, q2}
    NoQuery = NoQuery
    Ops <- SearchOps
    Failures = {"open", "search", "count"}
    WordCounts = {1}
    LicenseArgs = {FALSE}
    MaxOpens = 1
    MaxLocation = 3
    MaxResults = 2
SPECIFICATION Spec
SYMMETRY QuerySymmetry
CHECK_DEADLOCK FALSE
INVARIANTS
    MutexReleased
    SearchResultIsOwn
PROPERTIES
    SearchIsService
