CONSTANTS
    t1 = t1
    t2 = t2
    t3 = t3
    Threads = {t1, t2}
    NoThread = NoThread
    Queries = {q1}
    NoQuery = NoQuery
    Ops <- BothOps
    Failures = {"open", "close", "reopen", "destroy", "make_stable", "add_words", "add_field_words"}
    WordCounts = {1, 2}
    LicenseArgs = {FALSE, TRUE}
    MaxOpens = 2
    MaxLocation = 4
    MaxResults = 0
SPECIFICATION UseSpec
INVARIANTS
    TypeOK
    WordsDisjoint
    FieldsExact
    HandleExclusive
    HandlesAccounted
