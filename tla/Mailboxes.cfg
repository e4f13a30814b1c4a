CONSTANTS
    Null = Null
    Clients = {c1, c2}
    MaxMail = 3
    MaxMboxEdits = 1
    MaxUid = 4
    MaxBoxEdits = 2
    MaxOthers = 1
    MaxBoxes = 2
    Boxes = {b1, b2}
    Uris <- SomeUris
    MaxConns = 3
    BoxObjs = {b1, b2}
    MsgObjs = {g1}
    MaxContexts = 2
    MaxFds = 2
    MaxOpens = 2
    MaxHeaders = 1
    DefaultMagics = {"mbox", "mmdf", "mh", "maildir"}
    MhClients = {h1, h2}
    MaxNumber = 2
    MaxMhEdits = 2
    Blocks <- MimeBlocks
    MaxBlocks = 3
    DateYears = {50, 3, 1969, 1970, 1972, 2000, 2001, 2099}
    DateMonths = {0, 1, 2}
    DateDays = {1, 29, 31}
    DateHours = {23}
    DateZones <- SomeZones
    Winter = 60
    Summer = 120
    Change = 5000000
    Fields = {"status", "xstatus", "length", "to", "reply-to", "mail-reply-to", "subject", "long", "message-id"}
    MaxFields = 2
    MaxCopies = 1
    Magic = "maildir"
    m1 = m1
    m2 = m2
    Messages = {m1, m2}
    Stocked <- HalfFolder
    HeaderDeleted = {m2}
    UsedFlags = {"M_DELETE", "M_READ", "M_OLD"}
    MaxEdits = 1
    MaxOpened = 1
    PikeClients = {s1, s2}
    PikeMails = {e1, e2}
    MaxPikeCalls = 4
SPECIFICATION Spec
SYMMETRY Symmetry
CHECK_DEADLOCK FALSE
INVARIANTS
    TypeOK
    NoMailLost
    HoldersExcluded
    SessionMatchesServer
    
    ObjectsKeepWhatTheyHold
    FoldersAreWhole
    MarksOutliveNumbers
    PartsNest
    DatesAreExact
    HeadersComeBack
    EveryMessageFound
PROPERTIES
    EditsSurviveReopen
    CommitIsExact
    CleanCloseSaves
