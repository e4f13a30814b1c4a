CONSTANTS
    Null = Null
    Unset = Unset
    Threads = {t1, t2}
    IVs = {i1, i2}
    Ssls = {o1, o2}
    CryptoLocks = {l1, l2}
    MaxSessions = 3
    DbKeys = {k1}
    DbValues = {v1, v2}
    MaxAgents = 2
    MaxRows = 2
    Parsers = {p1}
    Stylesheets = {s1}
    MaxErrors = 1
    MaxInclude = 2
    ChunkSize = 1
    Files = {f1, f2}
    MaxDocs = 2
    Comps = {o1, o2}
    Classes = {"Form", "Grid", "Entry"}
    Addrs = {a1, a2}
    DictSize = 1
    MaxMade = 2
    MaxRuns = 1
    Results = {r1}
    Strings = {s1}
    MaxEntries = 2
    Table <- SomeCallbacks
    MethodSets <- SomeMethods
    MaxCreates = 2
    MaxParses = 2
    MaxDepth = 1
    GpgObjects = {g1, g2, g3}
    MaxKeys = 2
    MaxArgs = 1
    HashTypes = {"crc32", "md5", "sha1"}
    HmacTypes = {"md5", "sha1"}
    HashKeys = {k1, k2}
    MaxFed = 2
    Width = 4
    Slack = 2
    MaxResult = 10
    GzNames = {n1, n2}
    MaxChunks = 2
    DirObjects = {d1, d2}
    MaxStreams = 2
    MaxDirEntries = 2
    ShadowObjects = {h1, h2}
    MaxSpents = 3
    Mounts <- DevTables
    Devices <- DevNames
    Screens = {c1, c2}
    MAX_WINDOWS = 2
    MaxWindowIds = 3
    Parts = {"root", "button"}
    Filters = {b1}
    FormObjs = {m1}
    MaxComponents = 2
    MaxWindows = 2
    WindowObjs = {w1, w2}
    ScreenObjs = {u1, u2}
    MaxWindowsMade = 3
    PdfObjs = {p1}
    MaxPdfs = 2
    MaxPieces = 2
    PdfFonts = {e1}
    MagicObjs = {x1, x2}
    MaxCookies = 4
    GeoObjs = {y1, y2}
    Countries = {z1, z2}
    MaxDatabases = 3
    WordSizes = {1, 4}
    MaxWords = 2
    StemLimit = 8
    MaxDoublings = 2
    MaxHandles = 1
    EsmtpObjs = {e1, e2}
    PointerSize = 8
    MaxMadeSessions = 2
    McObjs = {u1}
    Groups = {g1, g2}
    Interfaces = {i1, i2}
    DefaultIf = i1
    MaxBinds = 2
    Regexps = {r1, r2}
    Patterns = {p1, p2}
    MaxCompiled = 2
    MaxLosses = 1
    FileNames = {n1, n2}
    MaxTemps = 1
    MaxStarts = 3
SPECIFICATION Spec
SYMMETRY Symmetry
CHECK_DEADLOCK FALSE
INVARIANTS
    TypeOK
    
    AnswersAreOfTheQuestion
    
    LibraryObjectsHaveOwners
    
    
    OutputIsOfItsInput
    
    SystemFilesAreReadRight
