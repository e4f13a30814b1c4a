CONSTANTS
    Magic = "maildir"
    Keys = {k1, k2}
    HeaderSays = {}
    ServerSays = {"read"}
SPECIFICATION MailSpec
SYMMETRY Symmetry
INVARIANTS
    TypeOK
    CountersExact
    ChangesNoticed
    UndeletesNoticed
    
PROPERTIES
    ServerReadonlyStaysClean
