CONSTANTS
    Magic = "maildir"
    m1 = m1
    m2 = m2
    Clients = {c1, c2}
    Messages = {m1, m2}
    Stocked <- Folder
    HeaderDeleted = {m2}
    UsedFlags = {"M_DELETE", "M_READ"}
    MaxEdits = 2
    MaxOpened = 0
SPECIFICATION Spec
SYMMETRY Symmetry
CHECK_DEADLOCK FALSE
INVARIANTS
    FlagsFromName
