CONSTANTS
    Magic = "imap"
    Keys = {k1, k2}
    HeaderSays = {"deleted"}
SPECIFICATION Spec
INVARIANTS
    DeletedIsHowMany
