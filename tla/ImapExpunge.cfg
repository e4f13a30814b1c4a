CONSTANTS
    MaxUid = 4
    MaxBoxEdits = 2
    MaxOthers = 2
    MaxBoxes = 2
SPECIFICATION Spec
CHECK_DEADLOCK FALSE
INVARIANTS
    ExpungedLeftOut
