SPECIFICATION Spec
CHECK_DEADLOCK FALSE
CONSTANTS
    MaxParents = 1
    MaxChildren = 1
    MaxEdits = 0
    World = {}
INVARIANTS
    CancelledLeavesNoChild
