\* The bounds of the largest component in each dimension; MCPreparations says which
\* component has which.
SPECIFICATION PreparationsSpec
CHECK_DEADLOCK FALSE
CONSTANTS
    MaxParents = 2
    MaxChildren = 2
    MaxEdits = 1
    World = {"starts", "cancels", "kills", "copies"}
INVARIANTS
    ReadyIsRecent
    CompletedLeavesNoChild
PROPERTIES
    Settles
