SPECIFICATION Spec
CONSTANTS
    Procs = {p1, p2}
    Commands = {"update", "resume", "cancel", "stop", "start"}
    Versions = {v1, v2}
    Old = v1
    Pooled = TRUE
    Provisioned = TRUE
    None = None
INVARIANT OwnerMatchesContainer
PROPERTY CheckpointFaithful
PROPERTY ImplementsCustody
SYMMETRY Symmetry
