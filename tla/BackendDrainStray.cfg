SPECIFICATION Spec
CONSTANTS
    Kinds = {"session"}
    MaxWork = 1
    MaxLate = 1
PROPERTY NoWorkAbandoned
CHECK_DEADLOCK FALSE
