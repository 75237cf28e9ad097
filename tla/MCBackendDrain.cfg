SPECIFICATION PromptSpec
CONSTANTS
    Kinds = {"request", "workflow", "background", "session", "broker"}
    MaxWork = 1
    MaxLate = 0
INVARIANT ReleaseFindsQuiet
PROPERTY ImplementsHandover
CHECK_DEADLOCK FALSE
