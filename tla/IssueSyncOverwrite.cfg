SPECIFICATION Spec
CONSTANTS
    Callers = {"host"}
    Commits = {i1, i2}
    MaxPushes = 3
    None = None
INVARIANT PublishedSurvives
CHECK_DEADLOCK FALSE
