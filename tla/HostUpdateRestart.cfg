SPECIFICATION Spec
CONSTANTS
    Procs = {p1}
    Commands = {"update", "resume", "cancel", "stop", "start"}
    Versions = {v1, v2}
    Old = v1
    Pooled = FALSE
    Provisioned = TRUE
    None = None
PROPERTY NoOldBinaryAfterRelease
