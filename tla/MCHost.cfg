SPECIFICATION HostSpec
CONSTANTS
    Procs = {p1}
    Commands = {"update", "resume", "cancel", "stop", "start"}
    Versions = {v1, v2}
    Old = v1
    Pooled = FALSE
    Provisioned = FALSE
    Tickets = {t1}
    Launchers = {l1, l2}
    Reconcilers = {r1, r2}
    Watchers = {w1, w2}
    None = None
PROPERTY IntentRemovalJustified
PROPERTY UpdateResumable
PROPERTY RemovalCompletes
CHECK_DEADLOCK FALSE
