SPECIFICATION Spec
CONSTANTS
    Supervisors = {p1, p2}
    Hosts = {h1}
    Operators = {o1, o2}
    Foreign = {o2}
    OperatorActions = {"Inspect", "Retire", "Resume"}
    Descendants = {d1}
    Slots = {s1}
    MaxLaunch = 2
    SaveOutcomes = {"ok", "unsaved", "committed"}
    None = None
INVARIANT SingleEpoch
INVARIANT CleanIsQuiet
PROPERTY ImplementsLease
CHECK_DEADLOCK FALSE
SYMMETRY Symmetry
