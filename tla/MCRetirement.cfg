SPECIFICATION RetirementSpec
CONSTANTS
    Supervisors = {p1}
    Hosts = {h1, h2}
    Operators = {o1}
    Foreign = {}
    OperatorActions = {"Inspect", "Retire"}
    Descendants = {d1}
    Slots = {s1}
    MaxLaunch = 2
    SaveOutcomes = {"ok", "unsaved", "committed"}
    Kinds = {"request"}
    MaxWork = 1
    MaxLate = 1
    None = None
INVARIANT DispatchIsFenced
INVARIANT CertificateTruthful
PROPERTY NoResurrection
PROPERTY RetirementCompletes
PROPERTY PlannedReleaseEnds
CHECK_DEADLOCK FALSE
