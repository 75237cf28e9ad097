SPECIFICATION FairSpec
CHECK_DEADLOCK FALSE
CONSTANTS
    Tickets = {t1, t2}
    MaxStops = 2
    MaxFaults = 1
    Faults = {"crash", "timeout", "drop", "guest", "vanish", "unmount"}
INVARIANT LiveExecutionHeld
INVARIANT CollectionExcludesReaders
INVARIANT CertificateHonest
PROPERTY ReleaseProceeds
