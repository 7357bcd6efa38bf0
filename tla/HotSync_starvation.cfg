CONSTANTS
    c1 = c1  hs = hs  none = none
    Spaces = {1, 2}
    Removed = {2}
    Callers <- MCCallers
    Procs <- MCProcs
    HS = hs
    NoSpace = none
    LoadFaults = TRUE
    MaxCalls = 2
    Sim = 1
    MaxUpdates = 3
    MaxIds = 2
SPECIFICATION Spec
PROPERTY QueuedEventuallyAttempted
