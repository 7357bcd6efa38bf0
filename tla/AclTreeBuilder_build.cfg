\* Build is bounded by MaxBuilds; after a panic, or after the last Build,
\* the builder has no further step.
CONSTANTS
    r = r  x = x  a = a  b = b  c = c  h = h  none = none
    Changes = {r, x, a, b, c, h}
    PreviousIds <- MCPreviousIds
    HeadIds <- MCHeadIds
    ValidRoots = {r}
    LoadFaults = TRUE
    MaxBuilds = 4
    NoChange = none
SPECIFICATION Spec
CHECK_DEADLOCK FALSE
INVARIANT BuildComplete
