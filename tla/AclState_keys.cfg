\* applyRecord is only called when a record arrives; the list may receive
\* no further record, so a state without successor is not an error.
CONSTANTS
    u1 = u1  u2 = u2  u3 = u3  k1 = k1  node = node
    Users = {u1, u2}
    RootUser = u1
    Local = node
    InviteKeys = {k1}
    Hashes = {1, 2}
    MaxContents = 2
    MaxRecords = 2
SPECIFICATION Spec
CHECK_DEADLOCK FALSE
INVARIANT KeysFollowAcceptedRecords
