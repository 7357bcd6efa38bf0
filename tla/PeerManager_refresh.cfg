CONSTANTS
    p1 = p1  p2 = p2  p3 = p3  c1 = c1  c2 = c2
    NoCaller = NoCaller
    NodeIds <- MCNodeIds
    Peers <- MCPeersRefresh
    Callers <- MCCallers
    TicksPerMinute = 2
    MaxTime = 2
SPECIFICATION FairSpec
INVARIANT TypeOK
INVARIANT SnapshotComplete
PROPERTY CallsReturn
