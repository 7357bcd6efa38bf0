CONSTANTS
    p1 = p1  p2 = p2  p3 = p3  c1 = c1  c2 = c2
    NoCaller = NoCaller
    NodeIds <- MCNodeIds
    Peers <- MCPeers
    Callers <- MCCallers
    TicksPerMinute = 2
    MaxTime = 3
SPECIFICATION Spec
PROPERTY CooldownRespected
