CONSTANTS
    g = g  a = a  s = s  b = b  x = x  m = m  x2 = x2  f = f  z = z  l1 = l1  l2 = l2
    Genesis = g
    NoId = NoId
    Remote <- RemotePanic
    Local <- MCLocal
    RPrev <- MCRPrev
    RBase <- MCRBase
    RSnap <- MCRSnap
    BadSig <- MCBadSig
    Forbidden <- MCForbidden
    MaxBatch = 2
    CausalDelivery = TRUE
    StorageFaults = FALSE
SPECIFICATION Spec
INVARIANT NeverPanics
