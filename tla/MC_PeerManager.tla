--------------------------- MODULE MC_PeerManager ---------------------------
EXTENDS PeerManager

CONSTANTS p1, p2, p3, c1, c2

MCNodeIds == <<p1, p2>>
MCPeers == {p1, p2, p3}
MCCallers == {c1, c2}

\* The refresh run: SendMessage to a peer outside the list takes the same
\* steps in the manager as to one inside it, so the responsible peers do.
MCPeersRefresh == {p1, p2}
=============================================================================
