SPECIFICATION Spec
CONSTANTS
    None = None
    Node <- MCNode
    Address <- MCAddress
    Listen <- MCListen
    Host <- MCHost
    Rules <- MCRules
    Peers <- MCPeers
    MaxOutbound <- MCMaxOutbound
    MaxInbound = 1
    MaxPerIp = 1
    MaxSize = 1
    MaxFailures = 2
    FailureCap = 2
    BaseBackoff = 1
    MaxBackoff = 2
    MaxDials = 2
    Threshold = 1
    BanTicks = 1
    Points = {1}
    MaxSockets <- MCMaxSockets
    MaxFrames = 1
    MaxFaults = 1
INVARIANTS
    ConnectionsBounded
    HandshakeFirst
    LinksMutual
PROPERTIES
    KeepsConnected
