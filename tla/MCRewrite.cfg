SPECIFICATION Spec
CONSTANTS
    Byte = 4
    VIP <- MCVIP
    VIPPort <- MCVIPPort
    BridgeIP <- MCBridgeIP
    Backends <- MCBackends
    Clients <- MCClients
    Payloads <- MCPayloads
INVARIANTS
    TypeOK
    WireNamesBothEnds
PROPERTIES
    HeaderKeepsVerdict
    SegmentKeepsVerdict
    UncheckedStaysUnchecked
