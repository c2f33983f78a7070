SPECIFICATION SpacedSystemSpec
CONSTANTS
    c1 = c1
    ip1 = ip1
    ip2 = ip2
    cpu1 = cpu1
    t1 = t1
    t2 = t2
    t3 = t3
    None = None
    Pools <- TCPOnly
    IPs <- TwoIPs
    Threads <- TwoThreads
    Capacity = 2
    Scores = {0, 1}
    Flows <- OneTCPFlow
    VIPPort <- MCVIPPort
    CPUs <- OneCPU
    CpuOf <- AllOnOneCPU
    CtSize = 1
    InsertMayFail = FALSE
SYMMETRY MCSymmetry
INVARIANT
    RecordedSlotIsOwn
PROPERTIES
    ImplementsPool
    AddressStaysWhileHeld
    ImplementsDataPlane
