SPECIFICATION SystemSpec
CONSTANTS
    c1 = c1
    ip1 = ip1
    ip2 = ip2
    cpu1 = cpu1
    t1 = t1
    t2 = t2
    t3 = t3
    None = None
    Pools <- UDPOnly
    IPs <- OneIP
    Threads <- ThreeThreads
    Capacity = 3
    Scores = {1}
    Flows <- OneUDPFlow
    VIPPort <- MCVIPPort
    CPUs <- OneCPU
    CpuOf <- AllOnOneCPU
    CtSize = 1
    InsertMayFail = TRUE
SYMMETRY MCSymmetry
INVARIANTS
    TypeOK
    ActiveSlotsPopulated
    ScoreKeepsABackend
    SystemTypeOK
    SlotsInUsePopulated
