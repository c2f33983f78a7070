SPECIFICATION Spec
CONSTANTS
    c1 = c1
    c2 = c2
    b1 = b1
    b2 = b2
    cpu1 = cpu1
    cpu2 = cpu2
    Protos <- MCProtos
    Flows <- TwoTCPFlows
    Backends <- MCBackends
    VIPPort <- MCVIPPort
    CPUs <- MCCPUs
    CpuOf <- MCCpuOf
    CtSize = 1
    InsertMayFail = TRUE
    MayRestart = TRUE
    Capacity = 2
    Scores = {0}
SYMMETRY BackendSymmetry
PROPERTIES
    NoStateNoForward
    FlowKeepsBackend
