SPECIFICATION FairSpec
CONSTANTS
    ip1 = ip1
    ip2 = ip2
    h1 = h1
    h2 = h2
    None = None
    IPs <- TwoIPs
    Handlers <- OneHandler
    Capacity = 1
    PollScores = {2}
    MaxConsecutiveFails = 2
PROPERTIES
    DeadBackendIsRemoved
    ScoreReachesPool
    CallsLoaderSpaced
