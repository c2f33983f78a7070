SPECIFICATION Spec
CONSTANTS
    ip1 = ip1
    ip2 = ip2
    h1 = h1
    h2 = h2
    None = None
    IPs <- TwoIPs
    Handlers <- TwoHandlers
    Capacity = 2
    PollScores = {2}
    MaxConsecutiveFails = 3
PROPERTY ScoreUpdateChangesScoreOnly
