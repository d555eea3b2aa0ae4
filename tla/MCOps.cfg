SPECIFICATION MCSpec
CONSTANTS
    Runs = {a, b}
    MintRequests = {q}
    MONITOR_TIMEOUT = 3
    ALERT_WINDOW = 2
    LOOK_GAP = 1
    MaxMonTime = 7
    MaxMonFaults = 1
    CmdPolls = {p1, p2}
    Kind <- MCKind
    MaxCmdRestarts = 1
    MaxCmdOverlaps = 2
    MaxMints = 2
    SUPPLY = 4
    NFT_FUND = 1
    LP_FUND = 1
    INIT_GUM = 1
    INIT_XNT = 2
    BUFFER = 1
    RENT = 1
    MaxLaunches = 6
    MaxDeployFaults = 1
    Children = {"oracle", "monitor"}
    MaxServers = 3
    Rpcs = 3
    FAILOVER_STREAK = 3
    MaxSilence = 2
    MaxLoopFaults = 4
    Commits = {c1, c2, c3}
    Keys32 = {"key", "other key"}
    PLAIN = "plain"
    BADKEY = "bad key"
    MaxStarts = 3
    Gumballs = {g1, g2}
    Foreign = f
    Legacy = {v}
    Streams = {"nft", "lp"}
    AdminKeys = {w, k}
    WALLET = w
    MaxRuns = 3
    MaxUpkeepFaults = 1
    MaxMoves = 2
CHECK_DEADLOCK FALSE
INVARIANTS OpsInvariant CommandsServed ExpiryIsAnnounced DeploySafe ChildrenKept
PROPERTIES OperatorIsTold FindsEndpoint
