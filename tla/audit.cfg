CONSTANTS
    r0 = r0
    r1 = r1
    noroot = noroot
    k1 = k1
    k2 = k2
    k3 = k3
    Committer = {c1}
    Auditor = {o, a1}
    Owner = o
    ChainId = {k1}
    Root = {r0, r1}
    InitialRoots = {r0}
    NoRoot = noroot
    Provable <- MCProvable
    REWARD = 1
    MIN_COMMITTER_STAKE = 2
    SLASH_AMOUNT = 2
    StakeValues = {1, 2}
    FundingValues = {2}
    MaxBlock = 2
    MaxCommits = 2
    MaxNodes = 2
    MaxChildren = 2
    MaxRewarded = 2
    MaxFunding = 2
    Chain = {k1, k2, k3}
    BlockKind = {"empty", "event"}
    MaxBlocks = 3
    ChainOrder <- MCOrder
    Gateway = {k3}
    TreeNodeID = 1
    ChildCommitters = 0
    MaxPending = 2
    MaxErrors = 1
    MaxLost = 1
    MaxCrashes = 1
    ChainA = k1
    Poll = {p1, p2}
    RelayAccount = c1
SPECIFICATION ClientsSpec
CONSTRAINT Slices
INVARIANTS ClientsTypeOK HistoryMatchesChain VerifiedFromHistory RewardsPaidOnce FundsAccounted TreeConsistent   EventsNotSkipped
PROPERTIES ChainsFollowed
CHECK_DEADLOCK FALSE
