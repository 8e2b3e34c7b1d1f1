\* One chain, one committer, two commits pending from the same root, no tree.
CONSTANTS
    r0 = r0
    r1 = r1
    noroot = noroot
    Committer = {c1}
    Auditor = {o}
    Owner = o
    ChainId = {k1}
    Root = {r0, r1}
    InitialRoots = {r0}
    NoRoot = noroot
    Provable <- MCProvable
    REWARD = 1
    MIN_COMMITTER_STAKE = 2
    SLASH_AMOUNT = 1
    StakeValues = {2}
    FundingValues = {1}
    MaxBlock = 2
    MaxCommits = 2
    MaxNodes = 0
    MaxChildren = 0
    MaxRewarded = 2
    MaxFunding = 0
SPECIFICATION AuditSpec
INVARIANT HistoryChainsFromLatest
