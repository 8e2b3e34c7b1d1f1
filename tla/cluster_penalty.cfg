\* One cluster and two nodes that challenge the same missing submission.
CONSTANTS
    g = g
    c1 = c1
    c2 = c2
    h0 = h0
    k1 = k1
    k2 = k2
    k3 = k3
    r1 = r1
    r2 = r2
    PRECISION = 10000
    Genesis = g
    Committer = {g, c1, c2}
    NoAddress = noaddr
    Auditor = {mgr}
    Manager = mgr
    DeployedBooks <- MCDeployedBooks
    Hash <- MCHash
    NoHash = nohash
    MIN_STAKE = 100
    Stakes = {}
    Events = {}
    AppealRounds = {}
    MaxRound = 1
    MaxUpdates = 2
    ChainId = {k1, k2}
    MaxClusters = 1
    MaxMembers = 1
    Setups <- MCOneCluster
    Reports <- MCReports
    ChainRoot = {r1}
    Node = {n1, n2}
    ChallengeRounds = {1}
    ELECTION_GAP = 1
    EPOCH_LENGTH = 3
    CHALLENGE_WINDOW = 1
    MaxChallenges = 2
    MaxTime = 1
    MaxClusterCommits = 0
SPECIFICATION ClusterSpec
INVARIANT OneHeadPerMissingSubmission
