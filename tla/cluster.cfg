\* Three chains, two clusters and epochs of two rounds, with one committer that is one
\* fault short of jail: commits, cross-references and challenges that change the weights
\* the next election reads, and reshuffles over both clusters.
CONSTANTS
    g = g
    c1 = c1
    c2 = c2
    h0 = h0
    k1 = k1
    k2 = k2
    k3 = k3
    r1 = r1
    r2 = r2
    PRECISION = 10000
    Genesis = g
    Committer = {g, c1, c2}
    NoAddress = noaddr
    Auditor = {mgr}
    Manager = mgr
    DeployedBooks <- MCDeployedBooks
    Hash <- MCHash
    NoHash = nohash
    MIN_STAKE = 100
    Stakes = {}
    Events = {}
    AppealRounds = {}
    MaxRound = 4
    MaxUpdates = 2
    ChainId = {k1, k2, k3}
    MaxClusters = 2
    MaxMembers = 2
    Setups <- MCSetups
    Reports <- MCReports
    ChainRoot = {r1}
    Node = {n1}
    ChallengeRounds = {1}
    ELECTION_GAP = 1
    EPOCH_LENGTH = 2
    CHALLENGE_WINDOW = 1
    MaxChallenges = 2
    MaxTime = 2
    MaxClusterCommits = 1
SPECIFICATION ClusterSpec
CONSTRAINT OneActiveOrTwoQuiet
   
PROPERTIES ElectedHeadEligible ResolvedChallengeIsFinal
