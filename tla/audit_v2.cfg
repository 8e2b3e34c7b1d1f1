\* Two committers, one of them one fault short of jail, and up to three submissions.
CONSTANTS
    g = g
    c1 = c1
    c2 = c2
    h0 = h0
    r0 = r0
    r1 = r1
    r2 = r2
    PRECISION = 10000
    Genesis = g
    Committer = {g, c1}
    NoAddress = noaddr
    Auditor = {v2}
    V2 = v2
    V2Owner = o
    V2Auditor = {o, a1}
    DeployedBooks <- MCWornBooks
    Hash <- MCHash
    NoHash = nohash
    MIN_STAKE = 100
    Stakes = {}
    Events = {}
    AppealRounds = {}
    MaxRound = 1
    MaxUpdates = 2
    ChainId = {k1}
    BlockRange = {b1}
    Root = {r0, r1, r2}
    NoRoot = noroot
    InitialRoots = {r0}
    Provable <- MCProvable
    Submitted <- MCSubmitted
    REWARD = 150
    StakeValues = {100}
    MaxBalance = 100
    MaxTime = 2
    MaxSubmissions = 3
SPECIFICATION V2Spec
CONSTRAINT SecondAuditorLate
INVARIANTS V2TypeOK
PROPERTIES ImplementsAuditLog DissentIsMinority
