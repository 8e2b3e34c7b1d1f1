\* Two committers, one of them staked, one fault and one appeal.
CONSTANTS
    PRECISION = 10000
    Genesis = g
    Committer = {g, c1}
    NoAddress = noaddr
    Auditor = {g}
    Hash = {h1, h2}
    NoHash = nohash
    MIN_STAKE = 100
    Stakes = {100}
    Events = {"INVALID"}
    AppealRounds = {1}
    MaxRound = 1
    MaxUpdates = 2
SPECIFICATION RegistrySpec
INVARIANT StakeAndPoolMatchBalance
