\* Two committers whose faults may carry the same proof hash, an auditor that can be
\* revoked, enough rounds for the appeal window of round 1 to close, and, for the
\* bootstrapped committer alone, event sequences past the seventh fault.
CONSTANTS
    PRECISION = 10000
    Genesis = g
    Committer = {g, c1}
    NoAddress = noaddr
    Auditor = {a1}
    Hash = {h1}
    NoHash = nohash
    MIN_STAKE = 100
    Stakes = {99, 105}
    Events = {"VALID", "INVALID", "MISSING"}
    AppealRounds = {1}
    MaxRound = 7
    MaxUpdates = 9
SPECIFICATION RegistrySpec
CONSTRAINT ShortOrAlone
INVARIANTS RegistryTypeOK SeventhFaultJails SafetyMultTracksFaults JailedBelowThreshold SnapshotsEligible
PROPERTIES JailIsAbsorbing JailOnlyOnFault SlashedStakeGoesToPool
