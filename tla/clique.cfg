\* Two genesis signers, as on every chain of the deployment, and two candidates: room to
\* grow to four signers, drop one again and pass a checkpoint.
CONSTANTS
    Account = {s1, s2, s3, s4}
    ZeroAddress = zero
    GenesisSigners = {s1, s2}
    Epoch = 8
    UINT = 65536
    MaxNumber = 9
SPECIFICATION CliqueSpec
INVARIANTS CliqueTypeOK TallyMatchesVotes AcceptedHeaderApplies SomeoneMaySeal
PROPERTIES  SealsSpaced
CHECK_DEADLOCK FALSE
