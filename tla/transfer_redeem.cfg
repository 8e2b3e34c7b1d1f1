\* One burn on each chain under one serial number, late mints and redemptions.
CONSTANTS
    DENOM_1 = 1
    Sender = {s}
    Receiver = {r}
    Serial = {sn1}
    Values = {1}
    SplitValues = {}
    DEFAULT_TIMELOCK = 1
    MaxBurns = 1
    MaxTime = 2
    MaxReceived = 1
SPECIFICATION TransferSpec
INVARIANT BurnPaidOnce
CHECK_DEADLOCK FALSE
