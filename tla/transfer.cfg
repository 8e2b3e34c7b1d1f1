\* Two chains, one sender and receiver, two serial numbers that burns may share, and a
\* split into two denominations.  The clock stops at MaxTime.
CONSTANTS
    DENOM_1 = 1
    Sender = {s}
    Receiver = {r}
    Serial = {sn1, sn2}
    Values = {1, 2}
    SplitValues = {11}
    DEFAULT_TIMELOCK = 1
    MaxBurns = 2
    MaxTime = 2
    MaxReceived = 1
SPECIFICATION TransferSpec
CONSTRAINT KeysFirst
INVARIANTS TransferTypeOK PoolAccounted 
CHECK_DEADLOCK FALSE
SYMMETRY MCSymmetry
