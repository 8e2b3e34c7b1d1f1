\* One swap with up to two locks under the same hash on each chain, two denominations.
\* The clock stops at MaxTime, where every lock has expired and may be settled.
CONSTANTS
    S = s
    R = r
    snI = sn1
    snII = sn2
    Denominations = {1, 10}
    Values = {1, 2, 10}
    T1 = 2
    T2 = 1
    MaxLocks = 2
    MaxTime = 5
    MaxReceived = 1
SPECIFICATION ExchangeSpec
INVARIANTS ExchangeTypeOK LocksCovered 
CHECK_DEADLOCK FALSE
PROPERTIES  EveryLockSettles
