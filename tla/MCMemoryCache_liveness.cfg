SPECIFICATION FairSpec
CONSTANTS
    Thread = {t1, t2}
    Key = {k1}
    Value = {v1}
    TTL = 0
    MaxTime = 1
    NoEntry = NoEntry
PROPERTIES
    EveryCallReturns
    SweeperStops
    ExpiredIsReclaimed
