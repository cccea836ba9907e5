SPECIFICATION Spec
CONSTANTS
    Thread = {t1, t2, t3}
    Key = {k1}
    Value = {v1, v2}
    TTL = 1
    MaxTime = 3
    NoEntry = NoEntry
SYMMETRY Symmetric
INVARIANTS
    TypeOK
    OneSweeper
PROPERTIES
    EvictOnlyExpired
    ExpiryNeverRegresses
    ImplementsTTLMap
