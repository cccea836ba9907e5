SPECIFICATION FairSpec
CONSTANTS
    c1 = c1
    c2 = c2
    countries = countries
    subdivisions = subdivisions
    holidays = holidays
    None = None
    Call = {c1, c2}
    Query = {countries}
    Cacheable = {countries}
    MaxAttempts = 2
    Timeout = TRUE
    CacheOn = TRUE
    Status = {200}
PROPERTIES
    CancelBetweenAttemptsWins
    EveryCallReturns
CHECK_DEADLOCK FALSE
