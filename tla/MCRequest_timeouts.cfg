SPECIFICATION Spec
CONSTANTS
    c1 = c1
    c2 = c2
    countries = countries
    subdivisions = subdivisions
    holidays = holidays
    None = None
    Call = {c1}
    Query = {holidays}
    Cacheable = {}
    MaxAttempts = 3
    Timeout = TRUE
    CacheOn = TRUE
    Status = {200, 503}
INVARIANTS
    TimeoutsAreRetried
CHECK_DEADLOCK FALSE
