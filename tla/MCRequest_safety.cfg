SPECIFICATION Spec
CONSTANTS
    c1 = c1
    c2 = c2
    countries = countries
    subdivisions = subdivisions
    holidays = holidays
    None = None
    Call = {c1, c2}
    Query = {countries, subdivisions, holidays}
    Cacheable = {countries, subdivisions}
    MaxAttempts = 3
    Timeout = TRUE
    CacheOn = TRUE
    Status = {200, 503}
INVARIANTS
    TypeOK
    NoBodyLeaks
    DecodedBodyIsOpen
    CacheHoldsWholeAnswers
    GivesUpOnlyWhenSpent
PROPERTIES
    ImplementsCallContract
SYMMETRY Calls
CHECK_DEADLOCK FALSE
