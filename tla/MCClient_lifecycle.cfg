SPECIFICATION Spec
CONSTANTS
    c1 = c1
    c2 = c2
    g1 = g1
    g2 = g2
    h = h
    t = t
    production = production
    staging = staging
    shared = shared
    f = f
    countries = countries
    None = None
    ClientId = {c1, c2}
    Proc = {g1, g2}
    HTTPClient = {h}
    RoundTripper = {t}
    Host = {production, staging}
    Backend = {shared}
    Hook = {f}
    Query = {countries}
    Cacheable = {countries}
    MaxOptions = 2
    defaultBaseURL = production
    DefaultTransport = DefaultTransport
ACTION_CONSTRAINT UnbrokenNewClient
SYMMETRY Symmetric
INVARIANTS
    TypeOK
    AnswersComeThroughOwnCache
    HookFiresOnce
    NoOrphanSweeper
    CloseDisturbsNobodyElse
