SPECIFICATION Spec
CONSTANTS
    Command = {"public", "school", "countries", "none", "version", "help", "unknown"}
    Token <- MCToken
    Year = {"2025"}
    MaxArgs = 5
    None = None
INVARIANTS
    TypeOK
    OrderIsIrrelevant
    UsageErrorSendsNothing
CHECK_DEADLOCK FALSE
