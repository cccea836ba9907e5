SPECIFICATION Spec
CONSTANTS
    Width = 6
    Second = 10
    Millisecond = 1
    DefaultBaseDelay = 2
    DefaultMaxRetryWait = 12
    Arg <- Args
    Attempts <- AttemptArgs
    MaxOptions = 3
INVARIANTS TypeOK SaneWhenEnabled DelayWithinCap RetryAfterIsExact
CHECK_DEADLOCK FALSE
