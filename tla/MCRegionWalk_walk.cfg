SPECIFICATION FairSpec
CONSTANTS
    a = a
    b = b
    c = c
    Name = {a, b, c}
    NoName = NoName
    Hyphenated = {a, b}
    Spelling = {"upper", "lower"}
    MaxNodes = 3
    MaxSubs = 2
INVARIANTS TypeOK WalkIsReachability AnswerFollowsTree FlatAgrees
PROPERTY EveryWalkEnds
CHECK_DEADLOCK FALSE
