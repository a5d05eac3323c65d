SPECIFICATION Spec
CONSTANTS
    Chats = {chat}
    Children = {child}
    Workers = {w1, w2}
    Values = {a, b}
    MaxRuns = 2
    MaxPosts = 2
    MaxWrites = 1
    MaxAttempts = 2
    MaxCrashes = 1
    MaxFaults = 1
    MaxGovern = 1
    NULL = NULL
    Paths <- MCPaths
    Entries = {s1, s2}
    Unstorable = {s2}
    MaxEdits = 3
    MaxEmbedFaults = 1
    MaxIndexRestarts = 1
    Absent = Absent
    Sizes = {1, 3}
    Levels <- MCLevels
    CompactLevels <- MCCompactLevels
    Limit = 10
    RetryLimit = 7
    FixedCosts = {0, 2, 12}
    MaxAsks = 2
    MaxRounds = 3
SYMMETRY Symmetry
INVARIANTS
    ProcessedWasRead
    FindingsAreReviewed
    FreshIndexIsRight
    SelectionIsSound
PROPERTIES
    GovernanceIsFinal
CHECK_DEADLOCK FALSE
