SPECIFICATION Spec
CONSTANTS
    conn = conn
    dns = dns
    None = None
    Kinds <- MCKinds
    MaxTime = 3
    MAXIMUM_PAGE_SIZE = 2
    Records <- WalkRecords
    Invalid <- WalkInvalid
    Passing <- WalkPassing
    Source = 1
    Ranges <- WalkRanges
    Sizes = {1, 3}
    Cutoffs = {2}
    RetainFrom = 1
INVARIANTS TypeOK WalkOrdered OnlyWanted WalkComplete MergedMissesOnlyTwins
PROPERTIES CursorAdvances
CHECK_DEADLOCK FALSE
