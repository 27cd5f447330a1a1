SPECIFICATION Spec
CONSTANTS
    conn = conn
    dns = dns
    None = None
    Kinds <- MCKinds
    MaxTime = 3
    MAXIMUM_PAGE_SIZE = 2
    Records <- TwinRecords
    Invalid = {}
    Passing <- TwinRecords
    Source = 1
    Ranges <- TwinRanges
    Sizes = {1}
    Cutoffs = {2}
    RetainFrom = 1
INVARIANTS MergedComplete
CHECK_DEADLOCK FALSE
