SPECIFICATION FairSpec
CONSTANTS
    RotationCnt = 2
    MaxEvents = 6
    ZeroStamped = {2}
INVARIANTS AckOnlyStored BacklogBounded CounterBounded ReturnedMeansFlushed
PROPERTIES StaleAckIsOvertaken EventuallyAcked IntervalTaskEnds
CHECK_DEADLOCK FALSE
