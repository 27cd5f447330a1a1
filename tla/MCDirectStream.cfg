SPECIFICATION FairSpec
CONSTANTS
    MaxSubs = 2
    hall = hall
    oldlab = oldlab
    lab = lab
    all = all
    wHall = wHall
    wLab = wLab
    crusher1 = crusher1
    crusher2 = crusher2
    hog = hog
    kCrusher = kCrusher
    kOldLab = kOldLab
    kLab = kLab
    NoSub = NoSub
    Names <- MCNames
    All = all
    SuffixOf <- MCSuffixOf
    Events <- MCEvents
    Src <- MCSrc
    Time <- MCTime
    Streams <- MCStreams
    Feed <- MCFeed
    Subs <- MCSubs
    Keys <- MCKeys
    KeysOf <- MCKeysOf
    Target <- MCTarget
    Crushers <- MCCrushers
    Start <- MCStart
    Passes <- MCPasses
INVARIANTS CrusherMissesNothing TwiceOnlyAtSeam OnlyFailedSetupKillsIngest
PROPERTIES CatchesUpOrEnds
CHECK_DEADLOCK FALSE
