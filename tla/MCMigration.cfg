SPECIFICATION FairSpec
CONSTANTS
    Https <- ThreeHttps
    Stats <- TwoStats
    OldVersions <- AllVersions
    MaxCrashes = 3
INVARIANTS ServesNewFormats RefusedForCause
PROPERTIES StartAdvances NoRecordIsMigratedTwice StartEnds
