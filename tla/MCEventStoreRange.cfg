SPECIFICATION Spec
CONSTANTS
    Sources <- TwoSources
    Mids <- MidsOf
    Events <- FileEvents
    Asked <- FileTimesAsked
    Times <- AllTimes
    MaxTime = 100
    Ranges <- AllRanges
    Addrs = {Unset, 1}
    StatsAsked = {}
    StatsTimes <- AllStatsTimes
    MAX_CORE_SIZE = 2
    Cutoffs = {6}
    RetainFrom = 1
    MaxEvents = 3
    MaxKinds = 1
    MaxForeign = 1
    Unset = Unset
    Idle = Idle
    Refused = Refused
INVARIANT RangeIsOfKind
