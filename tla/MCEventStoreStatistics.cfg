SPECIFICATION Spec
CONSTANTS
    Sources <- TwoSources
    Mids <- MidsOf
    Events <- StatsEvents
    Asked <- NoneAsked
    Times <- LongTimes
    MaxTime = 100
    Ranges <- AllRanges
    Addrs = {Unset, 1}
    StatsAsked <- AllStats
    StatsTimes <- AllStatsTimes
    MAX_CORE_SIZE = 2
    Cutoffs = {6}
    RetainFrom = 1
    MaxEvents = 3
    MaxKinds = 1
    MaxForeign = 1
    Unset = Unset
    Idle = Idle
    Refused = Refused
INVARIANT StatisticsOfSource
