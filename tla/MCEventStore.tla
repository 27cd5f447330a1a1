---------------------------- MODULE MCEventStore ----------------------------
(* EventStore with two sources, two timestamps and two names of each sort. *)
EXTENDS EventStore

AllTimes == {5, 6}
LongTimes == {5, 6, 7}
TwoSources == {21, 22}
MidsOf == [k \in Kinds |->
    CASE k \in {"Log", "SecuLog", "PeriodicTimeSeries"} -> {31, 32}
      [] k = "OpLog" -> {41}
      [] k = "Packet" -> {3, 4}
      [] k = "Statistics" -> {0, 1}
      [] OTHER -> {}]

\* An event has its middle part, if its kind has one, and the address 1 or 2.
EventsOf(ks, times) ==
    {[kind |-> n[1], source |-> s, mid |-> n[2], time |-> t, addr |-> t % 2] :
        n \in UNION {{k} \X (IF MidsOf[k] = {} THEN {Unset} ELSE MidsOf[k]) : k \in ks},
        s \in TwoSources, t \in times}

AllEvents == EventsOf(Kinds, AllTimes)
FileEvents == EventsOf({"FileCreate", "FileCreateTime"}, {6})
StatsEvents == EventsOf({"Statistics"}, LongTimes)

FileTimesAsked == {<<"range", "FileCreateTime">>}
NoneAsked == {}

AllRanges == {<<0, 100>>, <<5, 6>>}
AllStats == {<<21>>, <<21, 22>>, <<21, 21>>}
AllStatsTimes == {Unset, <<5, 7>>}
=============================================================================
