----------------------------- MODULE EventStore -----------------------------
(***************************************************************************)
(* The column families of RocksDB and everything that writes, reads and    *)
(* deletes in them: ingest (src/ingest.rs), retention (src/storage.rs),    *)
(* the requests of the publish server (src/publish.rs), the GraphQL        *)
(* queries and searches, the export and the statistics (src/graphql).  The *)
(* tables of RecordKinds say which store an interface takes for a kind;    *)
(* this module adds the keys, which differ from kind to kind and are put   *)
(* together once by ingest and once more by each interface.                *)
(*                                                                         *)
(* A key is the sequence of its parts; the code puts a zero byte between   *)
(* them.  Names (sources, kinds of logs, ids) are numbers above the        *)
(* timestamps and below MaxTime, i64::MAX, as their first byte is a letter *)
(* and that of a timestamp up to 2043 is less.  Paging has the bounds at   *)
(* the byte level, and the pages.                                          *)
(***************************************************************************)
EXTENDS RecordKinds, Integers, Sequences, SequencesExt

CONSTANTS
    Sources,         \* the names in the sources store
    Mids,            \* kind -> middle parts of its events, {} if it has none
    Events,          \* the events that may come in
    Asked,           \* pairs <<interface, kind>> the clients make use of
    Times,           \* the timestamps of events
    MaxTime,         \* i64::MAX, the end of an open range
    Ranges,          \* pairs of bounds clients ask for
    Addrs,           \* the addresses clients ask for, or Unset
    StatsAsked,      \* sequences of sources statistics are asked for
    StatsTimes,      \* the ranges they are asked for, Unset for the latest
    MAX_CORE_SIZE,   \* the number of cores a statistic may be about
    Cutoffs,         \* "now" minus the retention period, at the ticks
    RetainFrom,      \* 61 seconds after 1970
    MaxEvents,       \* bound: records in the database at a time
    MaxKinds,        \* bound: kinds of records in the database at a time
    MaxForeign,      \* bound: records there of a kind that is not asked for
    Unset,           \* the absence of a condition in a filter
    Idle, Refused

\* The kinds whose events have a middle part.
Divided == {"Log", "SecuLog", "PeriodicTimeSeries", "OpLog", "Packet", "Statistics"}

\* Sources are numbered below this, so that AgentId tells agents and sources
\* apart, as "agent@source" does.
NameLimit == 1000

ASSUME NamesAssumption ==
    /\ Sources \subseteq 0..(NameLimit - 1) /\ Mids \in [Kinds -> SUBSET Nat]
    /\ \A n \in Sources \cup Mids["Log"] : \A t \in Times : t < n /\ n < MaxTime
ASSUME TimesAssumption ==
    /\ Times \subseteq Nat /\ MaxTime \in Nat \ {0}
    /\ \A t \in Times : RetainFrom <= t /\ t < MaxTime
    /\ RetainFrom \in Nat /\ Cutoffs \subseteq Nat
ASSUME RangesAssumption == Ranges \subseteq Nat \X Nat
ASSUME EventsAssumption ==
    \A e \in Events :
        /\ e.kind \in Kinds /\ e.source \in Sources /\ e.time \in Times
        /\ e.mid \in IF e.kind \in Divided THEN Mids[e.kind] ELSE {Unset}
ASSUME CoresAssumption ==
    MAX_CORE_SIZE \in Nat \ {0} /\ Mids["Statistics"] \subseteq 0..(MAX_CORE_SIZE - 1)
ASSUME StatsAssumption ==
    StatsAsked \subseteq Seq(Sources) /\ StatsTimes \subseteq (Nat \X Nat) \cup {Unset}
ASSUME UnsetAssumption == Unset \in Addrs /\ Unset \notin Nat

VARIABLES
    db,           \* the records: column family, key and event
    client,       \* the request that is served and its answer so far, or Idle
    stats,        \* the request for statistics that is served, or Idle
    tick          \* the retention task's round over the sources, or Idle

vars == <<db, client, stats, tick>>

Init == db = {} /\ client = Idle /\ stats = Idle /\ tick = Idle

\* A client takes its answer before anything else happens; a subscription
\* stays open.
Free == client # Idle => client.live

-----------------------------------------------------------------------------
(* Ingest.                                                                 *)

AgentId(agent, source) == NameLimit * agent + source   \* "agent@source"

\* The key that handle_data gives a record.
IngestKey(e) ==
    CASE e.kind \in {"Log", "Statistics", "Packet"} -> <<e.source, e.mid, e.time>>
      [] e.kind \in {"PeriodicTimeSeries", "SecuLog"} -> <<e.mid, e.time>>
      [] e.kind = "OpLog" -> <<AgentId(e.mid, e.source), e.time>>
      [] OTHER -> <<e.source, e.time>>

\* The channel of the subscriber takes the events whose NetworkKey has the
\* record type and the source of its own key; those older than the last one
\* that was sent from the store are passed over.
Reaches(arm, e) ==
    /\ client # Idle /\ client.live
    /\ arm[2] = ColumnFamily[StreamStore[client.asks.kind]]
    /\ client.asks.source \in {Unset, e.source}
    /\ e.time >= client.since

\* The bounds on what comes in.
Bounded ==
    LET round == IF tick = Idle THEN {} ELSE tick.stale
        asked == IF stats # Idle THEN {"Statistics"}
                 ELSE IF client # Idle THEN {client.asks.kind} ELSE Kinds
    IN  /\ Cardinality(db') <= MaxEvents
        /\ Cardinality({r.event.kind : r \in db' \cup round}) <= MaxKinds
        /\ Cardinality({r \in db' : r.event.kind \notin asked}) <= MaxForeign

\* append, which replaces a record with the same key, and
\* send_direct_stream.
Ingest(e) ==
    LET arm == IngestArm[e.kind]
        record == [cf |-> ColumnFamily[arm[1]], key |-> IngestKey(e), event |-> e]
    IN  /\ Free
        /\ db' = {r \in db : r.cf # record.cf \/ r.key # record.key} \cup {record}
        /\ Bounded
        /\ client' = IF Reaches(arm, e) THEN [client EXCEPT !.got = @ \cup {e}]
                     ELSE client
        /\ tick' = IF tick = Idle THEN Idle ELSE [tick EXCEPT !.stale = @ \ {record}]
        /\ UNCHANGED stats

-----------------------------------------------------------------------------
(* Retention: one tick of retain_periodically, while no client is served.  *)

\* The byte order of keys.
Before(a, b) ==
    \/ IsStrictPrefix(a, b)
    \/ \E i \in DOMAIN a \cap DOMAIN b :
          a[i] < b[i] /\ \A j \in 1..(i - 1) : a[j] = b[j]

\* Mutant: the column families of sysmon are forgotten.
RetainPeriodStoreOld ==
    RAW_DATA_COLUMN_FAMILY_NAMES
        \ (NON_STANDARD_CFS \cup {SysmonStores[s] : s \in DOMAIN SysmonStores})

RetainPeriodStore == RAW_DATA_COLUMN_FAMILY_NAMES \ NON_STANDARD_CFS

\* What a tick is to remove: stale is a history variable.
Stale(cutoff) == {r \in db : r.event.time < cutoff}

RetainTick ==
    /\ tick = Idle /\ client = Idle /\ stats = Idle
    /\ \E cutoff \in Cutoffs :
          tick' = [cutoff |-> cutoff, todo |-> Sources, stale |-> Stale(cutoff)]
    /\ UNCHANGED <<db, client, stats>>

\* The records a source's turn deletes: a range in every standard store, and
\* of the logs all from the source's name on whose timestamp is past.
Deleted(source, cutoff) ==
    {r \in db :
        \/ /\ r.cf \in RetainPeriodStore
           /\ ~Before(r.key, <<source, RetainFrom>>) /\ Before(r.key, <<source, cutoff>>)
        \/ /\ r.cf = "log" /\ ~Before(r.key, <<source>>)
           /\ Last(r.key) < cutoff}

RetainSource(source) ==
    /\ tick # Idle /\ source \in tick.todo
    /\ db' = db \ Deleted(source, tick.cutoff)
    /\ tick' = [tick EXCEPT !.todo = @ \ {source}]
    /\ UNCHANGED <<client, stats>>

RetainDone ==
    /\ tick # Idle /\ tick.todo = {}
    /\ tick' = Idle
    /\ UNCHANGED <<db, client, stats>>

-----------------------------------------------------------------------------
(* What a client asks.  It names the records the way their keys ask for:   *)
(* operation logs by agent@source, time series by id, security logs by     *)
(* kind.                                                                   *)

Stream == {"hog", "crusher"}

Named(via, kind) ==
    CASE via = "hog" -> (Sources \cup {Unset}) \X {Unset}
      [] via = "crusher" -> Sources \X {Unset}
      [] OTHER ->
            CASE kind \in {"Log", "OpLog", "Packet"} -> Sources \X Mids[kind]
              [] kind = "PeriodicTimeSeries" -> {Unset} \X Mids[kind]
              [] kind = "SecuLog" ->
                    (IF via = "paged" THEN Sources \cup {Unset} ELSE {Unset}) \X Mids[kind]
              [] OTHER -> Sources \X {Unset}

\* Only NetworkFilter, SearchFilter, ExportFilter, SecuLogFilter and the
\* message of a Crusher have addresses.
AddrsOf(via, kind) ==
    IF \/ via \in {"range", "raw", "hog"}
       \/ via = "paged" /\ kind \in {"Log", "OpLog", "PeriodicTimeSeries", "Packet"}
    THEN {Unset} ELSE Addrs

\* A Crusher gives the start of its range, a Hog none.
RangesOf(via) ==
    CASE via = "hog" -> {<<0, MaxTime>>}
      [] via = "crusher" -> {<<g[1], MaxTime>> : g \in Ranges}
      [] OTHER -> Ranges

RequestsOf(via, kind) ==
    {[via |-> via, kind |-> kind, source |-> n[1], mid |-> n[2],
      from |-> g[1], to |-> g[2], addr |-> a] :
        n \in Named(via, kind), g \in RangesOf(via), a \in AddrsOf(via, kind)}

Requests == UNION {RequestsOf(a[1], a[2]) : a \in Asked}

-----------------------------------------------------------------------------
(* The bounds that every interface has the builder of keys put together.   *)

LowerClosed(prefix, from) == Append(prefix, from)

UpperOpen(prefix, to) ==
    Append(prefix, IF to \in {0, MaxTime} THEN MaxTime ELSE to - 1)

Scan(store, prefix, from, to) ==
    {r.event : r \in {r \in db : /\ r.cf = ColumnFamily[store]
                                 /\ ~Before(r.key, LowerClosed(prefix, from))
                                 /\ ~Before(UpperOpen(prefix, to), r.key)}}

\* multi_get_from_ts and multi_get_with_source.
Lookup(store, prefix, times) ==
    {r.event : r \in {r \in db : /\ r.cf = ColumnFamily[store]
                                 /\ \E t \in times : r.key = Append(prefix, t)}}

-----------------------------------------------------------------------------
(* GraphQL: paged queries, whose pages Paging takes one by one, searches   *)
(* and exports.                                                            *)

\* An address filter passes a record that has no address.
CheckAddress(q, e) == "addr" \in Fields[e.kind] => q.addr \in {Unset, e.addr}

CheckSource(q, e) == q.source \in {Unset, e.source}

NetworkPrefix(q) == <<q.source>>
LogPrefix(q) == <<q.source, q.mid>>
OpLogPrefix(q) == <<AgentId(q.mid, q.source)>>
SecuLogPrefix(q) == <<q.mid>>
TimeSeriesPrefix(q) == <<q.mid>>
PacketPrefix(q) == <<q.source, q.mid>>

PagedPrefix(q) ==
    CASE q.kind = "Log" -> LogPrefix(q)
      [] q.kind = "OpLog" -> OpLogPrefix(q)
      [] q.kind = "SecuLog" -> SecuLogPrefix(q)
      [] q.kind = "PeriodicTimeSeries" -> TimeSeriesPrefix(q)
      [] q.kind = "Packet" -> PacketPrefix(q)
      [] OTHER -> NetworkPrefix(q)

SecuLogCheck(q, e) == CheckAddress(q, e) /\ CheckSource(q, e)
NetworkCheck(q, e) == CheckAddress(q, e)
SearchCheck(q, e) == CheckAddress(q, e)
ExportCheck(q, e) == CheckAddress(q, e)

Paged(q) ==
    {e \in Scan(PagedStore[q.kind], PagedPrefix(q), q.from, q.to) :
        IF q.kind = "SecuLog" THEN SecuLogCheck(q, e) ELSE NetworkCheck(q, e)}

\* The client names every timestamp there may be, and the filter the range.
Search(q) ==
    {e \in Lookup(SearchStore[q.kind], NetworkPrefix(q), Times) :
        q.from <= e.time /\ e.time < q.to /\ SearchCheck(q, e)}

\* A client gives the id or the kind of sourceless records as source_id.
ExportPrefix(q) ==
    CASE q.kind = "Log" -> <<q.source, q.mid>>
      [] q.kind = "OpLog" -> <<AgentId(q.mid, q.source)>>
      [] q.kind \in {"PeriodicTimeSeries", "SecuLog"} -> <<q.mid>>
      [] OTHER -> <<q.source>>

ExportRefused(q) ==
    \/ q.kind \notin DOMAIN ExportStore
    \/ q.addr # Unset /\ Protocol[q.kind] \in NON_NETWORK

\* export_statistic_file merges the iterators of the cores by time.  If none of
\* them has a value its `iter_next_values[0]' panics in the task that writes
\* the file, which then stays as empty as the answer is here.
ProcessStatisticsExport(q) ==
    UNION {Scan(ExportStore[q.kind], <<q.source, core>>, q.from, q.to) :
           core \in 0..(MAX_CORE_SIZE - 1)}

ProcessExport(q) ==
    {e \in IF q.kind = "Statistics" THEN ProcessStatisticsExport(q)
           ELSE Scan(ExportStore[q.kind], ExportPrefix(q), q.from, q.to) :
        ExportCheck(q, e)}

-----------------------------------------------------------------------------
(* The publish server.                                                     *)

\* The kind of a log is the kind a request names.
RangePrefix(q) ==
    CASE q.kind = "Log" -> <<q.source, q.mid>>
      [] q.kind = "PeriodicTimeSeries" -> <<q.mid>>
      [] OTHER -> <<q.source>>

ProcessRangeData(q) == Scan(RangeStore[q.kind], RangePrefix(q), q.from, q.to)

\* A client puts the zero byte and the kind of a log behind the source.
ProcessRawEvents(q) ==
    Lookup(RawStore[q.kind], RangePrefix(q),
           {t \in Times : q.from <= t /\ t < q.to})

FilterIp(q, e) == q.addr \in {Unset, e.addr}

\* What send_stream reads for a Crusher, whose start message has no kind.
StreamScan(q) == Scan(StreamStore[q.kind], <<q.source>>, q.from, q.to)

-----------------------------------------------------------------------------
(* The requests, one at a time and between ticks: each one sees the store  *)
(* as it is at one moment and changes nothing of it.                       *)

\* Bound: a kind of which the database has no record is asked for as a whole,
\* and while there are few records.
Foreign(q) ==
    /\ Cardinality(db) <= MaxForeign
    /\ q.from = 0 /\ q.to = MaxTime /\ q.addr = Unset

Serves(q, live, got) ==
    /\ client = Idle /\ stats = Idle /\ tick = Idle
    /\ (\A r \in db : r.event.kind # q.kind) => Foreign(q)
    /\ client' = [asks |-> q, live |-> live, got |-> got,
                  since |-> IF live /\ got # {} THEN Max({e.time : e \in got}) ELSE 0]
    /\ UNCHANGED <<db, stats, tick>>

PagedQuery(q) == q.via = "paged" /\ Serves(q, FALSE, Paged(q))

SearchQuery(q) == q.via = "search" /\ Serves(q, FALSE, Search(q))

Export(q) ==
    q.via = "export"
        /\ Serves(q, FALSE, IF ExportRefused(q) THEN Refused ELSE ProcessExport(q))

RangeRequest(q) ==
    q.via = "range"
        /\ Serves(q, FALSE, IF q.kind \in DOMAIN RangeStore
                            THEN ProcessRangeData(q) ELSE Refused)

RawRequest(q) ==
    q.via = "raw"
        /\ Serves(q, FALSE, IF q.kind \in DOMAIN RawStore
                            THEN ProcessRawEvents(q) ELSE Refused)

HogStream(q) == q.via = "hog" /\ Serves(q, TRUE, {})

\* Sending what is there fails at a record that has no addresses.
CrusherStream(q) ==
    /\ q.via = "crusher"
    /\ LET found == StreamScan(q)
       IN  IF \E e \in found : "addr" \notin Fields[e.kind]
           THEN Serves(q, FALSE, Refused)
           ELSE Serves(q, TRUE, {e \in found : FilterIp(q, e)})

Leave == client # Idle /\ client' = Idle /\ UNCHANGED <<db, stats, tick>>

-----------------------------------------------------------------------------
(* Statistics: of each source in turn all those in a range, or the latest, *)
(* the cores of one timestamp taken together.  An iterator is the set of   *)
(* the events it has still to give, from the newest on; it is opened on    *)
(* the store as it is at that moment, while events come in.  The iterators *)
(* are kept from one source to the next.                                   *)
(*                                                                         *)
(* todo, time      the sources still to come and the range that is asked   *)
(* step, at        "next" source, "open" its cores, "merge" them; the loop *)
(*                 counter: cores opened, iterators asked for their first  *)
(* iters, values   stats_iters and iter_next_values                        *)
(* picked          next_candidate, the indices still to be moved on        *)
(* now, answer     the current source's StatisticsRawEvent and total_stats;*)
(*                 the field `there' is a history variable: what the store *)
(*                 held of the source when its cores were opened           *)

Newer(d, e) == d.time > e.time

\* The value an iterator gives, and what it has to give after it.
Newest(iter) == CHOOSE e \in iter : \A d \in iter : ~Newer(d, e)
Older(iter) == {d \in iter : Newer(Newest(iter), d)}

Bounds(time) == IF time = Unset THEN <<0, MaxTime>> ELSE time

\* get_statistics_iter
StatisticsIter(source, core, time) ==
    Scan("statistics_store", <<source, core>>, Bounds(time)[1], Bounds(time)[2])

\* The statistics that are meant.
StatisticsOf(source, core, time) ==
    {r.event : r \in {r \in db :
        /\ r.event.kind = "Statistics" /\ r.event.source = source /\ r.event.mid = core
        /\ Bounds(time)[1] <= r.event.time /\ r.event.time < Bounds(time)[2]}}

StatsAsk ==
    /\ client = Idle /\ stats = Idle /\ tick = Idle
    /\ Cardinality({r \in db : r.event.kind # "Statistics"}) <= MaxForeign
    /\ \E sources \in StatsAsked, time \in StatsTimes :
          stats' = [todo |-> sources, time |-> time, step |-> "next", at |-> 0,
                    iters |-> <<>>, values |-> <<>>, picked |-> {}, now |-> Idle,
                    answer |-> <<>>]
    /\ UNCHANGED <<db, client, tick>>

StatsSource ==
    /\ stats # Idle /\ stats.step = "next" /\ stats.todo # <<>>
    /\ stats' = [stats EXCEPT
           !.todo = Tail(@), !.step = "open", !.at = 0,
           !.now = [source |-> Head(stats.todo), there |-> {}, infos |-> <<>>]]
    /\ UNCHANGED <<db, client, tick>>

\* The next core: its iterator joins those that are there, unless it has
\* nothing to give.
StatsOpen ==
    /\ stats # Idle /\ stats.step = "open"
    /\ LET source == stats.now.source
           iter == StatisticsIter(source, stats.at, stats.time)
           last == stats.at + 1 = MAX_CORE_SIZE
       IN  stats' = [stats EXCEPT
               !.step = IF last THEN "merge" ELSE "open",
               !.at = IF last THEN 0 ELSE @ + 1,
               !.iters = IF iter = {} THEN @ ELSE Append(@, iter),
               !.now.there = @ \cup StatisticsOf(source, stats.at, stats.time)]
    /\ UNCHANGED <<db, client, tick>>

\* Each of the iterators that has a value gives it.
StatsFirst ==
    /\ stats # Idle /\ stats.step = "merge" /\ stats.at < Len(stats.iters)
    /\ LET i == stats.at + 1
           iter == stats.iters[i]
       IN  stats' = [stats EXCEPT
               !.at = i,
               !.iters[i] = IF iter = {} THEN {} ELSE Older(iter),
               !.values = IF iter = {} THEN @ ELSE Append(@, Newest(iter))]
    /\ UNCHANGED <<db, client, tick>>

\* All iterators have been asked for their first value: the loop of
\* gen_statistics is at its top.
Merging ==
    /\ stats # Idle /\ stats.step = "merge" /\ stats.at >= Len(stats.iters)
    /\ stats.picked = {}

\* Nothing is left, or the latest is there and no more is asked for.
Enough ==
    \/ stats.values = <<>>
    \/ stats.time = Unset /\ stats.now.infos # <<>>

\* Mutant: only one of the cores that have the newest timestamp is taken.
PickedOne(values, newest) ==
    {CHOOSE i \in DOMAIN values : values[i].time = newest}

Picked(values, newest) == {i \in DOMAIN values : values[i].time = newest}

\* One round: the values with the newest timestamp are summed up.
StatsRound ==
    /\ Merging /\ ~Enough
    /\ LET values == stats.values
           newest == Max({values[i].time : i \in DOMAIN values})
           picked == Picked(values, newest)
       IN  stats' = [stats EXCEPT
               !.picked = picked,
               !.now.infos =
                   Append(@, [time |-> newest, parts |-> {<<i, values[i]>> : i \in picked}])]
    /\ UNCHANGED <<db, client, tick>>

\* Mutant: the indices are not taken from the last to the first.
FirstIndex(picked) == Min(picked)

NextIndex(picked) == Max(picked)

\* The value at a picked index is replaced by the next one of the iterator at
\* the same index, or both are removed.
StatsAdvance ==
    /\ stats # Idle /\ stats.picked # {}
    /\ LET i == NextIndex(stats.picked)
           rest == [stats EXCEPT !.picked = @ \ {i}]
       IN  stats' =
              IF i \notin DOMAIN stats.iters THEN rest
              ELSE IF stats.iters[i] # {}
              THEN [rest EXCEPT !.iters[i] = Older(@),
                                !.values[i] = Newest(stats.iters[i])]
              ELSE [rest EXCEPT !.iters = RemoveAt(@, i), !.values = RemoveAt(@, i)]
    /\ UNCHANGED <<db, client, tick>>

\* What gen_statistics returns is pushed to total_stats.
StatsPush ==
    /\ Merging /\ Enough
    /\ stats' = [stats EXCEPT !.step = "next", !.at = 0, !.values = <<>>,
                              !.now = Idle, !.answer = Append(@, stats.now)]
    /\ UNCHANGED <<db, client, tick>>

StatsDone ==
    /\ stats # Idle /\ stats.step = "next" /\ stats.todo = <<>>
    /\ stats' = Idle
    /\ UNCHANGED <<db, client, tick>>

-----------------------------------------------------------------------------
Next ==
    \/ \E e \in Events : Ingest(e)
    \/ RetainTick \/ \E source \in Sources : RetainSource(source)
    \/ RetainDone
    \/ /\ client = Idle
       /\ \E q \in Requests :
             \/ PagedQuery(q) \/ SearchQuery(q) \/ Export(q)
             \/ RangeRequest(q) \/ RawRequest(q)
             \/ HogStream(q) \/ CrusherStream(q)
    \/ Leave
    \/ StatsAsk \/ StatsSource \/ StatsOpen \/ StatsFirst
    \/ StatsRound \/ StatsAdvance \/ StatsPush \/ StatsDone

Spec == Init /\ [][Next]_vars

-----------------------------------------------------------------------------
(* Properties.                                                             *)

AnyRequest ==
    [via : {"paged", "search", "export", "range", "raw"} \cup Stream, kind : Kinds,
     source : Sources \cup {Unset}, mid : {Unset} \cup UNION {Mids[k] : k \in Kinds},
     from : Nat, to : Nat, addr : Addrs]

\* What a client's request has led to.
Served ==
    [asks : AnyRequest, live : BOOLEAN, got : (SUBSET Events) \cup {Refused}, since : Nat]

ASSUME IdleAssumption == Idle \notin Served

\* What the interfaces have an answer to: all but a range request for
\* FileCreateTime, which has another kind's store (src/publish.rs:995), and
\* subscriptions to the two kinds of files, which ingest does not pass on.
Offered ==
    ({"paged"} \X DOMAIN PagedStore) \cup ({"search"} \X DOMAIN SearchStore)
        \cup ({"export", "raw"} \X Kinds)
        \cup ({"range"} \X (Kinds \ {"FileCreateTime"}))
        \cup (Stream \X (DOMAIN StreamStore \ {"FileCreate", "FileDelete"}))

Archive == INSTANCE EventArchive
    WITH archive <- {r.event : r \in db}, Requests <- AnyRequest

\* Whatever kind is written, read through whichever interface, and deleted,
\* the stores, the keys and the NetworkKeys that ingest, retention and each
\* of the interfaces choose on their own (src/ingest.rs, src/storage.rs,
\* src/publish.rs, src/graphql) fit together: a client is answered with
\* exactly the events it asks for or refused, a subscriber is passed on what
\* comes in, an event replaces none but its own, and none but old ones go.
ImplementsArchive == Archive!Spec

\* When retain_periodically has been round the sources, the records that
\* were too old when it began and whose kinds it looks after are gone,
\* whatever came in meanwhile.
OldIsGone ==
    tick # Idle /\ tick.todo = {} =>
        \A r \in tick.stale \cap db :
            r.event.kind \in {"PeriodicTimeSeries", "Statistics", "OpLog", "Packet",
                              "SecuLog"}

\* The parts summed up for a timestamp are the statistics of all cores that
\* are there of it, each one once.
Whole(info, there) ==
    /\ {p[2] : p \in info.parts} = {e \in there : e.time = info.time}
    /\ \A p, q \in info.parts : p[2] = q[2] => p = q

\* A part of an answer: whole, and from the newest on.
Exact(a) ==
    \A j \in DOMAIN a.infos :
        /\ Whole(a.infos[j], a.there)
        /\ \A k \in 1..(j - 1) : Newer(a.infos[k], a.infos[j])
        /\ \A e \in a.there : ~Newer(e, a.infos[1])

\* An answer: every timestamp that is there, or the latest.
Complete(a, time) ==
    IF time = Unset
    THEN Len(a.infos) <= 1 /\ (a.there # {} => a.infos # <<>>)
    ELSE \A e \in a.there : \E j \in DOMAIN a.infos : a.infos[j].time = e.time

\* The statistics of a range, and those of the first source when the latest
\* are asked for, are those the store held of the source, the newest first,
\* with the cores of a timestamp together: the merge of the iterators of the
\* cores (gen_statistics) loses, doubles and mixes up none, whatever comes in
\* while they are opened.
StatisticsExact ==
    stats # Idle =>
        /\ \A i \in DOMAIN stats.answer :
              stats.time # Unset \/ i = 1 =>
                  Exact(stats.answer[i]) /\ Complete(stats.answer[i], stats.time)
        /\ stats.step # "next" /\ (stats.time # Unset \/ stats.answer = <<>>) =>
              Exact(stats.now)

\* The index of a value that is to be replaced or removed is one of a value
\* and of an iterator, so that neither the unwrap nor a remove of
\* gen_statistics panics: "value is always exist" (src/graphql/statistics.rs),
\* also while the iterators of an earlier source are among the others.
ValueExists ==
    stats # Idle => stats.picked \subseteq DOMAIN stats.values \cap DOMAIN stats.iters

\* The answer for a source holds statistics of that source, and not what the
\* iterators of a source before it had left (statistics, gen_statistics in
\* src/graphql/statistics.rs).
StatisticsOfSource ==
    stats # Idle /\ stats.step # "next" =>
        \A j \in DOMAIN stats.now.infos :
            {p[2] : p \in stats.now.infos[j].parts} \subseteq stats.now.there

\* A range request for a kind is answered with records of that kind
\* (handle_request in src/publish.rs).
RangeIsOfKind ==
    client # Idle /\ client.asks.via = "range" /\ client.got # Refused =>
        \A e \in client.got : e.kind = client.asks.kind
=============================================================================
